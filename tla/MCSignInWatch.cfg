\* The system stops when the view is closed and its watches have ended.
CONSTANTS
    Services = {"ask", "mp"}
    Threads = {t1, t2, t3}
    Polls <- MCPolls
SPECIFICATION Spec
INVARIANTS
    NeverStranded
PROPERTIES
    SignInComesHome
CHECK_DEADLOCK FALSE
