-------------------------------- MODULE Main --------------------------------
(***************************************************************************)
(* main() of server.c: start-up, the event loop around epoll_wait, and the *)
(* cleanup that every way out goes through.                                *)
(*                                                                         *)
(* Time is kept relative (how long until, how long since), so that the     *)
(* loop may run forever.  It passes only while epoll_wait waits: handling  *)
(* an event takes less than one unit.  libmicrohttpd and the kernel are    *)
(* modelled by what this code relies on: MHD's epoll descriptor is         *)
(* readable while a connection has something for it; MHD_run serves those  *)
(* connections and closes the ones that were silent for too long;          *)
(* MHD_get_timeout64 says when the next of them will be.                   *)
(***************************************************************************)
EXTENDS Integers, FiniteSets

CONSTANTS
  Conns,               \* client connections
  REAPER_INTERVAL_S,   \* period of the reaper's timer
  CONNECTION_TIMEOUT,  \* MHD_OPTION_CONNECTION_TIMEOUT
  EPOLL_EVENTS_MAX     \* events one epoll_wait may report

ASSUME MainConstants ==
  /\ REAPER_INTERVAL_S \in Nat \ {0}
  /\ CONNECTION_TIMEOUT \in Nat \ {0}
  /\ EPOLL_EVENTS_MAX \in Nat \ {0}

VARIABLES
  pc,              \* where main stands
  use_tls,         \* the argument --http was not given
  tls,             \* the certificate and key: "none", "loaded", "zero"
  store,           \* the arena: "none", "empty", "secrets", "zero"
  contexts,        \* the contexts: "none", "clean", "used", "zero"
  d,               \* the MHD daemon: "none", "running", "stopped"
  handlers,        \* signal() has installed on_sigint
  stop_main_loop,  \* set by on_sigint
  exit_code,       \* what main will return
  epoll_timeout,   \* what the next epoll_wait is given
  wait_left,       \* what is left of the current one
  timer_left,      \* until reaper_tfd expires again
  timer_ready,     \* it has expired and was not read
  events,          \* reported by epoll_wait, not handled yet
  open,            \* connections MHD serves
  ready,           \* connections with something for MHD to do
  silent,          \* how long a connection has been idle, to its timeout
  since            \* history: time since the last reap, MHD_run, and signal

bootVars == <<use_tls, tls, store, contexts, d, handlers>>
loopVars == <<epoll_timeout, wait_left, timer_left, timer_ready, events>>
mhdVars == <<open, ready, silent>>
vars == <<pc, bootVars, stop_main_loop, exit_code, loopVars, mhdVars, since>>

(* The history counters stop here; the properties look no further. *)
SINCE_MAX == 2 * REAPER_INTERVAL_S
NoTime == [reap |-> 0, run |-> 0, stop |-> 0]

Init ==
  /\ pc = "args"
  /\ use_tls \in BOOLEAN
  /\ tls = "none" /\ store = "none" /\ contexts = "none" /\ d = "none"
  /\ handlers = FALSE
  /\ stop_main_loop = FALSE
  /\ exit_code = "failure"
  /\ epoll_timeout = REAPER_INTERVAL_S
  /\ wait_left = 0
  /\ timer_left = REAPER_INTERVAL_S
  /\ timer_ready = FALSE
  /\ events = {}
  /\ open = {} /\ ready = {}
  /\ silent = [c \in Conns |-> 0]
  /\ since = NoTime

Exit(code) == pc' = "exited" /\ exit_code' = code
Cleanup == pc' = "cleanup" /\ UNCHANGED exit_code  \* goto cleanup
GoTo(next) == pc' = next /\ UNCHANGED exit_code

-----------------------------------------------------------------------------
(* Start-up.  A signal may end it before the handlers are installed. *)

Boot == UNCHANGED <<use_tls, stop_main_loop, loopVars, mhdVars, since>>

(* --version and --help return at once. *)
parse_arguments ==
  /\ pc = "args"
  /\ Exit("success") \/ GoTo("log_init")
  /\ Boot /\ UNCHANGED <<tls, store, contexts, d, handlers>>

log_init ==
  /\ pc = "log_init"
  /\ Exit("failure") \/ GoTo("storage_init")
  /\ Boot /\ UNCHANGED <<tls, store, contexts, d, handlers>>

storage_init ==
  /\ pc = "storage_init"
  /\ \/ Exit("failure") /\ UNCHANGED store
     \/ GoTo(IF use_tls THEN "tls" ELSE "assets") /\ store' = "empty"
  /\ Boot /\ UNCHANGED <<tls, contexts, d, handlers>>

(***************************************************************************)
(* No TLS support, a file that cannot be opened or memory that cannot be   *)
(* had leave nothing behind (a failed malloc is only noticed when read     *)
(* fails on the null pointer).  A read that fails half way leaves what was *)
(* read in the memory.                                                     *)
(***************************************************************************)
tls_data_load ==
  /\ pc = "tls"
  /\ \/ Cleanup /\ tls' \in {"none", "loaded"}
     \/ GoTo("assets") /\ tls' = "loaded"
  /\ Boot /\ UNCHANGED <<store, contexts, d, handlers>>

(* assets_load, the copies, translate_assets, the two marks in the page. *)
prepare_assets ==
  /\ pc = "assets"
  /\ Cleanup \/ GoTo("contexts")
  /\ Boot /\ UNCHANGED <<tls, store, contexts, d, handlers>>

alloc_contexts ==
  /\ pc = "contexts"
  /\ \/ Cleanup /\ UNCHANGED contexts
     \/ GoTo("daemon") /\ contexts' = "clean"
  /\ Boot /\ UNCHANGED <<tls, store, d, handlers>>

start_daemon ==
  /\ pc = "daemon"
  /\ \/ Cleanup /\ UNCHANGED d
     \/ GoTo("signals") /\ d' = "running"
  /\ Boot /\ UNCHANGED <<tls, store, contexts, handlers>>

install_handlers ==
  /\ pc = "signals"
  /\ GoTo("epoll")
  /\ handlers' = TRUE
  /\ Boot /\ UNCHANGED <<tls, store, contexts, d>>

(* The descriptors of MHD, epoll and the timer, which starts now. *)
create_epoll ==
  /\ pc = "epoll"
  /\ Cleanup \/ GoTo("check")
  /\ Boot /\ UNCHANGED <<tls, store, contexts, d, handlers>>

-----------------------------------------------------------------------------
(* The event loop. *)

Loop == UNCHANGED <<use_tls, tls, d, handlers, exit_code>>

(* while (!stop_main_loop) *)
check_stop ==
  /\ pc = "check"
  /\ IF stop_main_loop THEN pc' = "cleanup" /\ exit_code' = "success"
     ELSE GoTo("enter")
  /\ UNCHANGED <<bootVars, stop_main_loop, loopVars, mhdVars, since>>

epoll_wait_begin ==
  /\ pc = "enter"
  /\ pc' = "wait"
  /\ wait_left' = epoll_timeout
  /\ Loop
  /\ UNCHANGED <<store, contexts, stop_main_loop, epoll_timeout, timer_left,
                 timer_ready, events, mhdVars, since>>

ReadyFds ==
  (IF ready # {} THEN {"mhd"} ELSE {})
    \cup (IF timer_ready THEN {"reaper"} ELSE {})

(* epoll_wait has events, at most EPOLL_EVENTS_MAX of them. *)
epoll_wait_events ==
  /\ pc = "wait"
  /\ ReadyFds # {}
  /\ events' \in {E \in SUBSET ReadyFds :
                    IF Cardinality(ReadyFds) <= EPOLL_EVENTS_MAX
                    THEN E = ReadyFds
                    ELSE Cardinality(E) = EPOLL_EVENTS_MAX}
  /\ pc' = "dispatch"
  /\ Loop
  /\ UNCHANGED <<store, contexts, stop_main_loop, epoll_timeout, wait_left,
                 timer_left, timer_ready, mhdVars, since>>

(* Variant: the timer is armed once. *)
it_interval_OneShot == 0

(* What the timer is armed with again when it expires; 0 disarms it. *)
it_interval == REAPER_INTERVAL_S

(* It waits: the clock moves, and the timer may expire. *)
Tick ==
  /\ pc = "wait"
  /\ ReadyFds = {}
  /\ wait_left # 0
  /\ wait_left' = wait_left - 1
  /\ timer_left' = CASE timer_left = 0 -> 0
                       [] timer_left = 1 -> it_interval
                       [] OTHER -> timer_left - 1
  /\ timer_ready' = (timer_left = 1)
  /\ silent' = [c \in Conns |->
       IF c \in open /\ silent[c] < CONNECTION_TIMEOUT THEN silent[c] + 1
       ELSE silent[c]]
  /\ since' = [k \in DOMAIN since |->
       IF since[k] < SINCE_MAX /\ (k = "stop" => stop_main_loop)
       THEN since[k] + 1 ELSE since[k]]
  /\ Loop
  /\ UNCHANGED <<pc, store, contexts, stop_main_loop, epoll_timeout, events,
                 open, ready>>

Overdue(c) == c \in open /\ silent[c] = CONNECTION_TIMEOUT

(* Variant: the daemon is started without the timeout option. *)
TimedOut_NoOption == {}

(* MHD_OPTION_CONNECTION_TIMEOUT: what MHD closes when it is run. *)
TimedOut == {c \in Conns : Overdue(c) /\ c \notin ready}

(***************************************************************************)
(* MHD_run (external): every connection with data is served (a secret may  *)
(* be stored; the connection may end), every other one that has been       *)
(* silent for its timeout is closed.                                       *)
(***************************************************************************)
MHD_run ==
  \E ended \in SUBSET ready :
    /\ open' = ((open \cup ready) \ ended) \ TimedOut
    /\ ready' = {}
    /\ silent' = [c \in Conns |->
         IF c \in open' /\ c \notin ready THEN silent[c] ELSE 0]
    /\ store' \in IF ready = {} THEN {store} ELSE {store, "secrets"}
    /\ contexts' = IF ready = {} THEN contexts ELSE "used"
    /\ since' = [since EXCEPT !.run = 0]

(* MHD_get_timeout64 (external): 0 while MHD has work of its own, the time  *)
(* until the first connection times out, and untouched without connections. *)
MHD_get_timeout64 ==
  IF open' = {} THEN epoll_timeout' = epoll_timeout
  ELSE \/ epoll_timeout' = 0
       \/ \E c \in open' :
            /\ \A e \in open' : silent'[e] <= silent'[c]
            /\ epoll_timeout' = CONNECTION_TIMEOUT - silent'[c]

(* The loop over the reported events is over. *)
AfterEvent(rest) ==
  /\ events' = rest
  /\ pc' = IF rest = {} THEN "check" ELSE "dispatch"

dispatch_mhd ==
  /\ pc = "dispatch"
  /\ "mhd" \in events
  /\ MHD_run
  /\ MHD_get_timeout64
  /\ AfterEvent(events \ {"mhd"})
  /\ Loop
  /\ UNCHANGED <<stop_main_loop, wait_left, timer_left, timer_ready>>

(* Variant: the timer is only read. *)
dispatch_reaper_Forgets ==
  /\ pc = "dispatch"
  /\ "reaper" \in events
  /\ timer_ready' = FALSE
  /\ AfterEvent(events \ {"reaper"})
  /\ Loop
  /\ UNCHANGED <<store, contexts, stop_main_loop, epoll_timeout, wait_left,
                 timer_left, mhdVars, since>>

(* read(reaper_tfd) and storage_reaper, which may empty the store. *)
dispatch_reaper ==
  /\ pc = "dispatch"
  /\ "reaper" \in events
  /\ timer_ready' = FALSE
  /\ store' \in {store, "empty"}
  /\ since' = [since EXCEPT !.reap = 0]
  /\ AfterEvent(events \ {"reaper"})
  /\ Loop
  /\ UNCHANGED <<contexts, stop_main_loop, epoll_timeout, wait_left,
                 timer_left, mhdVars>>

(* Variant: nothing is done when the wait ends without an event. *)
wait_elapsed_Ignored ==
  /\ pc = "wait"
  /\ ReadyFds = {}
  /\ wait_left = 0
  /\ pc' = "check"
  /\ Loop
  /\ UNCHANGED <<store, contexts, stop_main_loop, loopVars, mhdVars, since>>

(* events_num == 0 *)
wait_elapsed ==
  /\ pc = "wait"
  /\ ReadyFds = {}
  /\ wait_left = 0
  /\ MHD_run
  /\ MHD_get_timeout64
  /\ pc' = "check"
  /\ Loop
  /\ UNCHANGED <<stop_main_loop, wait_left, timer_left, timer_ready, events>>

(* MHD_run returns MHD_NO: main leaves the loop with EXIT_FAILURE. *)
MHD_run_fails ==
  /\ \/ pc = "dispatch" /\ "mhd" \in events
     \/ pc = "wait" /\ ReadyFds = {} /\ wait_left = 0
  /\ pc' = "cleanup"
  /\ events' = {}
  /\ Loop
  /\ UNCHANGED <<store, contexts, stop_main_loop, epoll_timeout, wait_left,
                 timer_left, timer_ready, mhdVars, since>>

-----------------------------------------------------------------------------
(* A client connects, or sends something. *)
Arrive(c) ==
  /\ d = "running"
  /\ c \notin ready
  /\ ready' = ready \cup {c}
  /\ UNCHANGED <<pc, bootVars, stop_main_loop, exit_code, loopVars, open,
                 silent, since>>

(***************************************************************************)
(* SIGINT or SIGTERM.  Without a handler it ends the process.  With one    *)
(* the flag is set, and epoll_wait returns -1, for which the loop does     *)
(* nothing; but a signal between the test of the flag and the wait does    *)
(* not end the wait.                                                       *)
(***************************************************************************)
on_sigint ==
  /\ pc \notin {"exited", "killed"}
  /\ IF handlers
     THEN /\ ~stop_main_loop
          /\ stop_main_loop' = TRUE
          /\ pc' = IF pc = "wait" THEN "check" ELSE pc
          /\ since' = [since EXCEPT !.stop = 0]
     ELSE pc' = "killed" /\ UNCHANGED <<stop_main_loop, since>>
  /\ UNCHANGED <<bootVars, exit_code, loopVars, mhdVars>>

(* Variant: the key is wiped only if the loop was reached. *)
cleanup_KeyLate ==
  /\ pc = "cleanup"
  /\ d' = IF d = "none" THEN d ELSE "stopped"
  /\ tls' = IF exit_code = "failure" THEN tls ELSE "zero"
  /\ store' = "zero"
  /\ contexts' = IF contexts = "none" THEN contexts ELSE "zero"
  /\ open' = {} /\ ready' = {}
  /\ pc' = "exited"
  /\ UNCHANGED <<use_tls, handlers, stop_main_loop, exit_code, loopVars,
                 silent, since>>

(* MHD is stopped, then the memory with secrets is zeroed. *)
cleanup ==
  /\ pc = "cleanup"
  /\ d' = IF d = "none" THEN d ELSE "stopped"
  /\ tls' = IF tls = "none" THEN tls ELSE "zero"
  /\ store' = "zero"
  /\ contexts' = IF contexts = "none" THEN contexts ELSE "zero"
  /\ open' = {} /\ ready' = {}
  /\ pc' = "exited"
  /\ UNCHANGED <<use_tls, handlers, stop_main_loop, exit_code, loopVars,
                 silent, since>>

Ended == pc \in {"exited", "killed"} /\ UNCHANGED vars

-----------------------------------------------------------------------------
StartUp ==
  \/ parse_arguments \/ log_init \/ storage_init \/ tls_data_load
  \/ prepare_assets \/ alloc_contexts \/ start_daemon \/ install_handlers
  \/ create_epoll

LoopStep ==
  \/ check_stop \/ epoll_wait_begin \/ epoll_wait_events \/ Tick
  \/ dispatch_mhd \/ dispatch_reaper \/ wait_elapsed \/ MHD_run_fails

Next ==
  \/ StartUp \/ LoopStep \/ cleanup \/ Ended
  \/ on_sigint
  \/ \E c \in Conns : Arrive(c)

Spec == Init /\ [][Next]_vars

(* The one thread goes on, and time passes while it waits. *)
FairSpec == Spec /\ WF_vars(StartUp \/ LoopStep \/ cleanup)

-----------------------------------------------------------------------------
InLoop == pc \in {"check", "enter", "wait", "dispatch"}

(***************************************************************************)
(* Whichever of the ways out is taken, and wherever a signal strikes: when *)
(* main has returned, the key, the blobs and the contexts are gone; and a  *)
(* signal that still kills the process finds no secret of a client.        *)
(***************************************************************************)
EndsClean ==
  /\ pc = "exited" => tls # "loaded"
  /\ pc \in {"exited", "killed"} => store # "secrets" /\ contexts # "used"

(***************************************************************************)
(* The reaper is called once per interval however busy the clients are:    *)
(* expired blobs are at most one interval too old.                         *)
(***************************************************************************)
ReaperOnTime == InLoop => since.reap <= REAPER_INTERVAL_S

(***************************************************************************)
(* A signal ends the loop within one interval of the reaper, also one that *)
(* arrives after the flag was tested and before epoll_wait began.          *)
(***************************************************************************)
StopsInTime == InLoop /\ stop_main_loop => since.stop <= REAPER_INTERVAL_S

(***************************************************************************)
(* The wait is begun anew, in full, after each event of the timer.  If MHD *)
(* asked to be run sooner than the timer's period it is kept waiting for   *)
(* at most twice as long as it asked for.                                  *)
(***************************************************************************)
LateAtMostTwice ==
  InLoop /\ epoll_timeout < REAPER_INTERVAL_S =>
    since.run <= 2 * epoll_timeout

(***************************************************************************)
(* A connection that was silent for its whole timeout, and with it its     *)
(* block and identifier, is let go as soon as any client has something for *)
(* MHD.  (Without that nobody may ever look: MHD asks for a wait longer    *)
(* than the timer's period, which the timer always cuts short.)            *)
(***************************************************************************)
StalledCloses ==
  \A c \in Conns : (Overdue(c) /\ ready # {}) ~> ~Overdue(c)
=============================================================================
