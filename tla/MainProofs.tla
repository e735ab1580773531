----------------------------- MODULE MainProofs -----------------------------
(***************************************************************************)
(* Proofs about Main, for every number of connections, period of the       *)
(* timer, connection timeout and size of the event array.                  *)
(***************************************************************************)
EXTENDS Main, FiniteSetTheorems, TLAPS

Types ==
  /\ timer_left \in 1..REAPER_INTERVAL_S
  /\ epoll_timeout \in Nat /\ wait_left \in Nat
  /\ timer_ready \in BOOLEAN /\ stop_main_loop \in BOOLEAN
  /\ handlers \in BOOLEAN
  /\ open \subseteq Conns /\ ready \subseteq Conns
  /\ silent \in [Conns -> 0..CONNECTION_TIMEOUT]
  /\ since \in [reap : Nat, run : Nat, stop : Nat]

(* Events are only pending while they are handled, and time does not pass   *)
(* then: what epoll_wait reported is still so.                              *)
EventsFresh ==
  /\ pc \notin {"dispatch", "killed"} => events = {}
  /\ events \subseteq {"mhd", "reaper"}
  /\ "reaper" \in events => timer_ready

(* The timer and the time since the last reap tell the same: the timer is   *)
(* armed again the moment it expires, and nothing waits until it is read.   *)
TimerExact ==
  since.reap = IF timer_ready THEN REAPER_INTERVAL_S
               ELSE REAPER_INTERVAL_S - timer_left
ReadyAnew == timer_ready => timer_left = REAPER_INTERVAL_S

(* A signal that missed its wait came after the last reap. *)
StopInv ==
  /\ since.stop <= REAPER_INTERVAL_S
  /\ pc \in {"enter", "wait"} /\ stop_main_loop => since.stop <= since.reap

(***************************************************************************)
(* How long ago MHD was run, when it asked to be run within less than the  *)
(* timer's period: the wait under way is the first since then, or it       *)
(* began when the timer was read, and will then not be cut short again.    *)
(***************************************************************************)
Waited == epoll_timeout - wait_left
LateInv ==
  epoll_timeout < REAPER_INTERVAL_S =>
    /\ pc = "check" => \/ since.run = 0
                       \/ since.run <= epoll_timeout /\ since.reap = 0
                       \/ stop_main_loop /\ since.run <= 2 * epoll_timeout
    /\ pc = "enter" => \/ since.run = 0
                       \/ since.run <= epoll_timeout /\ since.reap = 0
    /\ pc = "wait" => /\ wait_left <= epoll_timeout
                      /\ \/ since.run <= Waited
                         \/ /\ since.run <= epoll_timeout + Waited
                            /\ since.reap = Waited
    /\ pc = "dispatch" => \/ since.run <= epoll_timeout
                          \/ /\ since.run <= 2 * epoll_timeout
                             /\ "mhd" \in events /\ "reaper" \notin events
Early == {"args", "log_init", "storage_init", "tls", "assets", "contexts",
          "daemon", "signals", "epoll"}
Untouched == pc \in Early => since.run = 0

LoopInv ==
  /\ Types /\ EventsFresh /\ TimerExact /\ ReadyAnew /\ StopInv /\ LateInv
  /\ Untouched

(* No client's secret is in memory before the handlers are installed, and   *)
(* nothing was loaded yet on the ways out that skip the cleanup.            *)
BootInv ==
  /\ pc \in {"args", "log_init", "storage_init"} => tls = "none"
  /\ pc \in (Early \ {"epoll"}) \cup {"killed"} => handlers = FALSE
  /\ pc = "epoll" \/ InLoop => handlers = TRUE
  /\ handlers = FALSE => store # "secrets" /\ contexts # "used"
  /\ pc = "exited" => /\ tls # "loaded"
                      /\ store # "secrets" /\ contexts # "used"

(* Serving connections keeps the bookkeeping of timeouts well formed, and   *)
(* MHD never asks for a negative wait.                                      *)
LEMMA RunTypes ==
  ASSUME Types, MHD_run, MHD_get_timeout64
  PROVE  /\ open' \subseteq Conns /\ ready' \subseteq Conns
         /\ silent' \in [Conns -> 0..CONNECTION_TIMEOUT]
         /\ since' \in [reap : Nat, run : Nat, stop : Nat]
         /\ since'.run = 0 /\ since'.reap = since.reap
         /\ since'.stop = since.stop
         /\ epoll_timeout' \in Nat
<1>1. /\ open' \subseteq Conns /\ ready' \subseteq Conns
      /\ silent' \in [Conns -> 0..CONNECTION_TIMEOUT]
  BY MainConstants DEF Types, MHD_run
<1>2. /\ since' \in [reap : Nat, run : Nat, stop : Nat]
      /\ since'.run = 0 /\ since'.reap = since.reap
      /\ since'.stop = since.stop
  BY DEF Types, MHD_run
<1>3. epoll_timeout' \in Nat
  <2>1. \A c \in open' : CONNECTION_TIMEOUT - silent'[c] \in Nat
    BY <1>1, MainConstants
  <2> QED
    BY <2>1 DEF Types, MHD_get_timeout64
<1> QED
  BY <1>1, <1>2, <1>3

(* One unit of time. *)
LEMMA TickTimes ==
  ASSUME Types, Tick
  PROVE  /\ since' \in [reap : Nat, run : Nat, stop : Nat]
         /\ since'.run <= since.run + 1
         /\ since.reap < SINCE_MAX => since'.reap = since.reap + 1
         /\ stop_main_loop => since'.stop <= since.stop + 1
         /\ ~stop_main_loop => since'.stop = since.stop
<1> DEFINE later(k) ==
      IF since[k] < SINCE_MAX /\ (k = "stop" => stop_main_loop)
      THEN since[k] + 1 ELSE since[k]
<1>1. DOMAIN since = {"reap", "run", "stop"}
  BY DEF Types
<1>2. since' = [k \in {"reap", "run", "stop"} |-> later(k)]
  BY <1>1 DEF Tick
<1>3. /\ since'.reap = later("reap") /\ since'.run = later("run")
      /\ since'.stop = later("stop")
  BY <1>2
<1>4. /\ since.reap \in Nat /\ since.run \in Nat /\ since.stop \in Nat
  BY DEF Types
<1>5. later("reap") \in Nat /\ later("run") \in Nat /\ later("stop") \in Nat
  BY <1>4
<1>6. since' \in [reap : Nat, run : Nat, stop : Nat]
  <2> HIDE DEF later
  <2> QED
    BY <1>2, <1>5
<1> QED
  BY <1>3, <1>4, <1>6

(* Time only passes in a wait without events, so the timer is read before   *)
(* it could expire a second time.                                           *)
LEMMA TickLoop ==
  ASSUME LoopInv, Tick
  PROVE  LoopInv'
<1> USE MainConstants
<1>1. /\ pc = "wait" /\ pc' = "wait" /\ timer_ready = FALSE
      /\ events = {} /\ events' = {} /\ stop_main_loop' = stop_main_loop
      /\ epoll_timeout' = epoll_timeout /\ wait_left # 0
      /\ wait_left' = wait_left - 1
  BY DEF Tick, ReadyFds, LoopInv, EventsFresh, Types
<1>2. /\ timer_left \in 1..REAPER_INTERVAL_S
      /\ epoll_timeout \in Nat /\ wait_left \in Nat /\ wait_left' \in Nat
      /\ since.reap \in Nat /\ since.run \in Nat /\ since.stop \in Nat
      /\ stop_main_loop \in BOOLEAN
  BY <1>1 DEF LoopInv, Types
<1>3. /\ since'.run <= since.run + 1
      /\ since.reap < SINCE_MAX => since'.reap = since.reap + 1
      /\ stop_main_loop => since'.stop <= since.stop + 1
      /\ ~stop_main_loop => since'.stop = since.stop
      /\ since' \in [reap : Nat, run : Nat, stop : Nat]
  BY TickTimes DEF LoopInv
<1>4. since'.reap \in Nat /\ since'.run \in Nat /\ since'.stop \in Nat
  BY <1>3
<1>5. /\ since.reap = REAPER_INTERVAL_S - timer_left
      /\ since'.reap = since.reap + 1
  BY <1>1, <1>2, <1>3 DEF LoopInv, TimerExact, SINCE_MAX
<1>6. /\ timer_ready' = (timer_left = 1)
      /\ timer_left' = IF timer_left = 1 THEN REAPER_INTERVAL_S
                       ELSE timer_left - 1
  BY <1>2 DEF Tick, it_interval
<1>7. TimerExact' /\ ReadyAnew' /\ timer_left' \in 1..REAPER_INTERVAL_S
  <2>1. CASE timer_left = 1
    <3>1. timer_ready' = TRUE /\ timer_left' = REAPER_INTERVAL_S
      BY <1>6, <2>1
    <3> QED
      BY <1>2, <1>5, <2>1, <3>1 DEF TimerExact, ReadyAnew
  <2>2. CASE timer_left # 1
    <3>1. timer_ready' = FALSE /\ timer_left' = timer_left - 1
      BY <1>6, <2>2
    <3> QED
      BY <1>2, <1>5, <2>2, <3>1 DEF TimerExact, ReadyAnew
  <2> QED
    BY <2>1, <2>2
<1>8. Types'
  <2>1. silent' \in [Conns -> 0..CONNECTION_TIMEOUT]
    BY DEF Tick, LoopInv, Types
  <2>2. timer_ready' \in BOOLEAN
    BY <1>6
  <2>3. UNCHANGED <<epoll_timeout, stop_main_loop, handlers, open, ready>>
    BY DEF Tick, Loop
  <2> QED
    BY <1>2, <1>3, <1>7, <2>1, <2>2, <2>3 DEF LoopInv, Types
<1>9. EventsFresh'
  BY <1>1 DEF EventsFresh
<1>10. StopInv'
  BY <1>1, <1>2, <1>3, <1>4, <1>5 DEF LoopInv, StopInv
<1>11. LateInv'
  <2> SUFFICES ASSUME epoll_timeout < REAPER_INTERVAL_S
               PROVE  /\ wait_left' <= epoll_timeout
                      /\ \/ since'.run <= epoll_timeout - wait_left'
                         \/ /\ since'.run
                                 <= epoll_timeout + (epoll_timeout - wait_left')
                            /\ since'.reap = epoll_timeout - wait_left'
    BY <1>1 DEF LateInv, Waited
  <2>1. /\ wait_left <= epoll_timeout
        /\ \/ since.run <= epoll_timeout - wait_left
           \/ /\ since.run <= epoll_timeout + (epoll_timeout - wait_left)
              /\ since.reap = epoll_timeout - wait_left
    BY <1>1 DEF LoopInv, LateInv, Waited
  <2> QED
    BY <1>1, <1>2, <1>3, <1>4, <1>5, <2>1
<1>12. Untouched'
  BY <1>1 DEF Untouched, Early
<1> QED
  BY <1>7, <1>8, <1>9, <1>10, <1>11, <1>12 DEF LoopInv

(* MHD_run, after an event or when the wait has elapsed. *)
LEMMA RunLoop ==
  ASSUME LoopInv, dispatch_mhd \/ wait_elapsed
  PROVE  LoopInv'
<1> USE MainConstants
<1>1. /\ MHD_run /\ MHD_get_timeout64
      /\ UNCHANGED <<stop_main_loop, wait_left, timer_left, timer_ready,
                     handlers>>
      /\ pc \in {"wait", "dispatch"}
  BY DEF dispatch_mhd, wait_elapsed, Loop
<1>2. /\ since'.run = 0 /\ since'.reap = since.reap
      /\ since'.stop = since.stop
      /\ epoll_timeout' \in Nat
      /\ open' \subseteq Conns /\ ready' \subseteq Conns
      /\ silent' \in [Conns -> 0..CONNECTION_TIMEOUT]
      /\ since' \in [reap : Nat, run : Nat, stop : Nat]
  BY <1>1, RunTypes DEF LoopInv
<1>3. /\ pc' \in {"check", "dispatch"}
      /\ events' \subseteq events
      /\ pc' = "check" => events' = {}
  BY DEF dispatch_mhd, wait_elapsed, AfterEvent, LoopInv, EventsFresh
<1>4. Types'
  BY <1>1, <1>2 DEF LoopInv, Types
<1>5. EventsFresh'
  BY <1>1, <1>3 DEF LoopInv, EventsFresh
<1>6. TimerExact' /\ ReadyAnew'
  BY <1>1, <1>2 DEF LoopInv, TimerExact, ReadyAnew
<1>7. StopInv'
  BY <1>2, <1>3 DEF LoopInv, StopInv
<1>8. LateInv' /\ Untouched'
  <2>1. pc' \notin {"enter", "wait"} /\ 0 <= epoll_timeout'
    BY <1>2, <1>3
  <2> QED
    BY <1>2, <2>1 DEF LateInv, Untouched
<1> QED
  BY <1>4, <1>5, <1>6, <1>7, <1>8 DEF LoopInv

(* Reading the timer starts its period anew; a wait that it cut short was   *)
(* the first one since MHD was run.                                         *)
LEMMA ReaperLoop ==
  ASSUME LoopInv, dispatch_reaper
  PROVE  LoopInv'
<1> USE MainConstants
<1>1. /\ pc = "dispatch" /\ "reaper" \in events /\ timer_ready = TRUE
      /\ timer_ready' = FALSE /\ events' = events \ {"reaper"}
      /\ pc' = IF events' = {} THEN "check" ELSE "dispatch"
      /\ UNCHANGED <<stop_main_loop, wait_left, timer_left, epoll_timeout,
                     handlers, open, ready, silent>>
  BY DEF dispatch_reaper, AfterEvent, Loop, mhdVars, LoopInv, EventsFresh,
         Types
<1>2. /\ since'.reap = 0 /\ since'.run = since.run
      /\ since'.stop = since.stop
      /\ since' \in [reap : Nat, run : Nat, stop : Nat]
      /\ since.run \in Nat
  BY DEF dispatch_reaper, LoopInv, Types
<1>3. Types'
  BY <1>1, <1>2 DEF LoopInv, Types
<1>4. EventsFresh'
  BY <1>1 DEF LoopInv, EventsFresh
<1>5. TimerExact' /\ ReadyAnew'
  BY <1>1, <1>2 DEF LoopInv, ReadyAnew, TimerExact
<1>6. StopInv'
  BY <1>1, <1>2 DEF LoopInv, StopInv
<1>7. LateInv'
  BY <1>1, <1>2 DEF LoopInv, LateInv, Types
<1>8. Untouched'
  BY <1>1 DEF Untouched, Early
<1> QED
  BY <1>3, <1>4, <1>5, <1>6, <1>7, <1>8 DEF LoopInv

(* epoll_wait begins, or returns with the descriptors that are ready. *)
LEMMA WaitLoop ==
  ASSUME LoopInv, epoll_wait_begin \/ epoll_wait_events
  PROVE  LoopInv'
<1> USE MainConstants
<1>1. /\ UNCHANGED <<stop_main_loop, timer_left, timer_ready, epoll_timeout,
                     handlers, open, ready, silent, since>>
      /\ wait_left' \in {wait_left, epoll_timeout}
  BY DEF epoll_wait_begin, epoll_wait_events, Loop, mhdVars
<1>2. /\ epoll_timeout \in Nat /\ wait_left \in Nat
      /\ since.run \in Nat /\ since.reap \in Nat /\ since.stop \in Nat
      /\ timer_ready \in BOOLEAN
  BY DEF LoopInv, Types
<1>3. Types' /\ TimerExact' /\ ReadyAnew'
  BY <1>1, <1>2 DEF LoopInv, Types, TimerExact, ReadyAnew
<1>4. CASE epoll_wait_begin
  <2>1. /\ pc = "enter" /\ pc' = "wait" /\ wait_left' = epoll_timeout
        /\ events' = {}
    BY <1>4 DEF epoll_wait_begin, LoopInv, EventsFresh
  <2>2. EventsFresh' /\ StopInv' /\ Untouched'
    BY <1>1, <2>1 DEF LoopInv, EventsFresh, StopInv, Untouched, Early
  <2>3. LateInv'
    BY <1>1, <1>2, <2>1 DEF LoopInv, LateInv, Waited
  <2> QED
    BY <1>3, <2>2, <2>3 DEF LoopInv
<1>5. CASE epoll_wait_events
  <2>1. /\ pc = "wait" /\ pc' = "dispatch" /\ wait_left' = wait_left
        /\ ReadyFds # {} /\ events' \subseteq ReadyFds
    BY <1>5 DEF epoll_wait_events
  <2>2. events' \subseteq {"mhd", "reaper"}
    BY <2>1 DEF ReadyFds
  <2>3. "reaper" \in events' => timer_ready
    BY <2>1 DEF ReadyFds
  <2>4. events' # {}
    <3>1. events' = {} => Cardinality({}) = EPOLL_EVENTS_MAX
      BY <1>5, <2>1 DEF epoll_wait_events
    <3> QED
      BY <3>1, FS_EmptySet
  <2>5. EventsFresh' /\ Untouched'
    BY <1>1, <2>1, <2>2, <2>3 DEF EventsFresh, Untouched, Early
  <2>6. StopInv'
    BY <1>1, <2>1 DEF LoopInv, StopInv
  <2>7. LateInv'
    <3> SUFFICES ASSUME epoll_timeout < REAPER_INTERVAL_S
                 PROVE  \/ since.run <= epoll_timeout
                        \/ /\ since.run <= 2 * epoll_timeout
                           /\ "mhd" \in events' /\ "reaper" \notin events'
      BY <1>1, <2>1 DEF LateInv
    <3>1. /\ wait_left <= epoll_timeout
          /\ \/ since.run <= epoll_timeout - wait_left
             \/ /\ since.run <= epoll_timeout + (epoll_timeout - wait_left)
                /\ since.reap = epoll_timeout - wait_left
      BY <2>1 DEF LoopInv, LateInv, Waited
    <3>2. CASE since.run <= epoll_timeout - wait_left
      BY <1>2, <3>2
    <3>3. CASE /\ since.run <= epoll_timeout + (epoll_timeout - wait_left)
               /\ since.reap = epoll_timeout - wait_left
      <4>1. since.reap < REAPER_INTERVAL_S
        BY <1>2, <3>3
      <4>2. timer_ready = FALSE
        BY <1>2, <4>1 DEF LoopInv, TimerExact
      <4>3. "reaper" \notin events' /\ "mhd" \in events'
        BY <2>2, <2>3, <2>4, <4>2
      <4> QED
        BY <1>2, <3>3, <4>3
    <3> QED
      BY <3>1, <3>2, <3>3
  <2> QED
    BY <1>3, <2>5, <2>6, <2>7 DEF LoopInv
<1> QED
  BY <1>4, <1>5

(* Everything else that main and the world do takes no time. *)
LEMMA RestLoop ==
  ASSUME LoopInv,
         \/ StartUp \/ check_stop \/ MHD_run_fails \/ cleanup \/ on_sigint
         \/ \E c \in Conns : Arrive(c)
  PROVE  LoopInv'
<1> USE MainConstants
<1>1. /\ epoll_timeout \in Nat /\ wait_left \in Nat
      /\ since.run \in Nat /\ since.reap \in Nat /\ since.stop \in Nat
      /\ since \in [reap : Nat, run : Nat, stop : Nat]
      /\ timer_ready \in BOOLEAN /\ stop_main_loop \in BOOLEAN
  BY DEF LoopInv, Types
<1>2. CASE StartUp
  <2>1. /\ pc \in Early
        /\ pc' \in (Early \cup {"check", "cleanup", "exited"}) \ {"args"}
        /\ handlers' \in {handlers, TRUE}
        /\ Boot
    BY <1>2 DEF StartUp, parse_arguments, log_init, storage_init,
                tls_data_load, prepare_assets, alloc_contexts, start_daemon,
                install_handlers, create_epoll, Exit, GoTo, Cleanup, Early
  <2>2. Types' /\ TimerExact' /\ ReadyAnew' /\ EventsFresh'
    BY <2>1 DEF Boot, loopVars, mhdVars, LoopInv, Types, TimerExact,
                ReadyAnew, EventsFresh, Early
  <2>3. StopInv' /\ LateInv' /\ Untouched'
    BY <2>1 DEF Boot, loopVars, LoopInv, StopInv, LateInv, Untouched, Early
  <2> QED
    BY <2>2, <2>3 DEF LoopInv
<1>3. CASE check_stop \/ MHD_run_fails \/ cleanup
  <2>1. /\ UNCHANGED <<stop_main_loop, epoll_timeout, wait_left, timer_left,
                       timer_ready, silent, since, handlers>>
        /\ events' \in {events, {}}
        /\ pc' \in {"enter", "cleanup", "exited"}
        /\ pc' = "enter" => pc = "check" /\ stop_main_loop = FALSE
        /\ open' \in {open, {}} /\ ready' \in {ready, {}}
        /\ events' = {}
    BY <1>1, <1>3 DEF check_stop, MHD_run_fails, cleanup, GoTo, Loop, bootVars,
                      loopVars, mhdVars, LoopInv, EventsFresh
  <2>2. Types' /\ TimerExact' /\ ReadyAnew' /\ EventsFresh'
    BY <1>1, <2>1 DEF LoopInv, Types, TimerExact, ReadyAnew, EventsFresh
  <2>3. StopInv' /\ Untouched'
    BY <2>1 DEF LoopInv, StopInv, Untouched, Early
  <2>4. LateInv'
    BY <2>1 DEF LoopInv, LateInv
  <2> QED
    BY <2>2, <2>3, <2>4 DEF LoopInv
<1>4. CASE on_sigint
  <2>1. UNCHANGED <<bootVars, exit_code, loopVars, mhdVars>>
    BY <1>4 DEF on_sigint
  <2>2. /\ since'.reap = since.reap /\ since'.run = since.run
        /\ since' \in [reap : Nat, run : Nat, stop : Nat]
        /\ since'.stop = since.stop \/ since'.stop = 0
    BY <1>1, <1>4 DEF on_sigint
  <2>3. /\ stop_main_loop' \in BOOLEAN
        /\ \/ pc' = pc \/ pc' = "killed"
           \/ pc = "wait" /\ pc' = "check" /\ stop_main_loop' = TRUE
        /\ stop_main_loop => stop_main_loop'
        /\ pc' \in {"enter", "wait"} => since'.stop = 0
    BY <1>1, <1>4 DEF on_sigint
  <2>4. Types' /\ TimerExact' /\ ReadyAnew'
    BY <2>1, <2>2, <2>3 DEF LoopInv, Types, TimerExact, ReadyAnew, bootVars,
                            loopVars, mhdVars
  <2>5. EventsFresh'
    BY <2>1, <2>3 DEF LoopInv, EventsFresh, loopVars
  <2>6. StopInv' /\ Untouched'
    BY <1>1, <2>2, <2>3 DEF LoopInv, StopInv, Untouched, Early
  <2>7. LateInv'
    <3>1. epoll_timeout' = epoll_timeout /\ wait_left' = wait_left
          /\ events' = events
      BY <2>1 DEF loopVars
    <3>2. CASE pc = "wait" /\ pc' = "check" /\ stop_main_loop' = TRUE
      <4> SUFFICES ASSUME epoll_timeout < REAPER_INTERVAL_S
                   PROVE  since.run <= 2 * epoll_timeout
        BY <2>2, <3>1, <3>2 DEF LateInv
      <4> QED
        BY <1>1, <3>2 DEF LoopInv, LateInv, Waited
    <3>3. CASE pc' = pc \/ pc' = "killed"
      <4>1. Waited' = Waited
        BY <3>1 DEF Waited
      <4> QED
        BY <2>2, <2>3, <3>1, <3>3, <4>1 DEF LoopInv, LateInv
    <3> QED
      BY <2>3, <3>2, <3>3
  <2> QED
    BY <2>4, <2>5, <2>6, <2>7 DEF LoopInv
<1>5. ASSUME NEW c \in Conns, Arrive(c)
      PROVE  LoopInv'
  <2>1. /\ UNCHANGED <<pc, stop_main_loop, epoll_timeout, wait_left,
                       timer_left, timer_ready, events, open, silent, since,
                       handlers>>
        /\ ready' = ready \cup {c}
    BY <1>5 DEF Arrive, bootVars, loopVars
  <2> QED
    BY <2>1 DEF LoopInv, Types, EventsFresh, TimerExact, ReadyAnew, StopInv,
                LateInv, Waited, Untouched
<1> QED
  BY <1>2, <1>3, <1>4, <1>5

(* A stuttering step keeps the invariant of the loop. *)
LEMMA LoopUnchanged ==
  ASSUME LoopInv, UNCHANGED vars
  PROVE  LoopInv'
  BY DEF vars, bootVars, loopVars, mhdVars, LoopInv, Types, EventsFresh,
         TimerExact, ReadyAnew, StopInv, LateInv, Waited, Untouched

(* The accounting of time is exact in every reachable state. *)
THEOREM LoopInvHolds == Spec => []LoopInv
<1>1. Init => LoopInv
  <2> SUFFICES ASSUME Init PROVE LoopInv
    OBVIOUS
  <2>1. /\ since.reap = 0 /\ since.run = 0 /\ since.stop = 0
        /\ since \in [reap : Nat, run : Nat, stop : Nat]
        /\ pc = "args" /\ timer_ready = FALSE
        /\ timer_left = REAPER_INTERVAL_S /\ epoll_timeout = REAPER_INTERVAL_S
    BY DEF Init, NoTime
  <2>2. Types
    <3>1. /\ timer_ready \in BOOLEAN /\ stop_main_loop \in BOOLEAN
          /\ handlers \in BOOLEAN
      BY DEF Init
    <3>2. silent \in [Conns -> 0..CONNECTION_TIMEOUT] /\ wait_left \in Nat
      BY MainConstants DEF Init
    <3>3. open \subseteq Conns /\ ready \subseteq Conns
      BY DEF Init
    <3> QED
      BY <2>1, <3>1, <3>2, <3>3, MainConstants DEF Types
  <2>3. EventsFresh
    BY DEF Init, EventsFresh
  <2>4. TimerExact /\ ReadyAnew
    BY <2>1, MainConstants DEF TimerExact, ReadyAnew
  <2>5. StopInv /\ LateInv /\ Untouched
    BY <2>1, MainConstants DEF StopInv, LateInv, Untouched
  <2> QED
    BY <2>2, <2>3, <2>4, <2>5 DEF LoopInv
<1>2. LoopInv /\ [Next]_vars => LoopInv'
  BY TickLoop, RunLoop, ReaperLoop, WaitLoop, RestLoop, LoopUnchanged
     DEF Next, LoopStep, Ended
<1> QED
  BY <1>1, <1>2, PTL DEF Spec

(* However busy the clients are, the reaper is called once per interval:    *)
(* events of MHD cannot keep the loop from reading the timer.               *)
THEOREM ReaperCorrect == Spec => []ReaperOnTime
<1>1. LoopInv => ReaperOnTime
  BY MainConstants DEF LoopInv, Types, TimerExact, ReaperOnTime
<1> QED
  BY <1>1, LoopInvHolds, PTL

(* A signal ends the loop within one interval, also when it strikes between *)
(* the test of the flag and the wait.                                       *)
THEOREM StopCorrect == Spec => []StopsInTime
<1>1. LoopInv => StopsInTime
  BY DEF LoopInv, StopInv, StopsInTime
<1> QED
  BY <1>1, LoopInvHolds, PTL

(* MHD is run no later than twice the time it asked for, although every     *)
(* event of the timer begins the wait anew.                                 *)
THEOREM LateCorrect == Spec => []LateAtMostTwice
<1>1. LoopInv => LateAtMostTwice
  <2> SUFFICES ASSUME LoopInv, InLoop, epoll_timeout < REAPER_INTERVAL_S
               PROVE  since.run <= 2 * epoll_timeout
    BY DEF LateAtMostTwice
  <2>1. /\ epoll_timeout \in Nat /\ wait_left \in Nat /\ since.run \in Nat
    BY DEF LoopInv, Types
  <2> QED
    BY <2>1 DEF LoopInv, LateInv, Waited, InLoop
<1> QED
  BY <1>1, LoopInvHolds, PTL

(* Start-up and the way out keep account of what is open. *)
LEMMA BootStep ==
  ASSUME BootInv, Next
  PROVE  BootInv'
<1>1. CASE StartUp
  BY <1>1 DEF StartUp, parse_arguments, log_init, storage_init, tls_data_load,
              prepare_assets, alloc_contexts, start_daemon, install_handlers,
              create_epoll, Exit, GoTo, Cleanup, Boot, BootInv, Early, InLoop
<1>2. CASE LoopStep
  <2>1. handlers = TRUE /\ handlers' = TRUE
    BY <1>2 DEF LoopStep, check_stop, epoll_wait_begin, epoll_wait_events,
                Tick, dispatch_mhd, dispatch_reaper, wait_elapsed,
                MHD_run_fails, Loop, bootVars, BootInv, InLoop
  <2>2. pc' \in {"check", "enter", "wait", "dispatch", "cleanup"}
    BY <1>2 DEF LoopStep, check_stop, epoll_wait_begin, epoll_wait_events,
                Tick, dispatch_mhd, dispatch_reaper, wait_elapsed,
                MHD_run_fails, GoTo, AfterEvent
  <2> QED
    BY <2>1, <2>2 DEF BootInv, Early
<1>3. CASE cleanup
  BY <1>3 DEF cleanup, BootInv, Early, InLoop
<1>4. CASE on_sigint
  BY <1>4 DEF on_sigint, bootVars, BootInv, Early, InLoop
<1>5. CASE Ended \/ \E c \in Conns : Arrive(c)
  BY <1>5 DEF Ended, Arrive, vars, bootVars, BootInv, InLoop
<1> QED
  BY <1>1, <1>2, <1>3, <1>4, <1>5 DEF Next

(* Whichever of its ways out main takes, and wherever a signal strikes, the *)
(* key, the blobs and the contexts are gone; a signal that kills the        *)
(* process finds no client's secret.                                        *)
THEOREM ExitCorrect == Spec => []EndsClean
<1>1. Init => BootInv
  BY DEF Init, BootInv, Early, InLoop
<1>2. BootInv /\ [Next]_vars => BootInv'
  <2> SUFFICES ASSUME BootInv, [Next]_vars PROVE BootInv'
    OBVIOUS
  <2>1. CASE UNCHANGED vars
    BY <2>1 DEF BootInv, vars, bootVars, InLoop
  <2> QED
    BY <2>1, BootStep
<1>3. BootInv => EndsClean
  BY DEF BootInv, EndsClean
<1> QED
  BY <1>1, <1>2, <1>3, PTL DEF Spec
=============================================================================
