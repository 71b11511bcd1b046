-------------------------------- MODULE Cli ---------------------------------
(***************************************************************************)
(* overwitch-cli (src/src/main-cli.c): the main thread starts one JACK     *)
(* client and waits for it; a signal asks for a stop.  The handler of a    *)
(* signal runs on top of whatever thread it interrupts, which cannot move  *)
(* until the handler returns, and takes a spin lock that the main thread   *)
(* takes, too.  Handlers of different signals may interrupt one another.   *)
(*                                                                         *)
(* The JACK client is reduced as in module Service; its threads take       *)
(* engine->lock, which a handler that stops the client needs.              *)
(***************************************************************************)
EXTENDS Integers

CONSTANT SignalNumbers  \* those of SIGHUP, SIGINT, SIGTERM, SIGTSTP that arrive

VARIABLES
  mainpc,     \* where run_jclient is
  holder,     \* who has taken the spin lock: "nobody", "main" or a signal
  stop,       \* the static variables of the program
  running,
  sigpc,      \* where the handler of each signal is
  under,      \* what each handler interrupted
  session,    \* the JACK client, as in module Service; "freed" at the end
  lost,       \* history: a stop reached a client that forgets it
  called,     \* history: jclient_stop was called
  dangling    \* history: jclient_stop was called after jclient_destroy

hvars   == <<sigpc, under>>
clivars == <<mainpc, holder, stop, running, hvars, session, lost, called, dangling>>

Sessions == {"none", "starting", "handshake", "on", "off", "stuck", "over", "freed"}

MainPcs == {"find", "check", "in_check", "init", "start", "decide", "in_decide",
            "wait", "exited"}

(* A handler interrupts the main thread, or a thread of the client which   *)
(* may be inside a critical section of engine->lock, or another handler.   *)
Threads == {"main", "client", "client_locked"} \union SignalNumbers

(* The state of a program that is at pc and has done nothing yet. *)
CliAt(pc) ==
  /\ mainpc = pc
  /\ holder = "nobody"
  /\ stop = FALSE
  /\ running = FALSE
  /\ sigpc = [s \in SignalNumbers |-> "idle"]
  /\ under = [s \in SignalNumbers |-> "main"]
  /\ session = "none"
  /\ lost = FALSE
  /\ called = FALSE
  /\ dangling = FALSE

CliInit == CliAt("find")

-----------------------------------------------------------------------------
Active(s) == sigpc[s] \in {"lock", "locked", "call"}

Interrupted(t) == \E s \in SignalNumbers : Active(s) /\ under[s] = t

EngineLocked == Interrupted("client_locked")

Alive == session \in {"starting", "handshake", "on", "off", "stuck"}

(* jclient_stop: it waits for engine->lock. *)
StopClient ==
  /\ ~(EngineLocked /\ Alive)
  /\ session' = CASE session = "on"        -> "off"
                  [] session = "handshake" -> "stuck"
                  [] OTHER                 -> session
  /\ lost' = (session = "starting")
  /\ called' = TRUE
  /\ dangling' = (dangling \/ session = "freed")

-----------------------------------------------------------------------------
MainStep(from, to) ==
  /\ mainpc = from
  /\ ~Interrupted("main")
  /\ mainpc' = to
  /\ UNCHANGED hvars

Lock(who)   == holder = "nobody" /\ holder' = who
Unlock(who) == holder = who /\ holder' = "nobody"

Find ==
  /\ \E to \in {"check", "exited"} : MainStep("find", to)
  /\ UNCHANGED <<holder, stop, running, session, lost, called, dangling>>

Check ==
  /\ MainStep("check", "in_check")
  /\ Lock("main")
  /\ UNCHANGED <<stop, running, session, lost, called, dangling>>

Checked ==
  /\ MainStep("in_check", IF stop THEN "exited" ELSE "init")
  /\ Unlock("main")
  /\ UNCHANGED <<stop, running, session, lost, called, dangling>>

InitClient ==
  /\ \E to \in {"start", "exited"} : MainStep("init", to)
  /\ UNCHANGED <<holder, stop, running, session, lost, called, dangling>>

(* jclient_start returns when jclient_run has begun. *)
StartClient ==
  /\ MainStep("start", "decide")
  /\ session' = "starting"
  /\ UNCHANGED <<holder, stop, running, lost, called, dangling>>

Decide ==
  /\ MainStep("decide", "in_decide")
  /\ Lock("main")
  /\ UNCHANGED <<stop, running, session, lost, called, dangling>>

(* Mutant: a stop that came while the client was started is not looked at. *)
DecidedBlindly ==
  /\ MainStep("in_decide", "wait")
  /\ Unlock("main")
  /\ running' = TRUE
  /\ UNCHANGED <<stop, session, lost, called, dangling>>

Decided ==
  /\ MainStep("in_decide", "wait")
  /\ Unlock("main")
  /\ \/ /\ stop
        /\ StopClient
        /\ UNCHANGED running
     \/ /\ ~stop
        /\ running' = TRUE
        /\ UNCHANGED <<session, lost, called, dangling>>
  /\ UNCHANGED stop

(* jclient_wait and jclient_destroy; running stays set. *)
WaitClient ==
  /\ session = "over"
  /\ MainStep("wait", "wait")
  /\ session' = "freed"
  /\ UNCHANGED <<holder, stop, running, lost, called, dangling>>

Exit ==
  /\ session = "freed"
  /\ MainStep("wait", "exited")
  /\ UNCHANGED <<holder, stop, running, session, lost, called, dangling>>

-----------------------------------------------------------------------------
HandlerStep(s, from, to) ==
  /\ sigpc[s] = from
  /\ ~Interrupted(s)
  /\ sigpc' = [sigpc EXCEPT ![s] = to]
  /\ UNCHANGED <<mainpc, running>>

(* A thread that is interrupted already does not take another signal, but  *)
(* the handler on top of it may.                                           *)
Raise(s) ==
  /\ HandlerStep(s, "idle", "lock")
  /\ \E t \in Threads \ {s} :
       /\ ~Interrupted(t)
       /\ t \in SignalNumbers => Active(t)
       /\ t \in {"client", "client_locked"} => Alive
       /\ t = "client_locked" => ~EngineLocked
       /\ under' = [under EXCEPT ![s] = t]
  /\ UNCHANGED <<holder, stop, session, lost, called, dangling>>

HandlerLock(s) ==
  /\ HandlerStep(s, "lock", "locked")
  /\ Lock(s)
  /\ UNCHANGED <<stop, under, session, lost, called, dangling>>

(* Mutant: the lock is kept if there is no client to stop. *)
HandlerUnlockIfRunning(s) ==
  /\ HandlerStep(s, "locked", IF running THEN "call" ELSE "done")
  /\ holder = s
  /\ holder' = IF running THEN "nobody" ELSE s
  /\ stop' = TRUE
  /\ UNCHANGED <<under, session, lost, called, dangling>>

HandlerUnlock(s) ==
  /\ HandlerStep(s, "locked", IF running THEN "call" ELSE "done")
  /\ Unlock(s)
  /\ stop' = TRUE
  /\ UNCHANGED <<under, session, lost, called, dangling>>

HandlerCall(s) ==
  /\ HandlerStep(s, "call", "done")
  /\ StopClient
  /\ UNCHANGED <<holder, stop, under>>

Handler(s) == HandlerLock(s) \/ HandlerUnlock(s) \/ HandlerCall(s)

-----------------------------------------------------------------------------
SessionStep(from, to) ==
  /\ session \in from
  /\ session' = to
  /\ ~Interrupted("client") /\ ~EngineLocked
  /\ UNCHANGED <<mainpc, holder, stop, running, hvars, lost, called, dangling>>

SessionAdvances ==
  \/ SessionStep({"starting"}, "handshake")
  \/ SessionStep({"handshake"}, "on")
  \/ SessionStep({"off"}, "over")

SessionFails ==
  \/ SessionStep({"starting", "on"}, "over")
  \/ SessionStep({"handshake"}, "stuck")

CliMain ==
  \/ Find \/ Check \/ Checked \/ InitClient \/ StartClient
  \/ Decide \/ Decided \/ WaitClient \/ Exit

Up == mainpc # "exited" /\ ~dangling

(* The last disjunct: the program has ended, or every thread waits. *)
CliNext ==
  \/ /\ Up
     /\ \/ CliMain
        \/ \E s \in SignalNumbers : Raise(s) \/ Handler(s)
        \/ SessionAdvances
        \/ SessionFails
  \/ UNCHANGED clivars

CliSpec == CliInit /\ [][CliNext]_clivars

(* The threads are scheduled, a client becomes ready and a client that has *)
(* been stopped ends.                                                      *)
CliFairness ==
  /\ WF_clivars(Up /\ CliMain)
  /\ \A s \in SignalNumbers : WF_clivars(Up /\ Handler(s))
  /\ WF_clivars(Up /\ SessionAdvances)

-----------------------------------------------------------------------------
CliTypeOK ==
  /\ mainpc \in MainPcs
  /\ holder \in {"nobody", "main"} \union SignalNumbers
  /\ {stop, running, lost, called, dangling} \subseteq BOOLEAN
  /\ sigpc \in [SignalNumbers -> {"idle", "lock", "locked", "call", "done"}]
  /\ under \in [SignalNumbers -> Threads]
  /\ session \in Sessions

(* No stop falls between the main thread and the handlers: once nobody is  *)
(* inside a critical section or on its way to jclient_stop, a stop that    *)
(* was asked for has reached the client the main thread waits for          *)
(* (main-cli.c:66-73, 116-125).                                            *)
StopReachesClient ==
  stop /\ mainpc = "wait" /\ (\A s \in SignalNumbers : ~Active(s)) => called

(* What a handler interrupted, directly or with the handler under it. *)
Below(s) ==
  {under[s]} \union {under[t] : t \in {t \in SignalNumbers : under[s] = t}}

(* A handler waits for what a thread under it holds: the spin lock, or     *)
(* engine->lock, on which the holder of the spin lock may wait in turn.    *)
HandlerHangs ==
  \E s \in SignalNumbers :
    \/ sigpc[s] = "lock" /\ holder \in Below(s)
    \/ sigpc[s] = "call" /\ "client_locked" \in Below(s)
    \/ /\ sigpc[s] = "lock"
       /\ "client_locked" \in Below(s)
       /\ mainpc = "in_decide"
       /\ stop

(* A stop ends the program, but for the cases that this module and module  *)
(* Resampler name: the client was not ready to be stopped, or a handler    *)
(* hangs on what it interrupted (main-cli.c:66, 116-128).                  *)
CtrlCEnds ==
  stop ~> (mainpc = "exited" \/ session = "stuck" \/ lost \/ dangling \/ HandlerHangs)

=============================================================================
