-------------------------------- MODULE Race --------------------------------
(***************************************************************************)
(* What a race between addresses promises: the abstract specification that *)
(* both staggered_dial (src/proxy/tcp.rs) and Tunnel::connect_candidate    *)
(* (src/tunnel.rs) are shown to implement.                                 *)
(*                                                                         *)
(* A racer tries candidates, a bounded number at a time.  When it has      *)
(* picked one that connected it closes the other attempts, again at most   *)
(* that number, and has won when none is left; it loses only when nothing  *)
(* has connected and, unless it may give up, every candidate has failed.   *)
(***************************************************************************)
EXTENDS Integers, FiniteSets

CONSTANTS
    Racers,
    Candidates,
    Parallel,      \* attempts alive at a time
    MayGiveUp      \* the race has a deadline of its own

VARIABLE race      \* per racer, see RaceStates

\* started: attempts made; failed: those that have failed or were closed;
\* connected: those that have a connection, or the one that was picked; open:
\* attempts or connections alive.
RaceStates == [phase : {"idle", "racing", "closing", "won", "lost"},
               cands : SUBSET Candidates, started : SUBSET Candidates,
               failed : SUBSET Candidates, connected : SUBSET Candidates,
               open : SUBSET Candidates]

At(phase, alive) == [phase |-> phase, cands |-> {}, started |-> {}, failed |-> {},
                     connected |-> alive, open |-> alive]

Init == race = [r \in Racers |-> At("idle", {})]

-----------------------------------------------------------------------------
(* What one racer may do, as relations between its states s and t.         *)

\* While racing, an attempt that was made and has not failed is open, and
\* there are not too many of them.
Racing(s) ==
    /\ s.phase = "racing"
    /\ s.started \subseteq s.cands
    /\ s.open = s.started \ s.failed
    /\ s.connected \subseteq s.open
    /\ Cardinality(s.open) <= Parallel

\* While closing, the one that was picked is connected, and besides it there are
\* not too many attempts open.
Closing(s) ==
    /\ s.phase = "closing"
    /\ s.started \subseteq s.cands
    /\ s.open = s.started \ s.failed
    /\ \E a \in s.open : s.connected = {a} /\ Cardinality(s.open \ {a}) <= Parallel

\* The candidates are known and the first attempts begin.
Begin(s, t) ==
    /\ s.phase = "idle"
    /\ Racing(t)
    /\ t.started # {} /\ t.failed = {} /\ t.connected = {}

\* Attempts connect, fail, and make room for new ones; what has failed or
\* connected stays so.
Advance(s, t) ==
    /\ s.phase = "racing"
    /\ Racing(t)
    /\ t.cands = s.cands
    /\ s.started \subseteq t.started
    /\ s.failed \subseteq t.failed /\ t.failed \subseteq s.started
    /\ s.connected \subseteq t.connected /\ t.connected \subseteq s.started

\* One of the connections is picked; an attempt may have been begun just before.
Pick(s, t) ==
    /\ s.phase = "racing"
    /\ Closing(t)
    /\ t.cands = s.cands
    /\ s.started \subseteq t.started
    /\ t.failed = s.failed
    /\ t.connected \subseteq s.connected

\* Other attempts are closed, and no new one is begun.
Close(s, t) ==
    /\ s.phase = "closing"
    /\ Closing(t)
    /\ t.cands = s.cands /\ t.started = s.started /\ t.connected = s.connected
    /\ s.failed \subseteq t.failed

\* A connection wins and the other attempts are gone: at once, or when they have
\* been closed one by one.
Win(s, t) ==
    /\ s.phase = "racing" \/ (s.phase = "closing" /\ s.open = s.connected)
    /\ \E a \in s.connected : t = At("won", {a})

\* The last attempt fails, or the racer gives up while nothing is connected, or
\* there was no candidate to try.
Lose(s, t) ==
    /\ t = At("lost", {})
    /\ \/ s.phase = "idle"
       \/ /\ s.phase = "racing"
          /\ s.connected = {}
          /\ MayGiveUp \/ (s.started = s.cands /\ Cardinality(s.open) <= 1)

\* The racer goes away and may race again.  What it had open is aborted, and
\* nobody waits for that.
Leave(s, t) == t = At("idle", {})

Step(s, t) ==
    \/ Begin(s, t) \/ Advance(s, t) \/ Pick(s, t) \/ Close(s, t)
    \/ Win(s, t) \/ Lose(s, t) \/ Leave(s, t)

Next ==
    \E r \in Racers :
        /\ race' = [race EXCEPT ![r] = race'[r]]
        /\ race'[r] \in RaceStates
        /\ Step(race[r], race'[r])

Spec == Init /\ [][Next]_race
=============================================================================
