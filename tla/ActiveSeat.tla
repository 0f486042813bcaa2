----------------------------- MODULE ActiveSeat ------------------------------
(***************************************************************************)
(* What the strategy pool promises to those who read the committed table:  *)
(* the API, the paper slots and the next sync.  There is one seat.  Who    *)
(* sits in it was good enough, gives way to a better one only, or is put   *)
(* on the bench by the health check; who has held it once may return, and  *)
(* is still what it was.                                                   *)
(*                                                                         *)
(* A holder is [id, source, score, since]: the day of its promotion is     *)
(* part of it.  Steps that only reorder the candidates are stutters here.  *)
(***************************************************************************)
EXTENDS Integers

CONSTANTS PromoteThreshold, ChallengerMinDelta, CooldownDays

VARIABLES
  seat,     \* the holder, as a set
  former,   \* [id, source, score] of all that have held the seat
  bench     \* ids of the former holders that wait for a review

vars == <<seat, former, bench>>

Strategy(s) == [id |-> s.id, source |-> s.source, score |-> s.score]
Fresh(s) == \A f \in former : f.id # s.id

Init == seat = {} /\ former = {} /\ bench = {}

Sit(s) == seat' = {s} /\ former' = former \cup {Strategy(s)}

\* A strategy that never held the seat takes it: it is good enough, and a real
\* holder has had its cooldown and is beaten by the margin.
Appoint(s) ==
  /\ Fresh(s) /\ s.score >= PromoteThreshold
  /\ \A o \in seat : o.source = "mock" \/ /\ s.since - o.since >= CooldownDays
                                          /\ s.score >= o.score + ChallengerMinDelta
  /\ Sit(s) /\ bench' \subseteq bench

\* A real one that held it before takes it again, when it is empty or a mock no
\* better than it has it.
Return(s) ==
  /\ Strategy(s) \in former /\ s.source # "mock"
  /\ \A o \in seat : o.id # s.id /\ o.source = "mock" /\ o.score <= s.score
  /\ Sit(s) /\ bench' \subseteq bench \ {s.id}

\* The health check puts the holder on the bench ...
Bench == bench' = bench \cup {o.id : o \in seat}

\* ... and seats an earlier one, or none.
RollBack(s) ==
  /\ seat # {} /\ Strategy(s) \in former /\ \A o \in seat : o.id # s.id
  /\ Sit(s) /\ Bench

Pause == seat # {} /\ seat' = {} /\ former' = former /\ Bench

\* Candidates are archived for their age, their rank or their symbol.
Forget == bench' \subseteq bench /\ UNCHANGED <<seat, former>>

\* The new holder is the one that sits there afterwards.
Next ==
  \/ \E s \in seat' : Appoint(s) \/ Return(s) \/ RollBack(s)
  \/ Pause \/ Forget

Spec == Init /\ [][Next]_vars
=============================================================================
