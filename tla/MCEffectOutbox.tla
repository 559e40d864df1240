--------------------------- MODULE MCEffectOutbox ---------------------------
(***************************************************************************)
(* Instances of EffectOutbox for TLC: a replay-safe capture and a turn     *)
(* start on one thread, an interrupt on another.                           *)
(***************************************************************************)
EXTENDS EffectOutbox, TLC

CONSTANTS capture, start, interrupt, t1, t2

NoEffects == {}
TwoEffects == {capture, start}
OneStart == {start}
ThreeEffects == {capture, start, interrupt}

MCTypeOf == [e \in Effect |-> IF e = capture THEN "checkpoint.capture"
                              ELSE IF e = start THEN "provider-turn.start"
                              ELSE "provider-turn.interrupt"]
MCThreadOf == [e \in Effect |-> IF e = interrupt THEN t2 ELSE t1]

Slots == Permutations(Worker)

\* A lease outlasts by far the step from a claim to the arming of its signal.
PromptlyArmed == \A w \in Worker : pc[w] = "claimed" => Owned(w) /\ task[w] \notin lapsed
=============================================================================
