----------------------------- MODULE TriageProofs -----------------------------
(***************************************************************************)
(* The properties of Triage hold for every set of log entries, whatever    *)
(* and however many keywords their texts have.                             *)
(***************************************************************************)
EXTENDS Triage, TLAPS

Escalates == ml.escalate \/ ~ml.predicted \/ ml.prediction # "INFO" \/ HasHighAnomaly

(* What is known of the decision and of the explanation once they are made. *)
DecisionFollows ==
    stage \in {"decided", "done"} =>
        /\ decision.explain <=> Escalates
        /\ decision.prediction = IF HasHighAnomaly /\ ml.prediction = "INFO"
                                 THEN "WARN" ELSE ml.prediction

ExplanationFollows ==
    /\ stage # "done" => explanation = NoExplanation
    /\ stage = "done" /\ decision.explain => explanation.engine \in Engines
    /\ explanation.engine = "heuristic" => explanation.threat = FallbackThreat

TriageInv == TypeOK /\ DecisionFollows /\ ExplanationFollows

LEMMA FallbackTyped == FallbackThreat \in Threats
  BY DEF FallbackThreat, Threats

LEMMA InitTriage == Init => TriageInv
  BY DEF Init, TriageInv, TypeOK, DecisionFollows, ExplanationFollows, NoResult, NoDecision,
         NoExplanation, Levels, Classes

LEMMA StepTyped == ASSUME TypeOK, [Next]_vars PROVE TypeOK'
  <1>1. ASSUME NEW class \in Classes, NEW certain \in BOOLEAN, Predict(class, certain)
        PROVE  TypeOK'
    BY <1>1 DEF TypeOK, Predict, Goto, Levels
  <1>2. CASE PredictFails
    BY <1>2 DEF TypeOK, PredictFails, Goto, NoResult, Levels
  <1>3. CASE Decide
    <2>1. ml.prediction \in Levels /\ "WARN" \in Levels
      BY DEF TypeOK, Levels, Classes
    <2> QED
      BY <1>3, <2>1 DEF TypeOK, Decide, Goto
  <1>4. ASSUME NEW threat \in Threats, NEW engine \in Engines, Explain(threat, engine)
        PROVE  TypeOK'
    BY <1>4 DEF TypeOK, Explain, Goto
  <1>5. CASE StoreUnexplained
    BY <1>5 DEF TypeOK, StoreUnexplained, Goto
  <1>6. CASE UNCHANGED vars
    BY <1>6 DEF TypeOK, vars
  <1> QED
    BY <1>1, <1>2, <1>3, <1>4, <1>5, <1>6, FallbackTyped
    DEF Next, ExplainRemotely, ExplainLocally, Engines

LEMMA StepTriage == ASSUME TriageInv, [Next]_vars PROVE TriageInv'
  <1>0. TypeOK /\ TypeOK'
    BY StepTyped DEF TriageInv
  <1>1. ASSUME stage' \notin {"decided", "done"}, explanation' = NoExplanation
        PROVE  TriageInv'
    BY <1>0, <1>1 DEF TriageInv, DecisionFollows, ExplanationFollows, NoExplanation
  <1>2. ASSUME NEW class \in Classes, NEW certain \in BOOLEAN, Predict(class, certain)
        PROVE  TriageInv'
    BY <1>1, <1>2 DEF TriageInv, ExplanationFollows, Predict, Goto
  <1>3. CASE PredictFails
    BY <1>1, <1>3 DEF TriageInv, ExplanationFollows, PredictFails, Goto
  <1>4. CASE Decide
    <2>1. DecisionFollows'
      BY <1>4, <1>0 DEF Decide, DecisionFollows, Escalates, HasHighAnomaly
    <2>2. ExplanationFollows'
      BY <1>4 DEF TriageInv, ExplanationFollows, Decide, Goto, NoExplanation
    <2> QED
      BY <1>0, <2>1, <2>2 DEF TriageInv
  <1>5. ASSUME UNCHANGED <<log, ml, decision>>, stage \in {"decided", "done"}
        PROVE  DecisionFollows'
    BY <1>5 DEF TriageInv, DecisionFollows, Escalates, HasHighAnomaly
  <1>6. ASSUME UNCHANGED <<log, ml, decision>>
        PROVE  FallbackThreat' = FallbackThreat
    BY <1>6 DEF FallbackThreat, EffectiveText, EffectiveLevel
  <1>7. ASSUME NEW threat \in Threats, NEW engine \in Engines, Explain(threat, engine),
               engine = "heuristic" => threat = FallbackThreat
        PROVE  TriageInv'
    BY <1>0, <1>5, <1>6, <1>7 DEF TriageInv, ExplanationFollows, Explain, Goto
  <1>8. CASE StoreUnexplained
    BY <1>0, <1>5, <1>6, <1>8 DEF TriageInv, ExplanationFollows, StoreUnexplained, Goto
  <1>9. CASE UNCHANGED vars
    <2>1. DecisionFollows'
      BY <1>9 DEF TriageInv, vars, DecisionFollows, Escalates, HasHighAnomaly
    <2> QED
      BY <1>0, <1>6, <1>9, <2>1 DEF TriageInv, ExplanationFollows, vars
  <1>10. CASE \E threat \in Threats : ExplainRemotely(threat)
    BY <1>7, <1>10 DEF ExplainRemotely, Engines
  <1>11. CASE ExplainLocally
    BY <1>7, <1>11, FallbackTyped DEF ExplainLocally, Engines
  <1> QED
    BY <1>2, <1>3, <1>4, <1>8, <1>9, <1>10, <1>11 DEF Next

LEMMA TriageInvariant == Spec => []TriageInv
  BY InitTriage, StepTriage, PTL DEF Spec

(* Every reachable state is well typed. *)
THEOREM TriageTypeCorrect == Spec => []TypeOK
  <1>1. TriageInv => TypeOK
    BY DEF TriageInv
  <1> QED
    BY <1>1, TriageInvariant, PTL

(* A log stored unexplained was surely INFO and has no severity indicator. *)
THEOREM UnexplainedIsRoutine == Spec => []OnlyRoutineUnexplained
  <1>1. TriageInv => OnlyRoutineUnexplained
    <2> SUFFICES ASSUME TriageInv, stage = "done", explanation = NoExplanation
                 PROVE  /\ ml.predicted /\ ml.prediction = "INFO"
                        /\ (log.content \union log.raw) \subseteq {"denied", "terminating", "timeout"}
      BY DEF OnlyRoutineUnexplained
    <2>1. ~decision.explain
      BY DEF TriageInv, ExplanationFollows, NoExplanation, Engines
    <2>2. ml.predicted /\ ml.prediction = "INFO" /\ ~HasHighAnomaly
      BY <2>1 DEF TriageInv, DecisionFollows, Escalates
    <2>3. (log.content \union log.raw) \subseteq Words
      BY LogsAssumption DEF TriageInv, TypeOK, Texts
    <2> QED
      BY <2>2, <2>3 DEF HasHighAnomaly, Words
  <1> QED
    BY <1>1, TriageInvariant, PTL

(* A severity indicator in either text keeps a log out of the safe ones. *)
THEOREM IndicatorsCount == Spec => []IndicatorsAreNeverSafe
  <1>1. TriageInv => IndicatorsAreNeverSafe
    <2> SUFFICES ASSUME TriageInv, stage = "done", HasHighAnomaly
                 PROVE  ~Safe
      BY DEF IndicatorsAreNeverSafe, HasHighAnomaly
    <2> QED
      BY DEF TriageInv, DecisionFollows, Safe
  <1> QED
    BY <1>1, TriageInvariant, PTL

(* The heuristic rates a warning the classifier is sure of as high. *)
THEOREM WarningsStayHigh == Spec => []SureWarningsAreHigh
  <1>1. TriageInv => SureWarningsAreHigh
    BY DEF TriageInv, ExplanationFollows, SureWarningsAreHigh, FallbackThreat, EffectiveLevel
  <1> QED
    BY <1>1, TriageInvariant, PTL
===============================================================================
