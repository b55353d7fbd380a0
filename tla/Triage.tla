-------------------------------- MODULE Triage --------------------------------
(***************************************************************************)
(* How one log entry is judged: the classifier (modules/aiModel/service),  *)
(* the decision to have it explained (modules/log/service), and the        *)
(* explanation, from the remote model or the local heuristic               *)
(* (modules/llmSservices/service).  LogQueue leaves open whether an entry  *)
(* is explained; this module says when it is.                              *)
(*                                                                         *)
(* Of a text only the words count that some rule looks for.  A text may    *)
(* fail the severity indicators and still match the heuristic, and the     *)
(* heuristic reads the raw line instead of the content when there is one.  *)
(***************************************************************************)
CONSTANT Logs   \* the entries judged

(* One word for each way the two rule sets can see a text.                 *)
Words == {"corrupted",     \* a severity indicator only
          "failed",        \* an indicator, and a termination
          "unauthorized",  \* an indicator, and an access violation
          "denied",        \* an access violation only
          "terminating",   \* a termination only
          "timeout"}       \* a network failure only

Texts == SUBSET Words

ASSUME LogsAssumption ==
    /\ Logs \subseteq [content : Texts, raw : Texts, hasRaw : BOOLEAN, datanode : BOOLEAN]
    /\ \A l \in Logs : l.hasRaw \/ l.raw = {}

VARIABLES log,          \* the entry
          stage,        \* "received", "classified", "decided", "done"
          ml,           \* ModelPredictionOutput
          decision,     \* what process_log_entry made of it
          explanation   \* threat level and engine, "NONE" when not explained

vars == <<log, stage, ml, decision, explanation>>

Classes == {"INFO", "WARN"}
Levels  == Classes \union {"UNKNOWN"}
Threats == {"CRITICAL", "HIGH", "MEDIUM", "LOW", "UNKNOWN"}
Engines == {"remote", "heuristic"}

NoResult      == [predicted |-> FALSE, prediction |-> "UNKNOWN", escalate |-> TRUE]
NoDecision    == [explain |-> FALSE, prediction |-> "UNKNOWN", predictedBy |-> "ML"]
NoExplanation == [threat |-> "NONE", engine |-> "NONE"]

TypeOK ==
    /\ log \in Logs
    /\ stage \in {"received", "classified", "decided", "done"}
    /\ ml \in [predicted : BOOLEAN, prediction : Levels, escalate : BOOLEAN]
    /\ decision \in [explain : BOOLEAN, prediction : Levels, predictedBy : {"ML", "LLM", "ML+LLM"}]
    /\ explanation \in {NoExplanation} \union [threat : Threats, engine : Engines]

Init ==
    /\ log \in Logs
    /\ stage = "received"
    /\ ml = NoResult /\ decision = NoDecision /\ explanation = NoExplanation

-------------------------------------------------------------------------------
Goto(from, to) == stage = from /\ stage' = to

(* predict_log: a narrow decision margin leaves the entry unpredicted,     *)
(* though the class is kept.                                               *)
Predict(class, certain) ==
    /\ Goto("received", "classified")
    /\ ml' = [predicted |-> certain, prediction |-> class, escalate |-> class = "WARN" \/ ~certain]
    /\ UNCHANGED <<log, decision, explanation>>

(* Mutant: no class is given when the model is not loaded. *)
PredictFailsWithoutClass ==
    /\ Goto("received", "classified")
    /\ ml' = [predicted |-> FALSE, prediction |-> "NONE", escalate |-> TRUE]
    /\ UNCHANGED <<log, decision, explanation>>

(* The model is not loaded or inference raises. *)
PredictFails ==
    /\ Goto("received", "classified")
    /\ ml' = NoResult
    /\ UNCHANGED <<log, decision, explanation>>

HasHighAnomaly ==
    (log.content \union log.raw) \intersect {"corrupted", "failed", "unauthorized"} # {}

(* Mutants: anomalies do not escalate; they do not change the prediction.  *)
DecideByClass ==
    /\ Goto("classified", "decided")
    /\ decision' = [explain |-> ml.escalate,
                    prediction |-> IF HasHighAnomaly /\ ml.prediction = "INFO"
                                   THEN "WARN" ELSE ml.prediction,
                    predictedBy |-> IF ~ml.escalate THEN "ML"
                                    ELSE IF ml.predicted THEN "ML+LLM" ELSE "LLM"]
    /\ UNCHANGED <<log, ml, explanation>>
DecideKeepsClass ==
    /\ Goto("classified", "decided")
    /\ LET explain == ml.escalate \/ HasHighAnomaly IN
         decision' = [explain |-> explain, prediction |-> ml.prediction,
                      predictedBy |-> IF ~explain THEN "ML"
                                      ELSE IF ml.predicted THEN "ML+LLM" ELSE "LLM"]
    /\ UNCHANGED <<log, ml, explanation>>

(* The decision logic of process_log_entry. *)
Decide ==
    /\ Goto("classified", "decided")
    /\ LET explain == ml.escalate \/ ~ml.predicted \/ ml.prediction # "INFO" \/ HasHighAnomaly IN
         decision' = [explain     |-> explain,
                      prediction  |-> IF HasHighAnomaly /\ ml.prediction = "INFO"
                                      THEN "WARN" ELSE ml.prediction,
                      predictedBy |-> IF ~explain THEN "ML"
                                      ELSE IF ml.predicted THEN "ML+LLM" ELSE "LLM"]
    /\ UNCHANGED <<log, ml, explanation>>

(* What the explanation engine is given: the raw line when there is one,   *)
(* and the level only when the classifier was sure.                        *)
EffectiveText  == IF log.hasRaw THEN log.raw ELSE log.content
EffectiveLevel == IF ml.predicted THEN decision.prediction ELSE "UNKNOWN"

(* Mutant: the level the classifier saw is passed on, not the one stored.  *)
FallbackThreatByClass ==
    IF EffectiveText \intersect {"denied", "unauthorized"} # {} THEN "CRITICAL"
    ELSE IF ml.prediction = "WARN" THEN "HIGH" ELSE "UNKNOWN"

(* _generate_expert_fallback: the first rule that matches. *)
FallbackThreat ==
    IF EffectiveText \intersect {"denied", "unauthorized"} # {} THEN "CRITICAL"
    ELSE IF EffectiveText \intersect {"terminating", "failed"} # {} /\ log.datanode
         THEN IF EffectiveLevel = "WARN" THEN "HIGH" ELSE "MEDIUM"
         ELSE IF "timeout" \in EffectiveText \/ EffectiveLevel = "WARN" THEN "HIGH" ELSE "UNKNOWN"

Explain(threat, engine) ==
    /\ Goto("decided", "done") /\ decision.explain
    /\ explanation' = [threat |-> threat, engine |-> engine]
    /\ UNCHANGED <<log, ml, decision>>

(* The remote model answers with a well-formed result. *)
ExplainRemotely(threat) == Explain(threat, "remote")

(* No token, no connection, no quota, or an answer that does not parse.    *)
ExplainLocally == Explain(FallbackThreat, "heuristic")

StoreUnexplained ==
    /\ Goto("decided", "done") /\ ~decision.explain
    /\ UNCHANGED <<log, ml, decision, explanation>>

Next ==
    \/ \E class \in Classes, certain \in BOOLEAN : Predict(class, certain)
    \/ PredictFails
    \/ Decide
    \/ \E threat \in Threats : ExplainRemotely(threat)
    \/ ExplainLocally
    \/ StoreUnexplained

Spec == Init /\ [][Next]_vars

-------------------------------------------------------------------------------
(* A row with prediction INFO is one the dashboard counts as safe. *)
Safe == decision.prediction = "INFO"

(* A log is stored unexplained only if it is routine: the classifier was   *)
(* sure of INFO and no severity indicator is in either text.  Whatever     *)
(* else happens to the classifier or the remote model, it is explained.    *)
OnlyRoutineUnexplained ==
    stage = "done" /\ explanation = NoExplanation =>
        /\ ml.predicted /\ ml.prediction = "INFO"
        /\ (log.content \union log.raw) \subseteq {"denied", "terminating", "timeout"}

(* A severity indicator, wherever it occurs and whatever the classifier    *)
(* says, keeps a log out of the safe ones.                                 *)
IndicatorsAreNeverSafe ==
    \A text \in {log.content, log.raw} :
        stage = "done" /\ text \intersect {"corrupted", "failed", "unauthorized"} # {} => ~Safe

(* A warning the classifier is sure of is explained as a high threat also  *)
(* when the remote model is out of reach; an INFO the decision raised to   *)
(* WARN counts as one.                                                     *)
SureWarningsAreHigh ==
    stage = "done" /\ ml.predicted /\ decision.prediction = "WARN"
        /\ explanation.engine = "heuristic" => explanation.threat \in {"HIGH", "CRITICAL"}
===============================================================================
