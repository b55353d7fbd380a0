------------------------------- MODULE MCTriage -------------------------------
(* An instance of Triage for TLC. *)
EXTENDS Triage, Naturals, FiniteSets

(* Texts with at most two of the words, on and off a data node. *)
ShortTexts == {t \in Texts : Cardinality(t) <= 2}
MCLogs == {l \in [content : ShortTexts, raw : ShortTexts, hasRaw : BOOLEAN, datanode : BOOLEAN] :
              l.hasRaw \/ l.raw = {}}
===============================================================================
