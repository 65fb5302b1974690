----------------------------- MODULE SpanFields -----------------------------
(***************************************************************************)
(* What the worker makes of the attributes of one span: kind, model, token *)
(* counts and metadata.  An attribute is a key that has a value; the keys  *)
(* named here are those whose treatment differs.                           *)
(***************************************************************************)
EXTENDS Naturals

CONSTANTS
  Other,      (* values of a kind attribute the code does not know         *)
  Reports,    (* bound: the token counts that may be reported              *)
  Estimate,   (* what count_tokens makes of an input or an output          *)
  None

(* Counts of a span: for each the keys that come first, of which the first *)
(* with a count that is not 0 says it, and the last key of gen_ai.usage.   *)
Count == Nat \cup {None}
Report == [prompt : Count, promptLast : Count, completion : Count, completionLast : Count,
           total : Count, totalLast : Count]

SpanFieldsAssumption == Reports \subseteq Report /\ Estimate \in Nat /\ None \notin Nat

VARIABLES
  kindAttr,  (* traceroot.span.type and openinference.span.kind            *)
  model,     (* the attributes that name a model                           *)
  tokens,    (* the token counts the instrumentation reports               *)
  extra,     (* other attributes that are there                            *)
  row        (* the row made of them                                       *)

vars == <<kindAttr, model, tokens, extra, row>>

Kind == {"LLM", "AGENT", "TOOL", "SPAN"}
ModelKey == {"traceroot.llm.model", "gen_ai.request.model", "llm.model_name", "gen_ai.system"}
(* Explicit metadata, an attribute of the user, and one of a known family  *)
(* that the code does not read.                                            *)
ExtraKey == {"traceroot.span.metadata", "custom", "gen_ai.temperature"}
NoSpan == [kind |-> None]

Init ==
  /\ kindAttr \in [type : {"LLM", "TOOL", Other, None}, oi : {"AGENT", "CHAIN", Other, None}]
  /\ model \in SUBSET ModelKey
  /\ tokens \in Reports
  /\ extra \in SUBSET ExtraKey
  /\ row = NoSpan

-----------------------------------------------------------------------------
KindTypeLast ==  \* mutant: the OpenInference kind goes first
  IF kindAttr.oi = "CHAIN" THEN "SPAN"
  ELSE IF kindAttr.oi \in Kind THEN kindAttr.oi
  ELSE IF kindAttr.type \in Kind THEN kindAttr.type
  ELSE "SPAN"

(* get_span_kind: the explicit type, the OpenInference kind, or a guess.   *)
SpanKind ==
  IF kindAttr.type \in Kind THEN kindAttr.type
  ELSE IF kindAttr.oi \in Kind \ {"SPAN"} THEN kindAttr.oi
  ELSE IF kindAttr.oi = "CHAIN" THEN "SPAN"
  ELSE IF model \cap {"gen_ai.system", "llm.model_name", "traceroot.llm.model"} # {} THEN "LLM"
  ELSE "SPAN"

HasModel == model \ {"gen_ai.system"} # {}

(* a or b: a count of 0 is as good as none, but as the last one it counts. *)
Or(a, b) == IF a \in {None, 0} THEN b ELSE a
InTokens == Or(tokens.prompt, tokens.promptLast)
OutTokens == Or(tokens.completion, tokens.completionLast)
TotalTokens == Or(tokens.total, tokens.totalLast)
OrZero(n) == IF n = None THEN 0 ELSE n

Reported ==
  [in |-> OrZero(InTokens), out |-> OrZero(OutTokens),
   total |-> IF TotalTokens = None THEN OrZero(InTokens) + OrZero(OutTokens) ELSE TotalTokens]

CountsHalf ==  \* mutant: both counts must be reported
  IF ~HasModel THEN [in |-> None, out |-> None, total |-> None]
  ELSE IF InTokens # None /\ OutTokens # None THEN Reported
  ELSE [in |-> Estimate, out |-> Estimate, total |-> 2 * Estimate]

(* Reported counts, or an estimate from the texts when none is reported.   *)
Counts ==
  IF ~HasModel THEN [in |-> None, out |-> None, total |-> None]
  ELSE IF InTokens # None \/ OutTokens # None THEN Reported
  ELSE [in |-> Estimate, out |-> Estimate, total |-> 2 * Estimate]

(* _KNOWN_ATTRIBUTE_PREFIXES has the whole of "gen_ai.".                   *)
KnownAll(k) == TRUE  \* mutant: an empty prefix in the list
Known(k) == k # "custom"

Metadata ==
  IF "traceroot.span.metadata" \in extra THEN {"traceroot.span.metadata"}
  ELSE {k \in extra : ~Known(k)}

Transform ==
  /\ row = NoSpan
  /\ row' = [kind |-> SpanKind, model |-> HasModel, counts |-> Counts,
             metadata |-> Metadata]
  /\ UNCHANGED <<kindAttr, model, tokens, extra>>

Next == Transform
Spec == Init /\ [][Next]_vars

-----------------------------------------------------------------------------
Done == row # NoSpan

(* A kind the user gave to the span is the kind it has, and nothing but a  *)
(* known kind is stored.                                                   *)
ExplicitKindWins ==
  Done => /\ row.kind \in Kind
          /\ kindAttr.type \in Kind => row.kind = kindAttr.type

(* When one count is reported and not 0, both are taken as reported, one   *)
(* that is not 0 by the keys that come first before one by the last, a     *)
(* missing one as 0, and the total covers them unless it is reported too.  *)
TakenFrom(n, first, last) ==
  /\ n \in {OrZero(first), OrZero(last)}
  /\ first \notin {None, 0} => n = first
ReportedCountsStay ==
  Done /\ row.model /\ {tokens.prompt, tokens.promptLast, tokens.completion,
                        tokens.completionLast} \ {None, 0} # {} =>
    /\ TakenFrom(row.counts.in, tokens.prompt, tokens.promptLast)
    /\ TakenFrom(row.counts.out, tokens.completion, tokens.completionLast)
    /\ row.counts.total # row.counts.in + row.counts.out =>
         row.counts.total \in {tokens.total, tokens.totalLast}

(* A user's own attribute is in the metadata unless explicit metadata      *)
(* takes its place.                                                        *)
CustomAttributeStays ==
  Done /\ "custom" \in extra /\ "traceroot.span.metadata" \notin extra =>
    "custom" \in row.metadata

(* What the user or the instrumented library said of a span is kept.       *)
SaidIsKept == ExplicitKindWins /\ ReportedCountsStay /\ CustomAttributeStays
=============================================================================
