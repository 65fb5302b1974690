------------------------------- MODULE Traces -------------------------------
(***************************************************************************)
(* A span's way around Ingestion: the Node SDK that records it             *)
(* (SdkClient), what the worker makes of a batch of spans (OtelTransform), *)
(* of one span's attributes (SpanFields) and of its price (ModelPricing),  *)
(* and the lists that read it (TraceReader).  They share no variable, so   *)
(* a behaviour is one of one part: part says which, and the variables of   *)
(* the others stay Off.  TraceReader has two parts over the same           *)
(* variables, one to walk the list and one to sum up.                      *)
(***************************************************************************)
EXTENDS Naturals, FiniteSets, Sequences

CONSTANTS
  Tasks, SpanIds, Processors, Users, EnvKey, Bounds,  (* of the SDK         *)
  Families, Batches,                                   (* of a batch         *)
  Other, Reports, Estimate,                           (* of a span's fields *)
  Models, Processes, MaxRelease,                      (* of the prices      *)
  WalkTraces, WalkWindows,                            (* to walk the list   *)
  SumTraces, SumSpans, SumWindows,                    (* to sum up          *)
  DayLen, Limit, MaxInserts, MaxWalks,                (* of both            *)
  None, Off

VARIABLES
  part,
  client, registered, proc, span, stack, sent, flush, bound, acts, faults,
  forest, batch, user, queue, traceTable, spanTable,
  kindAttr, model, tokens, extra, row,
  file, next, table, pending, cache, early,
  traces, spans, walk, inserts, walks

sdkVars == <<client, registered, proc, span, stack, sent, flush, bound, acts, faults>>
batchVars == <<forest, batch, user, queue, traceTable, spanTable>>
fieldVars == <<kindAttr, model, tokens, extra, row>>
priceVars == <<file, next, table, pending, cache, early>>
listVars == <<traces, spans, walk, inserts, walks>>
vars == <<part, sdkVars, batchVars, fieldVars, priceVars, listVars>>

Sdk == INSTANCE SdkClient WITH
  Task <- Tasks, Span <- SpanIds, Processor <- Processors, User <- Users

Batch == INSTANCE OtelTransform WITH
  Batch <- Batches, User <- Users, traces <- traceTable, spans <- spanTable

Fields == INSTANCE SpanFields

Prices == INSTANCE ModelPricing WITH Proc <- Processes

Walks == INSTANCE TraceReader WITH
  TraceRows <- WalkTraces, SpanRows <- {}, Windows <- WalkWindows, Null <- None

Sums == INSTANCE TraceReader WITH
  TraceRows <- SumTraces, SpanRows <- SumSpans, Windows <- SumWindows, MaxWalks <- 0,
  Null <- None

ASSUME TracesAssumption ==
  /\ Sdk!SdkAssumption /\ Batch!OtelTransformAssumption
  /\ Fields!SpanFieldsAssumption /\ Prices!ModelPricingAssumption
  /\ Walks!ReaderAssumption /\ Sums!ReaderAssumption

SdkOff ==
  /\ client = Off /\ registered = Off /\ proc = Off /\ span = Off
  /\ stack = Off /\ sent = Off /\ flush = Off /\ bound = Off
  /\ acts = Off /\ faults = Off
BatchOff ==
  /\ forest = Off /\ batch = Off /\ user = Off /\ queue = Off
  /\ traceTable = Off /\ spanTable = Off
FieldOff ==
  /\ kindAttr = Off /\ model = Off /\ tokens = Off /\ extra = Off
  /\ row = Off
PriceOff ==
  /\ file = Off /\ next = Off /\ table = Off /\ pending = Off
  /\ cache = Off /\ early = Off
ListOff ==
  /\ traces = Off /\ spans = Off /\ walk = Off /\ inserts = Off
  /\ walks = Off

Init ==
  \/ part = "sdk"    /\ Sdk!Init    /\ BatchOff /\ FieldOff /\ PriceOff /\ ListOff
  \/ part = "batch"  /\ Batch!Init  /\ SdkOff /\ FieldOff /\ PriceOff /\ ListOff
  \/ part = "fields" /\ Fields!Init /\ SdkOff /\ BatchOff /\ PriceOff /\ ListOff
  \/ part = "prices" /\ Prices!Init /\ SdkOff /\ BatchOff /\ FieldOff /\ ListOff
  \/ part = "walks"  /\ Walks!Init  /\ SdkOff /\ BatchOff /\ FieldOff /\ PriceOff
  \/ part = "sums"   /\ Sums!Init   /\ SdkOff /\ BatchOff /\ FieldOff /\ PriceOff

Next ==
  \/ /\ part = "sdk" /\ Sdk!Next
     /\ UNCHANGED <<part, batchVars, fieldVars, priceVars, listVars>>
  \/ /\ part = "batch" /\ Batch!Next
     /\ UNCHANGED <<part, sdkVars, fieldVars, priceVars, listVars>>
  \/ /\ part = "fields" /\ Fields!Next
     /\ UNCHANGED <<part, sdkVars, batchVars, priceVars, listVars>>
  \/ /\ part = "prices" /\ Prices!Next
     /\ UNCHANGED <<part, sdkVars, batchVars, fieldVars, listVars>>
  \/ /\ part = "walks" /\ Walks!Next
     /\ UNCHANGED <<part, sdkVars, batchVars, fieldVars, priceVars>>
  \/ /\ part = "sums" /\ Sums!Next
     /\ UNCHANGED <<part, sdkVars, batchVars, fieldVars, priceVars>>

Spec == Init /\ [][Next]_vars

-----------------------------------------------------------------------------
(* The properties are those of the part at hand.                           *)

(* Every part keeps its types; SpanFields has none but what its properties *)
(* say.                                                                    *)
TypeOK ==
  /\ part = "sdk"    => Sdk!TypeOK
  /\ part = "batch"  => Batch!TypeOK
  /\ part = "prices" => Prices!TypeOK
  /\ part = "walks"  => Walks!TypeOK
  /\ part = "sums"   => Sums!TypeOK

(* A span that ends reaches the API once, by the return of a flush, with   *)
(* the user of its innermost block.                                        *)
SpansAreDelivered ==
  [][part = "sdk" => Sdk!Delivers /\ (Sdk!UserReaches)']_vars

(* Rows do not depend on the order and number of the uploads' tasks, a     *)
(* trace row has the user of its last root that has one, else of its first *)
(* child, and a span row keeps what was said of the span.                  *)
RowsAreFaithful ==
  /\ part = "batch"  => Batch!OneRootConverges /\ Batch!RootBeforeFirstChild
  /\ part = "fields" => Fields!SaidIsKept

(* No model is without prices in between, and prices read after the copy   *)
(* are those of the release.                                               *)
PricesAreCurrent == [][part = "prices" => Prices!PricesMoveOn]_vars

(* A walk through a list meets every trace it began with, and the numbers  *)
(* beside sessions and users are those of the pages behind.                *)
ListsAgree ==
  (part = "walks" => Walks!NothingIsSkipped) /\ (part = "sums" => Sums!NumbersAgree)
=============================================================================
