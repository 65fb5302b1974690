----------------------------- MODULE SdkClient -----------------------------
(***************************************************************************)
(* The Node SDK in one process: the global client and the span processor   *)
(* it attaches to the OpenTelemetry provider, observed functions, blocks   *)
(* of usingAttributes, flush and shutdown.  Asynchronous tasks interleave  *)
(* at every await, shutdown's among them.                                  *)
(*                                                                         *)
(* OpenTelemetry is modelled from how the SDK uses it: a provider, once    *)
(* registered, stays (a client made later attaches to it); a processor     *)
(* keeps spans in a queue of limited size, from which its timer, a flush   *)
(* or its shutdown take batches to send; one that is shut down takes no    *)
(* more spans; and context.with does nothing until a provider is there.    *)
(***************************************************************************)
EXTENDS Naturals, Sequences, FiniteSets, SequencesExt

CONSTANTS
  Task,       (* asynchronous tasks of the application                     *)
  Span,       (* bound: spans that may be recorded                         *)
  Processor,  (* bound: a client that is enabled makes one                 *)
  User,
  EnvKey,     (* TRUE when TRACEROOT_API_KEY is set                        *)
  Bounds,     (* bounds on a run: how deep blocks and calls nest, the      *)
              (* calls of initialize, flush and shutdown, failed exports;  *)
              (* and maxQueueSize                                          *)
  None

SdkAssumption ==
  /\ EnvKey \in BOOLEAN /\ None \notin User \cup Span \cup Processor
  /\ Bounds \subseteq [depth : Nat, acts : Nat, faults : Nat, queue : Nat]

VARIABLES
  client,      (* globalClient                                             *)
  registered,  (* a provider is registered, ours or the application's      *)
  proc,        (* the processors of the provider: what waits, what is sent *)
  span,
  stack,       (* per task: blocks and calls, innermost last               *)
  sent,        (* how often each span was exported                         *)
  flush,       (* the flush under way, the spans it owes, and the          *)
               (* processor whose shutdown it awaits                       *)
  bound, acts, faults

vars == <<client, registered, proc, span, stack, sent, flush, bound, acts, faults>>

NoClient == [state |-> "none", given |-> FALSE, enabled |-> FALSE, proc |-> None,
             owns |-> FALSE]

(* Who takes a batch from a queue to send it.                              *)
Takers == {"timer", "flush", "shutdown"}
Unused == [state |-> "unused", queue |-> {}, sending |-> [by \in Takers |-> {}]]

Init ==
  /\ client = NoClient
  /\ registered \in BOOLEAN
  /\ proc = [p \in Processor |-> Unused]
  /\ span = [s \in Span |-> [state |-> "unused", user |-> None, want |-> None, heard |-> FALSE,
                             kept |-> TRUE]]
  /\ stack = [t \in Task |-> <<>>]
  /\ sent = [s \in Span |-> 0]
  /\ flush = [at |-> "idle", due |-> {}, on |-> None]
  /\ bound \in Bounds /\ acts = 0 /\ faults = 0

Acted == acts < bound.acts /\ acts' = acts + 1 /\ UNCHANGED bound

-----------------------------------------------------------------------------
(* new TracerootClient: with a key it is enabled, makes a processor and    *)
(* attaches it to the provider there is, or else to one of its own.        *)
NewClientDetached(given, p) ==  \* mutant: a provider that is there is left alone
  IF given \/ EnvKey
  THEN /\ proc[p].state = "unused"
       /\ proc' = [proc EXCEPT ![p].state = IF registered THEN "closed" ELSE "open"]
       /\ client' = [state |-> "live", given |-> given, enabled |-> TRUE, proc |-> p,
                     owns |-> ~registered]
       /\ registered' = TRUE
  ELSE /\ client' = [NoClient EXCEPT !.state = "live", !.given = given]
       /\ UNCHANGED <<proc, registered>>

NewClient(given, p) ==
  IF given \/ EnvKey
  THEN /\ proc[p].state = "unused"
       /\ proc' = [proc EXCEPT ![p].state = "open"]
       /\ client' = [state |-> "live", given |-> given, enabled |-> TRUE, proc |-> p,
                     owns |-> ~registered]
       /\ registered' = TRUE
  ELSE /\ client' = [NoClient EXCEPT !.state = "live", !.given = given]
       /\ UNCHANGED <<proc, registered>>

(* initializeGlobalClient and getGlobalClient: the client there is, even   *)
(* one that is being shut down.                                            *)
GlobalClient(given) ==
  IF client.state # "none" THEN UNCHANGED <<client, proc, registered>>
  ELSE \E p \in Processor : NewClient(given, p)

Initialize ==
  /\ Acted
  /\ GlobalClient(TRUE)
  /\ UNCHANGED <<span, stack, sent, flush, faults>>

-----------------------------------------------------------------------------
(* A frame is a block or a call: what getAttributesFromContext yields in   *)
(* it, the user it is for, whether a provider was there when its block     *)
(* began, and the active span.                                             *)
Outermost == [user |-> None, want |-> None, heard |-> TRUE, span |-> None, call |-> FALSE]
Current(t) == IF stack[t] = <<>> THEN Outermost ELSE Last(stack[t])

UsingAttributesAlone(t, u) ==  \* mutant: the block's own attributes come last
  /\ Len(stack[t]) < bound.depth
  /\ stack' = [stack EXCEPT ![t] = Append(@,
       [Current(t) EXCEPT !.user = IF registered /\ @ = None THEN u ELSE @, !.want = u,
                          !.heard = registered, !.call = FALSE])]
  /\ UNCHANGED <<client, registered, proc, span, sent, flush, bound, acts, faults>>

UsingAttributes(t, u) ==
  /\ Len(stack[t]) < bound.depth
  /\ stack' = [stack EXCEPT ![t] = Append(@,
       [Current(t) EXCEPT !.user = IF registered THEN u ELSE @, !.want = u,
                          !.heard = registered, !.call = FALSE])]
  /\ UNCHANGED <<client, registered, proc, span, sent, flush, bound, acts, faults>>

(* An observed function is called: without a provider it is not recorded.  *)
Call(t) ==
  /\ Len(stack[t]) < bound.depth
  /\ GlobalClient(FALSE)
  /\ IF registered'
     THEN \E s \in Span :
            /\ span[s].state = "unused"
            /\ span' = [span EXCEPT ![s] = [state |-> "open", user |-> Current(t).user,
                                            want |-> Current(t).want,
                                            heard |-> Current(t).heard, kept |-> TRUE]]
            /\ stack' = [stack EXCEPT ![t] =
                           Append(@, [Current(t) EXCEPT !.span = s, !.call = TRUE])]
     ELSE /\ stack' = [stack EXCEPT ![t] = Append(@, [Current(t) EXCEPT !.call = FALSE])]
          /\ UNCHANGED span
  /\ UNCHANGED <<sent, flush, bound, acts, faults>>

(* updateCurrentTrace, which leaves a span that has ended alone.           *)
UpdateCurrentTrace(t, u) ==
  /\ Current(t).span # None /\ span[Current(t).span].state = "open"
  /\ span' = [span EXCEPT ![Current(t).span].user = u, ![Current(t).span].want = u,
                          ![Current(t).span].heard = TRUE]
  /\ UNCHANGED <<client, registered, proc, stack, sent, flush, bound, acts, faults>>

(* A block is left, or a call returns, throws, settles: span.end() offers  *)
(* the span to every processor, and one that is full drops it.             *)
Full(p) == Cardinality(proc[p].queue) >= bound.queue

Return(t) ==
  /\ stack[t] # <<>>
  /\ stack' = [stack EXCEPT ![t] = Front(@)]
  /\ IF Current(t).call
     THEN LET s == Current(t).span
              takers == {p \in Processor : proc[p].state = "open" /\ ~Full(p)} IN
          /\ proc' = [p \in Processor |->
                        IF p \in takers THEN [proc[p] EXCEPT !.queue = @ \cup {s}] ELSE proc[p]]
          /\ span' = [span EXCEPT ![s].state = "ended", ![s].kept = takers # {}]
     ELSE UNCHANGED <<proc, span>>
  /\ UNCHANGED <<client, registered, sent, flush, bound, acts, faults>>

-----------------------------------------------------------------------------
(* The timer's batch, one at a time, is some of the queue; flush and       *)
(* shutdown take all of it.  A batch or a part of it arrives or is lost,   *)
(* which fails the flush or the shutdown that took it.                     *)
ExportKeeps(p) ==  \* mutant: the batch stays in the queue
  /\ proc[p].state = "open" /\ proc[p].sending["timer"] = {}
  /\ \E b \in (SUBSET proc[p].queue) \ {{}} : proc' = [proc EXCEPT ![p].sending["timer"] = b]
  /\ UNCHANGED <<client, registered, span, stack, sent, flush, bound, acts, faults>>

Export(p) ==
  /\ proc[p].state = "open" /\ proc[p].sending["timer"] = {}
  /\ \E b \in (SUBSET proc[p].queue) \ {{}} :
       proc' = [proc EXCEPT ![p].queue = @ \ b, ![p].sending["timer"] = b]
  /\ UNCHANGED <<client, registered, span, stack, sent, flush, bound, acts, faults>>

Arrive(p, by) ==
  /\ \E b \in (SUBSET proc[p].sending[by]) \ {{}} :
       /\ proc' = [proc EXCEPT ![p].sending[by] = @ \ b]
       /\ sent' = [s \in Span |-> IF s \in b THEN sent[s] + 1 ELSE sent[s]]
  /\ UNCHANGED <<client, registered, span, stack, flush, bound, acts, faults>>

Lose(p, by) ==
  /\ faults < bound.faults /\ faults' = faults + 1
  /\ \E b \in (SUBSET proc[p].sending[by]) \ {{}} :
       /\ proc' = [proc EXCEPT ![p].sending[by] = @ \ b,
                               ![p].state = IF by = "shutdown" THEN "failed" ELSE @]
       /\ span' = [s \in Span |-> IF s \in b THEN [span[s] EXCEPT !.kept = FALSE] ELSE span[s]]
  /\ flush' = IF by = "flush" THEN [flush EXCEPT !.at = "failed"] ELSE flush
  /\ UNCHANGED <<client, registered, stack, sent, bound, acts>>

Empty(P, by) == [p \in Processor |->
  IF p \in P THEN [proc[p] EXCEPT !.queue = {}, !.sending[by] = @ \cup proc[p].queue] ELSE proc[p]]

(* What ended and was neither sent nor lost, but for the timer's batches.  *)
Owed == {s \in Span : /\ span[s].state = "ended" /\ span[s].kept /\ sent[s] = 0
                      /\ \A p \in Processor : s \notin proc[p].sending["timer"]}

(* flush makes a client when there is none; a disabled one has no provider *)
(* and returns at once.  Of a client that is being shut down it awaits the *)
(* processor's shutdown.                                                   *)
Flush ==
  /\ Acted /\ flush.at = "idle"
  /\ IF client.state = "none"
     THEN GlobalClient(FALSE)
     ELSE /\ proc' = Empty({p \in Processor : proc[p].state = "open"}, "flush")
          /\ UNCHANGED <<client, registered>>
  /\ flush' = [at |-> IF client'.enabled THEN "busy" ELSE "done", due |-> Owed,
               on |-> IF client.state = "closing" THEN client.proc ELSE None]
  /\ UNCHANGED <<span, stack, sent, faults>>

Idle(p, takers) == \A by \in takers : proc[p].sending[by] = {}

FlushedEarly ==  \* mutant: forceFlush is not awaited
  /\ flush.at = "busy" /\ flush' = [flush EXCEPT !.at = "done"]
  /\ UNCHANGED <<client, registered, proc, span, stack, sent, bound, acts, faults>>

Flushed ==
  /\ flush.at = "busy"
  /\ \/ /\ flush.on = None /\ \A p \in Processor : Idle(p, {"flush"})
        /\ flush' = [flush EXCEPT !.at = "done"]
     \/ /\ flush.on # None /\ proc[flush.on].state = "closed" /\ Idle(flush.on, Takers)
        /\ flush' = [flush EXCEPT !.at = "done"]
     \/ /\ flush.on # None /\ proc[flush.on].state = "failed"
        /\ flush' = [flush EXCEPT !.at = "failed"]
  /\ UNCHANGED <<client, registered, proc, span, stack, sent, bound, acts, faults>>

(* One flush at a time: the next is called when all batches of one that    *)
(* failed have settled.                                                    *)
Forget ==
  /\ flush.at \in {"done", "failed"} /\ \A p \in Processor : Idle(p, {"flush"})
  /\ flush' = [at |-> "idle", due |-> {}, on |-> None]
  /\ UNCHANGED <<client, registered, proc, span, stack, sent, bound, acts, faults>>

(* shutdown closes the provider's processors when the provider is ours,    *)
(* else the client's own, and forgets the client once nothing is in        *)
(* flight.  A second call meanwhile awaits the same close and settles with *)
(* it.  If it fails, the client is kept as it is, for good: it takes no    *)
(* more spans, and whoever asks for a client gets this one.                *)
Closing == IF client.owns THEN {p \in Processor : proc[p].state = "open"} ELSE {client.proc}

Shutdown ==
  /\ Acted /\ client.state = "live"
  /\ client' = [client EXCEPT !.state = "closing"]
  /\ proc' = [p \in Processor |->
                IF p \in Closing
                THEN [Empty(Closing, "shutdown")[p] EXCEPT !.state = "closed"] ELSE proc[p]]
  /\ UNCHANGED <<registered, span, stack, sent, flush, faults>>

Closed ==
  /\ client.state = "closing"
  /\ client.proc # None => /\ proc[client.proc].state = "closed"
                           /\ Idle(client.proc, Takers)
  /\ client' = NoClient
  /\ UNCHANGED <<registered, proc, span, stack, sent, flush, bound, acts, faults>>

Next ==
  \/ Initialize \/ Flush \/ Flushed \/ Forget \/ Shutdown \/ Closed
  \/ \E t \in Task :
       \/ Call(t) \/ Return(t)
       \/ \E u \in User : UsingAttributes(t, u) \/ UpdateCurrentTrace(t, u)
  \/ \E p \in Processor :
       Export(p) \/ \E by \in Takers : Arrive(p, by) \/ Lose(p, by)

Spec == Init /\ [][Next]_vars

-----------------------------------------------------------------------------
TypeOK ==
  /\ client \in [state : {"none", "live", "closing"}, given : BOOLEAN, enabled : BOOLEAN,
                 proc : Processor \cup {None}, owns : BOOLEAN]
  /\ registered \in BOOLEAN /\ bound \in Bounds
  /\ proc \in [Processor -> [state : {"unused", "open", "closed", "failed"},
                             queue : SUBSET Span, sending : [Takers -> SUBSET Span]]]
  /\ {p \in Processor : proc[p].state = "open"} \subseteq {client.proc}
  /\ \A t \in Task : Len(stack[t]) <= bound.depth
  /\ flush.at \in {"idle", "busy", "done", "failed"} /\ flush.due \subseteq Span
  /\ flush.on \in Processor \cup {None}

(* Whatever clients came and went, a call that returns while an enabled    *)
(* client is live, with room in its queue, has its span taken.             *)
SpanTaken ==
  \A s \in Span :
    span[s].state = "open" /\ span'[s].state = "ended"
      /\ client.state = "live" /\ client.enabled /\ ~Full(client.proc) => span'[s].kept

(* No span is exported twice, though each new client adds a processor to   *)
(* the provider that the ones before it leave behind.                      *)
SentOnce == \A s \in Span : sent[s] <= 1

(* A span in a block that a provider was there for, or that was updated,   *)
(* has the user of the innermost block or of the update.                   *)
UserReaches ==
  \A s \in Span : span[s].state # "unused" /\ span[s].heard => span[s].user = span[s].want

(* When flush returns without an error, all that ended and was taken      *)
(* before it was called is sent, but for what the timer was sending then.  *)
FlushDelivers == flush.at = "done" => \A s \in flush.due : sent[s] > 0

(* A span that ends while a client is live reaches the API, once, and by   *)
(* the return of a flush that was called for it.                           *)
Delivers == SpanTaken /\ (SentOnce /\ FlushDelivers)'
=============================================================================
