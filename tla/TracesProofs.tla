---------------------------- MODULE TracesProofs ----------------------------
(***************************************************************************)
(* What Traces promises, for any number of tasks, spans, processors and    *)
(* users of the SDK, any families of spans and uploads that bring them,    *)
(* any models and processes that price them, and any rows and windows of   *)
(* the lists.                                                              *)
(*                                                                         *)
(* First the client of the SDK.  A call has an open span of its own, so a  *)
(* span ends once; a span that ended and was not lost waits or is on its   *)
(* way in the processor the client has, or is sent, and not both.          *)
(***************************************************************************)
EXTENDS Traces, SequenceTheorems, FiniteSetTheorems, WellFoundedInduction, TLAPS

Frame == [user : Users \cup {None}, want : Users \cup {None}, heard : BOOLEAN,
          span : SpanIds \cup {None}, call : BOOLEAN]
SpanRecord == [state : {"unused", "open", "ended"}, user : Users \cup {None},
               want : Users \cup {None}, heard : BOOLEAN, kept : BOOLEAN]
ClientRecord == [state : {"none", "live", "closing"}, given : BOOLEAN, enabled : BOOLEAN,
                 proc : Processors \cup {None}, owns : BOOLEAN]
ProcRecord == [state : {"unused", "open", "closed", "failed"}, queue : SUBSET SpanIds,
               sending : [Sdk!Takers -> SUBSET SpanIds]]

(* A span waits in a processor, or is on its way from there.               *)
Held(p, s) == s \in proc[p].queue \/ \E by \in Sdk!Takers : s \in proc[p].sending[by]

(* A client that is enabled has a processor, which is open while it lives; *)
(* no other one is open or still has spans.  Only what is open has a       *)
(* queue, and what is open was not shut down.                              *)
ClientInv ==
  /\ client \in ClientRecord /\ registered \in BOOLEAN
  /\ proc \in [Processors -> ProcRecord]
  /\ client.enabled <=> client.proc # None
  /\ client.state = "none" => ~client.enabled
  /\ client.state = "live" /\ client.enabled => proc[client.proc].state = "open"
  /\ \A p \in Processors :
       /\ proc[p].state = "open" => p = client.proc /\ client.state = "live"
       /\ proc[p].state = "open" => proc[p].sending["shutdown"] = {}
       /\ proc[p].queue # {} => proc[p].state = "open"
       /\ \A s \in SpanIds : Held(p, s) => p = client.proc

Stacked == stack \in [Tasks -> Seq(Frame)]

(* A call has an open span of its own.                                     *)
Calling(t, i) == i \in 1 .. Len(stack[t]) /\ stack[t][i].call
FrameInv ==
  /\ span \in [SpanIds -> SpanRecord] /\ stack \in [Tasks -> Seq(Frame)]
  /\ \A t \in Tasks, i \in Nat :
       Calling(t, i) => /\ stack[t][i].span \in SpanIds
                        /\ span[stack[t][i].span].state = "open"
  /\ \A t, u \in Tasks, i, j \in Nat :
       Calling(t, i) /\ Calling(u, j) /\ stack[t][i].span = stack[u][j].span
         => t = u /\ i = j

(* A span that ended and was not lost is held or sent, and not both; what  *)
(* is held is in the queue or in one batch.                                *)
QueueInv ==
  /\ sent \in [SpanIds -> Nat]
  /\ \A s \in SpanIds : sent[s] <= 1
  /\ \A s \in SpanIds : span[s].state # "ended" => sent[s] = 0
  /\ \A p \in Processors, s \in SpanIds : Held(p, s) => span[s].state = "ended" /\ sent[s] = 0
  /\ \A p \in Processors, s \in SpanIds, by \in Sdk!Takers :
       s \in proc[p].sending[by] =>
         /\ s \notin proc[p].queue
         /\ \A k \in Sdk!Takers \ {by} : s \notin proc[p].sending[k]
  /\ \A s \in SpanIds : span[s].state = "ended" /\ span[s].kept =>
       sent[s] > 0 \/ \E p \in Processors : Held(p, s)

(* What a flush that is done owes was sent.  While it is under way, it is  *)
(* sent or in a batch of its own; or, if it awaits a shutdown that has not *)
(* failed, of the shutdown or of a flush before.                           *)
OnItsWay(s) ==
  IF flush.on = None THEN \E p \in Processors : s \in proc[p].sending["flush"]
  ELSE \/ proc[flush.on].state = "failed"
       \/ \E by \in {"flush", "shutdown"} : s \in proc[flush.on].sending[by]

FlushInv ==
  /\ flush \in [at : {"idle", "busy", "done", "failed"}, due : SUBSET SpanIds,
                on : Processors \cup {None}]
  /\ \A s \in flush.due : span[s].state = "ended"
  /\ flush.at = "done" => \A s \in flush.due : sent[s] > 0
  /\ flush.at = "busy" => \A s \in flush.due : sent[s] > 0 \/ OnItsWay(s)

SdkInv == ClientInv /\ FrameInv /\ QueueInv /\ FlushInv

-----------------------------------------------------------------------------
(* Stacks.                                                                 *)
LEMMA Pushed ==
  ASSUME Stacked, NEW t \in Tasks, NEW f \in Frame,
         stack' = [stack EXCEPT ![t] = Append(@, f)]
  PROVE  /\ stack' \in [Tasks -> Seq(Frame)]
         /\ Len(stack'[t]) = Len(stack[t]) + 1 /\ Len(stack[t]) \in Nat
         /\ stack'[t][Len(stack[t]) + 1] = f
         /\ \A i \in 1 .. Len(stack[t]) : stack'[t][i] = stack[t][i]
         /\ \A u \in Tasks \ {t} : stack'[u] = stack[u]
<1>1. stack[t] \in Seq(Frame) /\ stack \in [Tasks -> Seq(Frame)]
  BY DEF Stacked
<1>2. PICK q \in Seq(Frame) : q = Append(stack[t], f)
  BY <1>1, AppendProperties
<1>3. stack' = [stack EXCEPT ![t] = q]
  BY <1>2
<1>4. /\ Len(q) = Len(stack[t]) + 1 /\ q[Len(stack[t]) + 1] = f
      /\ \A i \in 1 .. Len(stack[t]) : q[i] = stack[t][i]
  BY <1>1, <1>2, AppendProperties
<1>5. stack'[t] = q /\ stack' \in [Tasks -> Seq(Frame)]
      /\ \A u \in Tasks \ {t} : stack'[u] = stack[u]
  BY <1>1, <1>3
<1>6. Len(stack[t]) \in Nat
  BY <1>1, LenProperties
<1> QED BY <1>4, <1>5, <1>6

LEMMA Popped ==
  ASSUME Stacked, NEW t \in Tasks, stack[t] # <<>>,
         stack' = [stack EXCEPT ![t] = SubSeq(@, 1, Len(@) - 1)]
  PROVE  /\ stack' \in [Tasks -> Seq(Frame)]
         /\ Len(stack[t]) \in Nat /\ Len(stack[t]) > 0
         /\ Len(stack'[t]) = Len(stack[t]) - 1
         /\ \A i \in 1 .. Len(stack[t]) - 1 : stack'[t][i] = stack[t][i]
         /\ \A u \in Tasks \ {t} : stack'[u] = stack[u]
<1>1. stack[t] \in Seq(Frame) /\ stack \in [Tasks -> Seq(Frame)]
  BY DEF Stacked
<1>2. Len(stack[t]) \in Nat /\ Len(stack[t]) > 0
  BY <1>1, LenProperties, EmptySeq
<1>3. PICK q : q = SubSeq(stack[t], 1, Len(stack[t]) - 1)
  OBVIOUS
<1>4. /\ q \in Seq(Frame) /\ Len(q) = Len(stack[t]) - 1
      /\ \A i \in 1 .. Len(stack[t]) - 1 : q[i] = stack[t][i]
  <2>1. PICK n \in Nat : n = Len(stack[t]) - 1
    BY <1>2
  <2>2. q = SubSeq(stack[t], 1, n)
    BY <1>3, <2>1
  <2>3. \A i \in 1 .. n : stack[t][i] \in Frame
    BY <1>1, <2>1, ElementOfSeq
  <2>4. /\ q \in Seq(Frame) /\ Len(q) = IF 1 <= n THEN n - 1 + 1 ELSE 0
        /\ \A i \in 1 .. n - 1 + 1 : q[i] = stack[t][1 + i - 1]
    BY <2>2, <2>3, SubSeqProperties
  <2>5. Len(q) = n /\ \A i \in 1 .. n : q[i] = stack[t][i]
    BY <2>4
  <2> QED BY <2>1, <2>4, <2>5
<1>5. stack' = [stack EXCEPT ![t] = q]
  BY <1>3
<1>6. stack'[t] = q /\ stack' \in [Tasks -> Seq(Frame)]
      /\ \A u \in Tasks \ {t} : stack'[u] = stack[u]
  BY <1>1, <1>4, <1>5
<1> QED BY <1>2, <1>4, <1>6

LEMMA CurrentType ==
  ASSUME FrameInv, NEW t \in Tasks
  PROVE  /\ Sdk!Current(t) \in Frame
         /\ stack[t] # <<>> => Len(stack[t]) \in Nat \ {0}
         /\ stack[t] # <<>> => Sdk!Current(t) = stack[t][Len(stack[t])]
<1>1. CASE stack[t] = <<>>
  BY <1>1 DEF Sdk!Current, Sdk!Outermost, Frame
<1>2. CASE stack[t] # <<>>
  <2>1. stack[t] \in Seq(Frame) /\ Len(stack[t]) \in Nat \ {0}
    BY <1>2, LenProperties, EmptySeq DEF FrameInv
  <2>2. stack[t][Len(stack[t])] \in Frame /\ Len(stack[t]) \in 1 .. Len(stack[t])
    BY <2>1, ElementOfSeq
  <2>3. Sdk!Current(t) = stack[t][Len(stack[t])]
    BY <1>2 DEF Sdk!Current, Sdk!Last
  <2> QED BY <1>2, <2>1, <2>2, <2>3
<1> QED BY <1>1, <1>2

-----------------------------------------------------------------------------
(* What most steps leave alone: which spans ended, and what became of them.*)
LEMMA QueueSame ==
  ASSUME QueueInv, FlushInv, UNCHANGED <<sent, flush>>,
         \A p \in Processors : /\ proc'[p].queue = proc[p].queue
                               /\ proc'[p].sending = proc[p].sending
                               /\ proc[p].state = "failed" => proc'[p].state = "failed",
         \A s \in SpanIds : /\ span'[s].state = "ended" <=> span[s].state = "ended"
                            /\ span[s].state = "ended" => span'[s].kept = span[s].kept
  PROVE  QueueInv' /\ FlushInv'
<1>1. \A p \in Processors, s \in SpanIds : Held(p, s)' <=> Held(p, s)
  BY DEF Held
<1>2. QueueInv'
  <2>1. /\ sent' \in [SpanIds -> Nat]
        /\ \A s \in SpanIds : sent'[s] <= 1 /\ (span'[s].state # "ended" => sent'[s] = 0)
    BY DEF QueueInv
  <2>2. \A p \in Processors, s \in SpanIds :
          Held(p, s)' => span'[s].state = "ended" /\ sent'[s] = 0
    BY <1>1 DEF QueueInv
  <2>3. \A s \in SpanIds : span'[s].state = "ended" /\ span'[s].kept =>
            sent'[s] > 0 \/ \E p \in Processors : Held(p, s)'
    BY <1>1 DEF QueueInv
  <2>4. \A p \in Processors, s \in SpanIds, by \in Sdk!Takers :
          s \in proc'[p].sending[by] =>
            /\ s \notin proc'[p].queue
            /\ \A k \in Sdk!Takers \ {by} : s \notin proc'[p].sending[k]
    BY DEF QueueInv
  <2> QED BY <2>1, <2>2, <2>3, <2>4 DEF QueueInv
<1>3. FlushInv'
  <2>1. \A s \in flush.due : OnItsWay(s) => OnItsWay(s)'
    BY DEF OnItsWay, FlushInv
  <2> QED BY <2>1 DEF FlushInv
<1> QED BY <1>2, <1>3

(* Spans go from a queue to a batch.                                       *)
LEMMA Moved ==
  ASSUME QueueInv, NEW by \in Sdk!Takers, UNCHANGED <<sent, span>>,
         \A p \in Processors :
           /\ proc'[p].queue \cup proc'[p].sending[by] = proc[p].queue \cup proc[p].sending[by]
           /\ proc'[p].queue \cap proc'[p].sending[by] = {}
           /\ proc[p].sending[by] \subseteq proc'[p].sending[by]
           /\ \A k \in Sdk!Takers \ {by} : proc'[p].sending[k] = proc[p].sending[k]
  PROVE  QueueInv' /\ \A p \in Processors, s \in SpanIds : Held(p, s)' <=> Held(p, s)
<1>1. \A p \in Processors, s \in SpanIds : Held(p, s)' <=> Held(p, s)
  BY DEF Held
<1>2. ASSUME NEW p \in Processors, NEW s \in SpanIds, NEW k \in Sdk!Takers,
             s \in proc'[p].sending[k]
      PROVE  /\ s \notin proc'[p].queue
             /\ \A j \in Sdk!Takers \ {k} : s \notin proc'[p].sending[j]
  <2>1. CASE k = by
    <3>1. \A j \in Sdk!Takers \ {by} : s \notin proc[p].sending[j]
      BY <1>2, <2>1 DEF QueueInv
    <3> QED BY <1>2, <2>1, <3>1
  <2>2. CASE k # by
    <3>1. s \in proc[p].sending[k]
      BY <1>2, <2>2
    <3>2. s \notin proc[p].queue /\ \A j \in Sdk!Takers \ {k} : s \notin proc[p].sending[j]
      BY <3>1 DEF QueueInv
    <3> QED BY <2>2, <3>2
  <2> QED BY <2>1, <2>2
<1>3. \A p \in Processors, s \in SpanIds :
        Held(p, s)' => span'[s].state = "ended" /\ sent'[s] = 0
  BY <1>1 DEF QueueInv
<1>4. \A s \in SpanIds : span'[s].state = "ended" /\ span'[s].kept =>
            sent'[s] > 0 \/ \E p \in Processors : Held(p, s)'
  BY <1>1 DEF QueueInv
<1> QED BY <1>1, <1>2, <1>3, <1>4 DEF QueueInv

(* What a flush owes stays on its way while no batch shrinks.              *)
LEMMA FlushKeeps ==
  ASSUME FlushInv, UNCHANGED <<sent, flush>>,
         \A p \in Processors :
           /\ \A by \in {"flush", "shutdown"} : proc[p].sending[by] \subseteq proc'[p].sending[by]
           /\ proc[p].state = "failed" => proc'[p].state = "failed",
         \A s \in SpanIds : span[s].state = "ended" => span'[s].state = "ended"
  PROVE  FlushInv'
<1>1. \A s \in flush.due : OnItsWay(s) => OnItsWay(s)'
  BY DEF OnItsWay, FlushInv
<1> QED BY <1>1 DEF FlushInv

(* A frame that is not a call's is put on a stack.                         *)
LEMMA PushQuiet ==
  ASSUME FrameInv, NEW t \in Tasks, NEW f \in Frame, ~f.call,
         stack' = [stack EXCEPT ![t] = Append(@, f)], UNCHANGED span
  PROVE  FrameInv'
<1>1. /\ stack' \in [Tasks -> Seq(Frame)]
      /\ Len(stack'[t]) = Len(stack[t]) + 1 /\ Len(stack[t]) \in Nat
      /\ stack'[t][Len(stack[t]) + 1] = f
      /\ \A i \in 1 .. Len(stack[t]) : stack'[t][i] = stack[t][i]
      /\ \A u \in Tasks \ {t} : stack'[u] = stack[u]
  BY Pushed DEF FrameInv, Stacked
<1>2. \A u \in Tasks, i \in Nat : Calling(u, i)' => Calling(u, i) /\ stack'[u][i] = stack[u][i]
  BY <1>1 DEF Calling
<1>3. \A u \in Tasks, i \in Nat :
        Calling(u, i)' => /\ stack'[u][i].span \in SpanIds
                          /\ span'[stack'[u][i].span].state = "open"
  BY <1>2 DEF FrameInv, Calling
<1>4. ASSUME NEW u \in Tasks, NEW v \in Tasks, NEW i \in Nat, NEW j \in Nat,
             Calling(u, i)', Calling(v, j)', stack'[u][i].span = stack'[v][j].span
      PROVE  u = v /\ i = j
  BY <1>2, <1>4 DEF FrameInv, Calling
<1>5. span' \in [SpanIds -> SpanRecord]
  BY DEF FrameInv
<1> QED BY <1>1, <1>3, <1>4, <1>5 DEF FrameInv

(* initializeGlobalClient and getGlobalClient.                             *)
LEMMA GlobalStep ==
  ASSUME Sdk!SdkAssumption, ClientInv, NEW g \in BOOLEAN, Sdk!GlobalClient(g)
  PROVE  /\ ClientInv' /\ client'.state # "none"
         /\ client.state # "none" => client' = client
         /\ \A p \in Processors : /\ proc'[p].queue = proc[p].queue
                                  /\ proc'[p].sending = proc[p].sending
                                  /\ proc[p].state = "failed" => proc'[p].state = "failed"
<1>1. CASE client.state # "none"
  BY <1>1 DEF Sdk!GlobalClient, ClientInv, Held
<1>2. CASE client.state = "none"
  <2>1. \A p \in Processors : proc[p].state # "open" /\ \A s \in SpanIds : ~Held(p, s)
    BY <1>2 DEF ClientInv, Sdk!SdkAssumption
  <2>2. PICK p \in Processors : Sdk!NewClient(g, p)
    BY <1>2 DEF Sdk!GlobalClient
  <2>3. CASE g \/ EnvKey
    <3>1. /\ proc[p].state = "unused" /\ proc' = [proc EXCEPT ![p].state = "open"]
          /\ client' = [state |-> "live", given |-> g, enabled |-> TRUE, proc |-> p,
                        owns |-> ~registered]
          /\ registered' = TRUE
      BY <2>2, <2>3 DEF Sdk!NewClient
    <3>2. /\ client' \in ClientRecord /\ client'.state = "live" /\ client'.enabled
          /\ client'.proc = p /\ p # None
      BY <3>1, <2>2 DEF ClientRecord, ClientInv, Sdk!SdkAssumption
    <3>3. /\ proc' \in [Processors -> ProcRecord] /\ proc'[p].state = "open"
          /\ proc'[p].queue = proc[p].queue /\ proc'[p].sending = proc[p].sending
          /\ \A q \in Processors \ {p} : proc'[q] = proc[q]
      BY <3>1, <2>2 DEF ClientInv, ProcRecord
    <3>4. \A q \in Processors, s \in SpanIds : ~Held(q, s)'
      BY <2>1, <3>3 DEF Held
    <3>5. proc[p].sending["shutdown"] = {} /\ \A q \in Processors : proc'[q].queue = {}
      <4>1. "shutdown" \in Sdk!Takers /\ \A q \in Processors : proc[q] \in ProcRecord
        BY DEF Sdk!Takers, ClientInv
      <4>2. proc[p].sending["shutdown"] \in SUBSET SpanIds
        BY <4>1 DEF ProcRecord
      <4>3. \A s \in SpanIds : s \notin proc[p].sending["shutdown"]
        BY <2>1, <4>1 DEF Held
      <4>4. \A q \in Processors : proc'[q].queue \in SUBSET SpanIds
        BY <3>3 DEF ProcRecord
      <4> QED BY <3>4, <4>2, <4>3, <4>4 DEF Held
    <3>6. \A q \in Processors : proc'[q].queue = proc[q].queue /\ proc'[q].sending = proc[q].sending
                                /\ (proc[q].state = "failed" => proc'[q].state = "failed")
      BY <3>1, <3>3
    <3>7. ClientInv'
      <4>1. \A q \in Processors : proc'[q].state = "open" => q = p
        BY <2>1, <3>3
      <4>2. proc'[p].sending["shutdown"] = {}
        BY <3>3, <3>5
      <4>3. \A q \in Processors : proc'[q].queue # {} => proc'[q].state = "open"
        BY <3>5
      <4>4. registered' \in BOOLEAN /\ (client'.enabled <=> client'.proc # None)
            /\ client'.state # "none"
            /\ (client'.state = "live" /\ client'.enabled => proc'[client'.proc].state = "open")
        BY <3>1, <3>2, <3>3
      <4> QED BY <3>2, <3>3, <3>4, <4>1, <4>2, <4>3, <4>4 DEF ClientInv
    <3> QED BY <1>2, <3>2, <3>6, <3>7
  <2>4. CASE ~(g \/ EnvKey)
    <3>1. /\ client' = [Sdk!NoClient EXCEPT !.state = "live", !.given = g]
          /\ UNCHANGED <<proc, registered>>
      BY <2>2, <2>4 DEF Sdk!NewClient
    <3>2. /\ client' \in ClientRecord /\ client'.state = "live" /\ ~client'.enabled
          /\ client'.proc = None
      BY <3>1 DEF ClientRecord, Sdk!NoClient
    <3>3. None \notin Processors
      BY DEF Sdk!SdkAssumption
    <3>4. \A q \in Processors, s \in SpanIds : ~Held(q, s)'
      BY <2>1, <3>1 DEF Held
    <3>5. ClientInv'
      BY <2>1, <3>1, <3>2, <3>3, <3>4 DEF ClientInv
    <3> QED BY <1>2, <3>1, <3>2, <3>5
  <2> QED BY <2>3, <2>4
<1> QED BY <1>1, <1>2

LEMMA InitializeStep ==
  ASSUME Sdk!SdkAssumption, SdkInv, Sdk!Initialize
  PROVE  SdkInv'
<1>1. Sdk!GlobalClient(TRUE) /\ UNCHANGED <<span, stack, sent, flush, faults>>
  BY DEF Sdk!Initialize
<1>2. ClientInv' /\ \A p \in Processors : /\ proc'[p].queue = proc[p].queue
                                          /\ proc'[p].sending = proc[p].sending
                                          /\ proc[p].state = "failed" => proc'[p].state = "failed"
  BY <1>1, GlobalStep DEF SdkInv
<1>3. FrameInv'
  BY <1>1 DEF SdkInv, FrameInv, Calling
<1>4. QueueInv' /\ FlushInv'
  BY <1>1, <1>2, QueueSame DEF SdkInv
<1> QED BY <1>2, <1>3, <1>4 DEF SdkInv

LEMMA UsingAttributesStep ==
  ASSUME Sdk!SdkAssumption, SdkInv, NEW t \in Tasks, NEW u \in Users,
         Sdk!UsingAttributes(t, u)
  PROVE  SdkInv'
<1> DEFINE f == [Sdk!Current(t) EXCEPT !.user = IF registered THEN u ELSE @, !.want = u,
                                          !.heard = registered, !.call = FALSE]
<1>1. /\ stack' = [stack EXCEPT ![t] = Append(@, f)]
      /\ UNCHANGED <<client, registered, proc, span, sent, flush>>
  BY DEF Sdk!UsingAttributes
<1>2. Sdk!Current(t) \in Frame /\ registered \in BOOLEAN
  BY CurrentType DEF SdkInv, ClientInv
<1>3. f \in Frame /\ ~f.call
  BY <1>2 DEF Frame
<1>4. FrameInv'
  <2> HIDE DEF f
  <2> QED BY <1>1, <1>3, PushQuiet DEF SdkInv
<1>5. QueueInv' /\ FlushInv'
  BY <1>1, QueueSame DEF SdkInv
<1>6. ClientInv'
  BY <1>1 DEF SdkInv, ClientInv, Held
<1> QED BY <1>4, <1>5, <1>6 DEF SdkInv

LEMMA CallStep ==
  ASSUME Sdk!SdkAssumption, SdkInv, NEW t \in Tasks, Sdk!Call(t) PROVE SdkInv'
<1>1. Sdk!GlobalClient(FALSE) /\ UNCHANGED <<sent, flush>>
  BY DEF Sdk!Call
<1>2. ClientInv' /\ \A p \in Processors : /\ proc'[p].queue = proc[p].queue
                                          /\ proc'[p].sending = proc[p].sending
                                          /\ proc[p].state = "failed" => proc'[p].state = "failed"
  BY <1>1, GlobalStep DEF SdkInv
<1>3. Sdk!Current(t) \in Frame
  BY CurrentType DEF SdkInv
<1>4. CASE ~registered'
  <2> DEFINE f == [Sdk!Current(t) EXCEPT !.call = FALSE]
  <2>1. stack' = [stack EXCEPT ![t] = Append(@, f)] /\ UNCHANGED span
    BY <1>4 DEF Sdk!Call
  <2>2. f \in Frame /\ ~f.call
    BY <1>3 DEF Frame
  <2>3. FrameInv'
    <3> HIDE DEF f
    <3> QED BY <1>1, <2>1, <2>2, PushQuiet DEF SdkInv
  <2>4. QueueInv' /\ FlushInv'
    BY <1>1, <1>2, <2>1, QueueSame DEF SdkInv
  <2> QED BY <1>2, <2>3, <2>4 DEF SdkInv
<1>5. CASE registered'
  <2>1. PICK s \in SpanIds :
          /\ span[s].state = "unused"
          /\ span' = [span EXCEPT ![s] = [state |-> "open", user |-> Sdk!Current(t).user,
                                          want |-> Sdk!Current(t).want,
                                          heard |-> Sdk!Current(t).heard, kept |-> TRUE]]
          /\ stack' = [stack EXCEPT ![t] =
                         Append(@, [Sdk!Current(t) EXCEPT !.span = s, !.call = TRUE])]
    BY <1>5 DEF Sdk!Call
  <2> DEFINE f == [Sdk!Current(t) EXCEPT !.span = s, !.call = TRUE]
             r == [state |-> "open", user |-> Sdk!Current(t).user, want |-> Sdk!Current(t).want,
                   heard |-> Sdk!Current(t).heard, kept |-> TRUE]
  <2>2. f \in Frame /\ f.call /\ f.span = s
    BY <1>3 DEF Frame
  <2>3. r \in SpanRecord /\ r.state = "open"
    BY <1>3 DEF SpanRecord, Frame
  <2>4. stack' = [stack EXCEPT ![t] = Append(@, f)] /\ span' = [span EXCEPT ![s] = r]
    BY <2>1
  <2> HIDE DEF f, r
  <2>5. /\ stack' \in [Tasks -> Seq(Frame)]
        /\ Len(stack'[t]) = Len(stack[t]) + 1 /\ Len(stack[t]) \in Nat
        /\ stack'[t][Len(stack[t]) + 1] = f
        /\ \A i \in 1 .. Len(stack[t]) : stack'[t][i] = stack[t][i]
        /\ \A u \in Tasks \ {t} : stack'[u] = stack[u]
    BY <2>2, <2>4, Pushed DEF SdkInv, FrameInv, Stacked
  <2>6. /\ span' \in [SpanIds -> SpanRecord] /\ span'[s] = r
        /\ \A y \in SpanIds \ {s} : span'[y] = span[y]
    BY <2>3, <2>4 DEF SdkInv, FrameInv
  <2>7. ASSUME NEW u \in Tasks, NEW i \in Nat, Calling(u, i)'
        PROVE  \/ /\ Calling(u, i) /\ stack'[u][i] = stack[u][i]
                  /\ stack[u][i].span \in SpanIds /\ stack[u][i].span # s
                  /\ span[stack[u][i].span].state = "open"
               \/ u = t /\ i = Len(stack[t]) + 1 /\ stack'[u][i] = f
    <3>1. CASE u = t /\ i = Len(stack[t]) + 1
      BY <2>5, <3>1
    <3>2. CASE ~(u = t /\ i = Len(stack[t]) + 1)
      <4>1. Calling(u, i) /\ stack'[u][i] = stack[u][i]
        BY <2>5, <2>7, <3>2 DEF Calling
      <4>2. /\ stack[u][i].span \in SpanIds
            /\ span[stack[u][i].span].state = "open"
        BY <4>1 DEF SdkInv, FrameInv
      <4> QED BY <2>1, <4>1, <4>2
    <3> QED BY <3>1, <3>2
  <2>9. FrameInv'
    <3>1. \A u \in Tasks, i \in Nat :
            Calling(u, i)' => /\ stack'[u][i].span \in SpanIds
                              /\ span'[stack'[u][i].span].state = "open"
      BY <2>2, <2>3, <2>6, <2>7
    <3>2. ASSUME NEW u \in Tasks, NEW v \in Tasks, NEW i \in Nat, NEW j \in Nat,
                 Calling(u, i)', Calling(v, j)', stack'[u][i].span = stack'[v][j].span
          PROVE  u = v /\ i = j
      BY <2>2, <2>7, <3>2 DEF SdkInv, FrameInv
    <3> QED BY <2>5, <2>6, <3>1, <3>2 DEF FrameInv
  <2>11. QueueInv' /\ FlushInv'
    <3>1. \A y \in SpanIds : /\ span'[y].state = "ended" <=> span[y].state = "ended"
                             /\ span[y].state = "ended" => span'[y].kept = span[y].kept
      BY <2>1, <2>3, <2>6
    <3> QED BY <1>1, <1>2, <3>1, QueueSame DEF SdkInv
  <2> QED BY <1>2, <2>9, <2>11 DEF SdkInv
<1> QED BY <1>4, <1>5

LEMMA UpdateStep ==
  ASSUME Sdk!SdkAssumption, SdkInv, NEW t \in Tasks, NEW u \in Users,
         Sdk!UpdateCurrentTrace(t, u)
  PROVE  SdkInv'
<1>1. Sdk!Current(t) \in Frame /\ Sdk!Current(t).span # None
  BY CurrentType DEF SdkInv, Sdk!UpdateCurrentTrace
<1>2. PICK s \in SpanIds : s = Sdk!Current(t).span
  BY <1>1 DEF Frame
<1> DEFINE r == [span[s] EXCEPT !.user = u, !.want = u, !.heard = TRUE]
<1>3. span' = [span EXCEPT ![s] = r] /\ UNCHANGED <<client, registered, proc, stack, sent, flush>>
  BY <1>2 DEF Sdk!UpdateCurrentTrace
<1>4. /\ r \in SpanRecord /\ r.state = span[s].state /\ r.kept = span[s].kept
      /\ r.user = r.want
  <2>1. span[s] \in SpanRecord
    BY DEF SdkInv, FrameInv
  <2> QED BY <2>1 DEF SpanRecord
<1> HIDE DEF r
<1>5. /\ span' \in [SpanIds -> SpanRecord] /\ span'[s] = r
      /\ \A y \in SpanIds \ {s} : span'[y] = span[y]
  BY <1>3, <1>4 DEF SdkInv, FrameInv
<1>6. \A y \in SpanIds : span'[y].state = span[y].state /\ span'[y].kept = span[y].kept
  BY <1>4, <1>5
<1>7. FrameInv'
  BY <1>3, <1>5, <1>6 DEF SdkInv, FrameInv, Calling
<1>9. QueueInv' /\ FlushInv'
  BY <1>3, <1>6, QueueSame DEF SdkInv
<1>10. ClientInv'
  BY <1>3 DEF SdkInv, ClientInv, Held
<1> QED BY <1>7, <1>9, <1>10 DEF SdkInv

(* A call's frame is popped and no other call has its span.                *)
LEMMA ReturnStep ==
  ASSUME Sdk!SdkAssumption, SdkInv, NEW t \in Tasks, Sdk!Return(t)
  PROVE  SdkInv'
<1>1. stack[t] # <<>> /\ stack' = [stack EXCEPT ![t] = SubSeq(@, 1, Len(@) - 1)]
      /\ UNCHANGED <<client, registered, sent, flush>>
  BY DEF Sdk!Return, Sdk!Front
<1>2. /\ stack' \in [Tasks -> Seq(Frame)]
      /\ Len(stack[t]) \in Nat /\ Len(stack[t]) > 0
      /\ Len(stack'[t]) = Len(stack[t]) - 1
      /\ \A i \in 1 .. Len(stack[t]) - 1 : stack'[t][i] = stack[t][i]
      /\ \A u \in Tasks \ {t} : stack'[u] = stack[u]
  BY <1>1, Popped DEF SdkInv, FrameInv, Stacked
<1>3. ASSUME NEW u \in Tasks, NEW i \in Nat, i \in 1 .. Len(stack'[u])
      PROVE  /\ stack'[u][i] = stack[u][i] /\ i \in 1 .. Len(stack[u])
             /\ ~(u = t /\ i = Len(stack[t]))
  BY <1>2, <1>3
<1>6. CASE ~Sdk!Current(t).call
  <2>1. UNCHANGED <<proc, span>>
    BY <1>6 DEF Sdk!Return
  <2>2. FrameInv'
    <3>1. \A u \in Tasks, i \in Nat :
            Calling(u, i)' => Calling(u, i) /\ stack'[u][i] = stack[u][i]
      BY <1>3 DEF Calling
    <3>2. \A u \in Tasks, i \in Nat :
            Calling(u, i)' => /\ stack'[u][i].span \in SpanIds
                              /\ span'[stack'[u][i].span].state = "open"
      BY <2>1, <3>1 DEF SdkInv, FrameInv
    <3>3. ASSUME NEW u \in Tasks, NEW v \in Tasks, NEW i \in Nat, NEW j \in Nat,
                 Calling(u, i)', Calling(v, j)', stack'[u][i].span = stack'[v][j].span
          PROVE  u = v /\ i = j
      BY <3>1, <3>3 DEF SdkInv, FrameInv
    <3>4. span' \in [SpanIds -> SpanRecord]
      BY <2>1 DEF SdkInv, FrameInv
    <3> QED BY <1>2, <3>2, <3>3, <3>4 DEF FrameInv
  <2>4. QueueInv' /\ FlushInv'
    BY <1>1, <2>1, QueueSame DEF SdkInv
  <2>5. ClientInv'
    BY <1>1, <2>1 DEF SdkInv, ClientInv, Held
  <2> QED BY <2>2, <2>4, <2>5 DEF SdkInv
<1>7. CASE Sdk!Current(t).call
  <2>1. Sdk!Current(t) = stack[t][Len(stack[t])]
    BY <1>1, CurrentType DEF SdkInv
  <2>2. Calling(t, Len(stack[t]))
    BY <1>2, <1>7, <2>1 DEF Calling
  <2>3. Sdk!Current(t).span \in SpanIds /\ span[Sdk!Current(t).span].state = "open"
    BY <1>2, <2>1, <2>2 DEF SdkInv, FrameInv
  <2>4. PICK s \in SpanIds : s = Sdk!Current(t).span
    BY <2>3
  <2> DEFINE takers == {p \in Processors : proc[p].state = "open" /\ ~Sdk!Full(p)}
  <2>5. /\ proc' = [p \in Processors |->
                      IF p \in takers THEN [proc[p] EXCEPT !.queue = @ \cup {s}] ELSE proc[p]]
        /\ span' = [span EXCEPT ![s].state = "ended", ![s].kept = takers # {}]
    BY <1>7, <2>4 DEF Sdk!Return
  <2>6. PICK b \in BOOLEAN : b = (takers # {})
    OBVIOUS
  <2> DEFINE r == [span[s] EXCEPT !.state = "ended", !.kept = b]
  <2>7. span' = [span EXCEPT ![s] = r]
    BY <2>5, <2>6
  <2>8. /\ r \in SpanRecord /\ r.state = "ended" /\ r.kept = b /\ r.user = span[s].user
        /\ r.want = span[s].want /\ r.heard = span[s].heard
    <3>1. span[s] \in SpanRecord
      BY DEF SdkInv, FrameInv
    <3>2. /\ r.state = "ended" /\ r.kept = b /\ r.user = span[s].user
          /\ r.want = span[s].want /\ r.heard = span[s].heard
      BY <3>1 DEF SpanRecord
    <3>3. \A c \in BOOLEAN : [span[s] EXCEPT !.state = "ended", !.kept = c] \in SpanRecord
      BY <3>1 DEF SpanRecord
    <3> QED BY <3>2, <3>3
  <2> HIDE DEF r
  <2>9. /\ span' \in [SpanIds -> SpanRecord] /\ span'[s] = r
        /\ \A y \in SpanIds \ {s} : span'[y] = span[y]
    BY <2>7, <2>8 DEF SdkInv, FrameInv
  <2>10. /\ proc' \in [Processors -> ProcRecord]
         /\ \A p \in Processors : /\ proc'[p].state = proc[p].state
                                  /\ proc'[p].sending = proc[p].sending
                                  /\ p \in takers => proc'[p].queue = proc[p].queue \cup {s}
                                  /\ p \notin takers => proc'[p].queue = proc[p].queue
         /\ \A p \in takers : p \in Processors /\ proc[p].state = "open"
    BY <2>5 DEF SdkInv, ClientInv, ProcRecord
  <2> HIDE DEF takers
  <2>17. \A p \in Processors, y \in SpanIds :
           Held(p, y)' <=> Held(p, y) \/ (y = s /\ p \in takers)
    BY <2>10 DEF Held
  <2>11. ASSUME NEW u \in Tasks, NEW i \in Nat, Calling(u, i)'
         PROVE  /\ Calling(u, i) /\ stack'[u][i] = stack[u][i]
                /\ stack'[u][i].span \in SpanIds /\ stack'[u][i].span # s
                /\ span'[stack'[u][i].span].state = "open"
    <3>1. i \in 1 .. Len(stack'[u]) /\ stack'[u][i].call
      BY <2>11 DEF Calling
    <3>2. Calling(u, i) /\ stack'[u][i] = stack[u][i] /\ ~(u = t /\ i = Len(stack[t]))
      BY <1>3, <3>1 DEF Calling
    <3>3. stack[u][i].span \in SpanIds /\ span[stack[u][i].span].state = "open"
      BY <3>2 DEF SdkInv, FrameInv
    <3>4. stack[u][i].span # s
      BY <1>2, <2>1, <2>2, <2>4, <3>2 DEF SdkInv, FrameInv
    <3> QED BY <2>9, <3>2, <3>3, <3>4
  <2>12. FrameInv'
    <3>1. \A u \in Tasks, i \in Nat :
            Calling(u, i)' => /\ stack'[u][i].span \in SpanIds
                              /\ span'[stack'[u][i].span].state = "open"
      BY <2>11 DEF Calling
    <3>2. ASSUME NEW u \in Tasks, NEW v \in Tasks, NEW i \in Nat, NEW j \in Nat,
                 Calling(u, i)', Calling(v, j)', stack'[u][i].span = stack'[v][j].span
          PROVE  u = v /\ i = j
      <4>1. Calling(u, i) /\ Calling(v, j) /\ stack[u][i].span = stack[v][j].span
        BY <2>11, <3>2
      <4> QED BY <4>1 DEF SdkInv, FrameInv
    <3> QED BY <1>2, <2>9, <3>1, <3>2 DEF FrameInv
  <2>14. ClientInv'
    <3>1. \A p \in Processors :
            /\ proc'[p].state = "open" => p = client.proc /\ client.state = "live"
            /\ proc'[p].state = "open" => proc'[p].sending["shutdown"] = {}
            /\ proc'[p].queue # {} => proc'[p].state = "open"
      BY <2>10 DEF SdkInv, ClientInv
    <3>2. client.state = "live" /\ client.enabled => proc'[client.proc].state = "open"
      <4>1. client.enabled => client.proc \in Processors
        BY DEF SdkInv, ClientInv, ClientRecord
      <4> QED BY <2>10, <4>1 DEF SdkInv, ClientInv
    <3>3. \A p \in Processors, y \in SpanIds : Held(p, y)' => p = client.proc
      BY <2>10, <2>17 DEF SdkInv, ClientInv
    <3> QED BY <1>1, <2>10, <3>1, <3>2, <3>3 DEF SdkInv, ClientInv
  <2>15. QueueInv'
    <3>1. sent[s] = 0 /\ UNCHANGED sent
      BY <1>1, <2>3, <2>4 DEF SdkInv, QueueInv
    <3>2. \A y \in SpanIds : span'[y].state # "ended" => sent'[y] = 0
      BY <2>8, <2>9, <3>1 DEF SdkInv, QueueInv
    <3>3. \A p \in Processors, y \in SpanIds :
            Held(p, y)' => span'[y].state = "ended" /\ sent'[y] = 0
      BY <2>8, <2>9, <2>17, <3>1 DEF SdkInv, QueueInv
    <3>4. ASSUME NEW y \in SpanIds, span'[y].state = "ended", span'[y].kept
          PROVE  sent'[y] > 0 \/ \E p \in Processors : Held(p, y)'
      <4>1. CASE y = s
        <5>1. takers # {}
          BY <2>6, <2>8, <2>9, <3>4, <4>1
        <5> QED BY <2>10, <2>17, <4>1, <5>1
      <4>2. CASE y # s
        <5>1. sent[y] > 0 \/ \E p \in Processors : Held(p, y)
          BY <2>9, <3>4, <4>2 DEF SdkInv, QueueInv
        <5> QED BY <2>17, <3>1, <5>1
      <4> QED BY <4>1, <4>2
    <3>5. ASSUME NEW p \in Processors, NEW y \in SpanIds, NEW by \in Sdk!Takers,
                 y \in proc'[p].sending[by]
          PROVE  /\ y \notin proc'[p].queue
                 /\ \A k \in Sdk!Takers \ {by} : y \notin proc'[p].sending[k]
      <4>1. y \in proc[p].sending[by] /\ Held(p, y)
        BY <2>10, <3>5 DEF Held
      <4>2. y # s
        BY <2>3, <2>4, <4>1 DEF SdkInv, QueueInv
      <4> QED BY <2>10, <4>1, <4>2 DEF SdkInv, QueueInv
    <3> QED BY <3>1, <3>2, <3>3, <3>4, <3>5 DEF SdkInv, QueueInv
  <2>16. FlushInv'
    <3>1. \A y \in SpanIds : span[y].state = "ended" => span'[y].state = "ended"
      BY <2>8, <2>9
    <3> QED BY <1>1, <2>10, <3>1, FlushKeeps DEF SdkInv
  <2> QED BY <2>12, <2>14, <2>15, <2>16 DEF SdkInv
<1> QED BY <1>6, <1>7

(* The timer takes a batch.                                                *)
LEMMA ExportStep ==
  ASSUME Sdk!SdkAssumption, SdkInv, NEW p \in Processors, Sdk!Export(p)
  PROVE  SdkInv'
<1>1. PICK b \in SUBSET proc[p].queue :
        proc' = [proc EXCEPT ![p].queue = @ \ b, ![p].sending["timer"] = b]
  BY DEF Sdk!Export
<1>2. /\ proc[p].state = "open" /\ proc[p].sending["timer"] = {}
      /\ UNCHANGED <<client, registered, span, stack, sent, flush>>
  BY DEF Sdk!Export
<1>3. /\ proc' \in [Processors -> ProcRecord]
      /\ proc'[p].state = proc[p].state /\ proc'[p].queue = proc[p].queue \ b
      /\ proc'[p].sending["timer"] = b
      /\ \A k \in {"flush", "shutdown"} : proc'[p].sending[k] = proc[p].sending[k]
      /\ \A q \in Processors \ {p} : proc'[q] = proc[q]
  BY <1>1 DEF SdkInv, ClientInv, ProcRecord, Sdk!Takers
<1>4. \A q \in Processors :
        /\ proc'[q].queue \cup proc'[q].sending["timer"] = proc[q].queue \cup proc[q].sending["timer"]
        /\ proc'[q].queue \cap proc'[q].sending["timer"] = {}
        /\ proc[q].sending["timer"] \subseteq proc'[q].sending["timer"]
        /\ \A k \in Sdk!Takers \ {"timer"} : proc'[q].sending[k] = proc[q].sending[k]
  <2>2. ASSUME NEW q \in Processors \ {p} PROVE proc[q].queue \cap proc[q].sending["timer"] = {}
    <3>1. proc[q].queue \subseteq SpanIds /\ "timer" \in Sdk!Takers
      BY DEF SdkInv, ClientInv, ProcRecord, Sdk!Takers
    <3> QED BY <3>1 DEF SdkInv, QueueInv
  <2>3. ASSUME NEW q \in Processors \ {p}
        PROVE  /\ proc'[q].queue \cup proc'[q].sending["timer"]
                    = proc[q].queue \cup proc[q].sending["timer"]
               /\ proc'[q].queue \cap proc'[q].sending["timer"] = {}
               /\ proc[q].sending["timer"] \subseteq proc'[q].sending["timer"]
               /\ \A k \in Sdk!Takers \ {"timer"} : proc'[q].sending[k] = proc[q].sending[k]
    BY <1>3, <2>2
  <2>4. /\ proc'[p].queue \cup proc'[p].sending["timer"]
             = proc[p].queue \cup proc[p].sending["timer"]
        /\ proc'[p].queue \cap proc'[p].sending["timer"] = {}
        /\ proc[p].sending["timer"] \subseteq proc'[p].sending["timer"]
        /\ \A k \in Sdk!Takers \ {"timer"} : proc'[p].sending[k] = proc[p].sending[k]
    BY <1>2, <1>3 DEF Sdk!Takers
  <2> QED BY <2>3, <2>4
<1>5. QueueInv' /\ \A q \in Processors, s \in SpanIds : Held(q, s)' <=> Held(q, s)
  <2>1. "timer" \in Sdk!Takers /\ UNCHANGED <<sent, span>>
    BY <1>2 DEF Sdk!Takers
  <2> QED BY <1>4, <2>1, Moved DEF SdkInv
<1>6. ClientInv'
  <2>1. \A q \in Processors : /\ proc'[q].state = proc[q].state
                              /\ proc'[q].sending["shutdown"] = proc[q].sending["shutdown"]
                              /\ proc'[q].queue \subseteq proc[q].queue
    BY <1>3
  <2>2. client.enabled => client.proc \in Processors
    BY DEF SdkInv, ClientInv, ClientRecord
  <2> QED BY <1>2, <1>3, <1>5, <2>1, <2>2 DEF SdkInv, ClientInv
<1>7. FlushInv'
  <2>1. \A q \in Processors :
          /\ \A by \in {"flush", "shutdown"} : proc[q].sending[by] \subseteq proc'[q].sending[by]
          /\ proc[q].state = "failed" => proc'[q].state = "failed"
    BY <1>3
  <2> QED BY <1>2, <2>1, FlushKeeps DEF SdkInv
<1>8. FrameInv'
  BY <1>2 DEF SdkInv, FrameInv, Calling
<1> QED BY <1>5, <1>6, <1>7, <1>8 DEF SdkInv

(* Some of a batch leaves its processor, which may fail with it.           *)
Left(p, by, b) ==
  /\ proc' \in [Processors -> ProcRecord]
  /\ proc'[p].queue = proc[p].queue /\ proc'[p].sending[by] = proc[p].sending[by] \ b
  /\ \A k \in Sdk!Takers \ {by} : proc'[p].sending[k] = proc[p].sending[k]
  /\ \A q \in Processors \ {p} : proc'[q] = proc[q]
  /\ proc'[p].state = proc[p].state \/ (by = "shutdown" /\ proc'[p].state = "failed")

LEMMA LeftBy ==
  ASSUME proc \in [Processors -> ProcRecord], NEW p \in Processors, NEW by \in Sdk!Takers, NEW b,
         \/ proc' = [proc EXCEPT ![p].sending[by] = @ \ b]
         \/ proc' = [proc EXCEPT ![p].sending[by] = @ \ b,
                                 ![p].state = IF by = "shutdown" THEN "failed" ELSE @]
  PROVE  Left(p, by, b)
<1>1. PICK r \in ProcRecord : r = proc[p]
  OBVIOUS
<1>2. PICK c \in SUBSET SpanIds : c = r.sending[by] \ b
  BY DEF ProcRecord
<1>3. PICK w \in {"unused", "open", "closed", "failed"} :
        w = IF by = "shutdown" THEN "failed" ELSE r.state
  BY DEF ProcRecord
<1>4. PICK f : f = [r.sending EXCEPT ![by] = c]
  OBVIOUS
<1>5. /\ f \in [Sdk!Takers -> SUBSET SpanIds] /\ f[by] = c
      /\ \A k \in Sdk!Takers \ {by} : f[k] = r.sending[k]
  BY <1>4 DEF ProcRecord
<1>6. PICK y : y = [r EXCEPT !.sending = f]
  OBVIOUS
<1>7. PICK z : z = [r EXCEPT !.sending = f, !.state = w]
  OBVIOUS
<1>8. /\ y \in ProcRecord /\ y.queue = r.queue /\ y.state = r.state /\ y.sending = f
      /\ z \in ProcRecord /\ z.queue = r.queue /\ z.state = w /\ z.sending = f
  BY <1>5, <1>6, <1>7 DEF ProcRecord
<1>9. proc' = [proc EXCEPT ![p] = y] \/ proc' = [proc EXCEPT ![p] = z]
  <2>1. CASE proc' = [proc EXCEPT ![p].sending[by] = @ \ b]
    BY <1>1, <1>2, <1>4, <1>6, <2>1
  <2>2. CASE proc' = [proc EXCEPT ![p].sending[by] = @ \ b,
                                  ![p].state = IF by = "shutdown" THEN "failed" ELSE @]
    BY <1>1, <1>2, <1>3, <1>4, <1>7, <2>2
  <2> QED BY <2>1, <2>2
<1>10. proc' \in [Processors -> ProcRecord] /\ \A q \in Processors \ {p} : proc'[q] = proc[q]
  BY <1>8, <1>9
<1>11. proc'[p] = y \/ proc'[p] = z
  BY <1>9
<1> QED BY <1>1, <1>2, <1>3, <1>5, <1>8, <1>10, <1>11 DEF Left

LeftSays(p, b) ==
  /\ ClientInv' /\ b \subseteq SpanIds
  /\ \A q \in Processors, s \in SpanIds : Held(q, s)' <=> Held(q, s) /\ s \notin b
  /\ \A s \in b : Held(p, s)
  /\ \A q \in Processors, s \in SpanIds, k \in Sdk!Takers :
       s \in proc'[q].sending[k] =>
         /\ s \notin proc'[q].queue
         /\ \A j \in Sdk!Takers \ {k} : s \notin proc'[q].sending[j]

LEMMA LeftHeld ==
  ASSUME SdkInv, NEW p \in Processors, NEW by \in Sdk!Takers,
         NEW b \in SUBSET proc[p].sending[by], b # {}, Left(p, by, b),
         UNCHANGED <<client, registered>>
  PROVE  LeftSays(p, b)
<1>1. /\ proc[p] \in ProcRecord /\ proc[p].sending[by] \subseteq SpanIds
      /\ \A s \in b : Held(p, s)
  BY DEF SdkInv, ClientInv, ProcRecord, Held
<1>2. b \subseteq SpanIds /\ p = client.proc
  BY <1>1 DEF SdkInv, ClientInv
<1>3. ASSUME NEW q \in Processors, NEW s \in SpanIds
      PROVE  Held(q, s)' <=> Held(q, s) /\ s \notin b
  <2>1. CASE q = p
    <3>1. CASE s \in b
      <4>1. s \notin proc[p].queue /\ \A k \in Sdk!Takers \ {by} : s \notin proc[p].sending[k]
        BY <3>1 DEF SdkInv, QueueInv
      <4> QED BY <2>1, <3>1, <4>1 DEF Left, Held
    <3>2. CASE s \notin b
      BY <2>1, <3>2 DEF Left, Held
    <3> QED BY <3>1, <3>2
  <2>2. CASE q # p
    <3>1. ~Held(q, s)
      BY <1>2, <2>2 DEF SdkInv, ClientInv
    <3> QED BY <2>2, <3>1 DEF Left, Held
  <2> QED BY <2>1, <2>2
<1>4. \A q \in Processors, s \in SpanIds, k \in Sdk!Takers :
        s \in proc'[q].sending[k] => s \in proc[q].sending[k]
  BY DEF Left
<1>5. \A q \in Processors : /\ proc'[q].queue = proc[q].queue
                            /\ proc'[q].state = proc[q].state \/ (q = p /\ by = "shutdown")
                            /\ proc'[q].state = "open" => proc[q].state = "open"
  BY DEF Left
<1>6. \A q \in Processors, s \in SpanIds, k \in Sdk!Takers :
        s \in proc'[q].sending[k] =>
          /\ s \notin proc'[q].queue
          /\ \A j \in Sdk!Takers \ {k} : s \notin proc'[q].sending[j]
  BY <1>4, <1>5 DEF SdkInv, QueueInv
<1>7. ClientInv'
  <2>1. by = "shutdown" => proc[p].state # "open"
    BY DEF SdkInv, ClientInv
  <2>2. \A q \in Processors : (proc'[q].state = "open") = (proc[q].state = "open")
    BY <2>1 DEF Left
  <2>3. client.enabled => client.proc \in Processors
    BY DEF SdkInv, ClientInv, ClientRecord
  <2>4. ASSUME NEW q \in Processors, proc'[q].state = "open"
        PROVE  proc'[q].sending["shutdown"] = {}
    <3>1. proc[q].sending["shutdown"] = {} /\ "shutdown" \in Sdk!Takers
      BY <2>2, <2>4 DEF SdkInv, ClientInv, Sdk!Takers
    <3> QED BY <3>1 DEF Left
  <2>5. proc' \in [Processors -> ProcRecord]
    BY DEF Left
  <2>6. client.state = "live" /\ client.enabled => proc'[client.proc].state = "open"
    BY <2>2, <2>3 DEF SdkInv, ClientInv
  <2>7. \A q \in Processors :
          /\ proc'[q].state = "open" => q = client.proc /\ client.state = "live"
          /\ proc'[q].queue # {} => proc'[q].state = "open"
          /\ \A s \in SpanIds : Held(q, s)' => q = client.proc
    BY <1>3, <1>5, <2>2 DEF SdkInv, ClientInv
  <2> QED BY <2>4, <2>5, <2>6, <2>7 DEF SdkInv, ClientInv
<1> QED BY <1>1, <1>2, <1>3, <1>6, <1>7 DEF LeftSays

(* A batch arrives.                                                        *)
LEMMA ArriveStep ==
  ASSUME Sdk!SdkAssumption, SdkInv, NEW p \in Processors, NEW by \in Sdk!Takers,
         Sdk!Arrive(p, by)
  PROVE  SdkInv'
<1>1. PICK b \in (SUBSET proc[p].sending[by]) \ {{}} :
        /\ proc' = [proc EXCEPT ![p].sending[by] = @ \ b]
        /\ sent' = [s \in SpanIds |-> IF s \in b THEN sent[s] + 1 ELSE sent[s]]
  BY DEF Sdk!Arrive
<1>2. UNCHANGED <<client, registered, span, stack, flush>>
  BY DEF Sdk!Arrive
<1>3. Left(p, by, b)
  BY <1>1, LeftBy DEF SdkInv, ClientInv
<1>4. /\ ClientInv' /\ b \subseteq SpanIds
      /\ \A q \in Processors, s \in SpanIds : Held(q, s)' <=> Held(q, s) /\ s \notin b
      /\ \A s \in b : Held(p, s)
      /\ \A q \in Processors, s \in SpanIds, k \in Sdk!Takers :
           s \in proc'[q].sending[k] =>
             /\ s \notin proc'[q].queue
             /\ \A j \in Sdk!Takers \ {k} : s \notin proc'[q].sending[j]
  <2>1. UNCHANGED <<client, registered>>
    BY <1>2
  <2>2. LeftSays(p, b)
    BY <1>3, <2>1, LeftHeld
  <2> QED BY <2>2 DEF LeftSays
<1>5. /\ sent' \in [SpanIds -> Nat]
      /\ \A s \in SpanIds : /\ s \in b => sent'[s] = 1 /\ span[s].state = "ended"
                            /\ s \notin b => sent'[s] = sent[s]
  <2>1. sent \in [SpanIds -> Nat] /\ \A s \in b : sent[s] = 0 /\ span[s].state = "ended"
    BY <1>4 DEF SdkInv, QueueInv
  <2> QED BY <1>1, <1>4, <2>1
<1>6. QueueInv'
  <2>1. \A s \in SpanIds : sent'[s] <= 1 /\ (span'[s].state # "ended" => sent'[s] = 0)
    BY <1>2, <1>5 DEF SdkInv, QueueInv
  <2>2. \A q \in Processors, s \in SpanIds :
          Held(q, s)' => span'[s].state = "ended" /\ sent'[s] = 0
    BY <1>2, <1>4, <1>5 DEF SdkInv, QueueInv
  <2>3. ASSUME NEW s \in SpanIds, span'[s].state = "ended", span'[s].kept
        PROVE  sent'[s] > 0 \/ \E q \in Processors : Held(q, s)'
    <3>1. CASE s \in b
      BY <1>5, <3>1
    <3>2. CASE s \notin b
      <4>1. sent[s] > 0 \/ \E q \in Processors : Held(q, s)
        BY <1>2, <2>3 DEF SdkInv, QueueInv
      <4> QED BY <1>4, <1>5, <3>2, <4>1
    <3> QED BY <3>1, <3>2
  <2> QED BY <1>4, <1>5, <2>1, <2>2, <2>3 DEF QueueInv
<1>7. FlushInv'
  <2>1. ASSUME NEW s \in flush.due, sent[s] > 0 \/ OnItsWay(s)
        PROVE  sent'[s] > 0 \/ OnItsWay(s)'
    <3>1. s \in SpanIds /\ flush.on \in Processors \cup {None}
      BY DEF SdkInv, FlushInv
    <3>2. CASE s \in b
      BY <1>5, <3>1, <3>2
    <3>3. CASE s \notin b
      <4>1. \A q \in Processors, k \in Sdk!Takers :
              s \in proc[q].sending[k] => s \in proc'[q].sending[k]
        BY <1>3, <3>3 DEF Left
      <4>2. \A q \in Processors : proc[q].state = "failed" => proc'[q].state = "failed"
        BY <1>3 DEF Left
      <4>3. {"flush", "shutdown"} \subseteq Sdk!Takers
        BY DEF Sdk!Takers
      <4>4. OnItsWay(s) => OnItsWay(s)'
        BY <1>2, <3>1, <4>1, <4>2, <4>3 DEF OnItsWay
      <4> QED BY <1>5, <2>1, <3>1, <3>3, <4>4
    <3> QED BY <3>2, <3>3
  <2>2. \A s \in flush.due : sent[s] > 0 => sent'[s] > 0
    BY <1>5 DEF SdkInv, FlushInv, QueueInv
  <2> QED BY <1>2, <2>1, <2>2 DEF SdkInv, FlushInv
<1>8. FrameInv'
  BY <1>2 DEF SdkInv, FrameInv, Calling
<1> QED BY <1>4, <1>6, <1>7, <1>8 DEF SdkInv

(* Spans that are lost change in nothing else.                             *)
LEMMA LostSpans ==
  ASSUME span \in [SpanIds -> SpanRecord], NEW b \in SUBSET SpanIds,
         span' = [s \in SpanIds |-> IF s \in b THEN [span[s] EXCEPT !.kept = FALSE] ELSE span[s]]
  PROVE  /\ span' \in [SpanIds -> SpanRecord]
         /\ \A s \in SpanIds :
              /\ span'[s].state = span[s].state /\ span'[s].user = span[s].user
              /\ span'[s].want = span[s].want /\ span'[s].heard = span[s].heard
              /\ s \in b => span'[s].kept = FALSE
              /\ s \notin b => span'[s] = span[s]
<1>1. ASSUME NEW s \in SpanIds
      PROVE  /\ span'[s] \in SpanRecord
             /\ span'[s].state = span[s].state /\ span'[s].user = span[s].user
             /\ span'[s].want = span[s].want /\ span'[s].heard = span[s].heard
             /\ s \in b => span'[s].kept = FALSE
             /\ s \notin b => span'[s] = span[s]
  <2>1. PICK r : r = [span[s] EXCEPT !.kept = FALSE]
    OBVIOUS
  <2>2. span[s] \in SpanRecord
    OBVIOUS
  <2>3. /\ r \in SpanRecord /\ r.kept = FALSE /\ r.state = span[s].state
        /\ r.user = span[s].user /\ r.want = span[s].want /\ r.heard = span[s].heard
    BY <2>1, <2>2 DEF SpanRecord
  <2>4. span'[s] = IF s \in b THEN r ELSE span[s]
    BY <2>1
  <2> QED BY <2>2, <2>3, <2>4
<1>2. DOMAIN span' = SpanIds /\ span' = [s \in SpanIds |-> span'[s]]
  OBVIOUS
<1> QED BY <1>1, <1>2

(* A batch is lost.                                                        *)
LEMMA LoseStep ==
  ASSUME Sdk!SdkAssumption, SdkInv, NEW p \in Processors, NEW by \in Sdk!Takers,
         Sdk!Lose(p, by)
  PROVE  SdkInv'
<1>1. PICK b \in (SUBSET proc[p].sending[by]) \ {{}} :
        /\ proc' = [proc EXCEPT ![p].sending[by] = @ \ b,
                                ![p].state = IF by = "shutdown" THEN "failed" ELSE @]
        /\ span' = [s \in SpanIds |->
                      IF s \in b THEN [span[s] EXCEPT !.kept = FALSE] ELSE span[s]]
  BY DEF Sdk!Lose
<1>2. /\ UNCHANGED <<client, registered, stack, sent>>
      /\ flush' = IF by = "flush" THEN [flush EXCEPT !.at = "failed"] ELSE flush
  BY DEF Sdk!Lose
<1>3. Left(p, by, b)
  BY <1>1, LeftBy DEF SdkInv, ClientInv
<1>4. /\ ClientInv' /\ b \subseteq SpanIds
      /\ \A q \in Processors, s \in SpanIds : Held(q, s)' <=> Held(q, s) /\ s \notin b
      /\ \A s \in b : Held(p, s)
      /\ \A q \in Processors, s \in SpanIds, k \in Sdk!Takers :
           s \in proc'[q].sending[k] =>
             /\ s \notin proc'[q].queue
             /\ \A j \in Sdk!Takers \ {k} : s \notin proc'[q].sending[j]
  <2>1. UNCHANGED <<client, registered>>
    BY <1>2
  <2>2. LeftSays(p, b)
    BY <1>3, <2>1, LeftHeld
  <2> QED BY <2>2 DEF LeftSays
<1>5. /\ span' \in [SpanIds -> SpanRecord]
      /\ \A s \in SpanIds : /\ span'[s].state = span[s].state
                            /\ s \in b => span'[s].kept = FALSE
                            /\ s \notin b => span'[s] = span[s]
  BY <1>1, <1>4, LostSpans DEF SdkInv, FrameInv
<1>6. QueueInv'
  <2>1. /\ sent' \in [SpanIds -> Nat]
        /\ \A s \in SpanIds : sent'[s] <= 1 /\ (span'[s].state # "ended" => sent'[s] = 0)
    BY <1>2, <1>5 DEF SdkInv, QueueInv
  <2>2. \A q \in Processors, s \in SpanIds :
          Held(q, s)' => span'[s].state = "ended" /\ sent'[s] = 0
    BY <1>2, <1>4, <1>5 DEF SdkInv, QueueInv
  <2>3. ASSUME NEW s \in SpanIds, span'[s].state = "ended", span'[s].kept
        PROVE  sent'[s] > 0 \/ \E q \in Processors : Held(q, s)'
    <3>1. s \notin b /\ span'[s] = span[s]
      BY <1>5, <2>3
    <3>2. sent[s] > 0 \/ \E q \in Processors : Held(q, s)
      BY <2>3, <3>1 DEF SdkInv, QueueInv
    <3> QED BY <1>2, <1>4, <3>1, <3>2
  <2> QED BY <1>4, <2>1, <2>2, <2>3 DEF QueueInv
<1>7. FlushInv'
  <2>0. /\ flush \in [at : {"idle", "busy", "done", "failed"}, due : SUBSET SpanIds,
                      on : Processors \cup {None}]
        /\ \A s \in flush.due : span'[s].state = "ended"
    BY <1>5 DEF SdkInv, FlushInv
  <2>1. CASE by = "flush"
    <3>1. flush' = [flush EXCEPT !.at = "failed"]
      BY <1>2, <2>1
    <3>2. /\ flush' \in [at : {"idle", "busy", "done", "failed"}, due : SUBSET SpanIds,
                         on : Processors \cup {None}]
          /\ flush'.at = "failed" /\ flush'.due = flush.due
      BY <2>0, <3>1
    <3> QED BY <2>0, <3>2 DEF FlushInv
  <2>2. CASE by # "flush"
    <3>1. flush' = flush
      BY <1>2, <2>2
    <3>2. ASSUME NEW s \in flush.due, OnItsWay(s) PROVE OnItsWay(s)'
      <4>1. {"flush", "shutdown"} \subseteq Sdk!Takers
        BY DEF Sdk!Takers
      <4>2. CASE flush.on = None
        <5>1. PICK q \in Processors : s \in proc[q].sending["flush"]
          BY <3>2, <4>2 DEF OnItsWay
        <5>2. s \in proc'[q].sending["flush"]
          BY <1>3, <2>2, <4>1, <5>1 DEF Left
        <5> QED BY <3>1, <4>2, <5>2 DEF OnItsWay
      <4>3. CASE flush.on # None
        <5>1. PICK q \in Processors : q = flush.on
          BY <2>0, <4>3
        <5>2. \/ proc[q].state = "failed" \/ s \in proc[q].sending["flush"]
              \/ s \in proc[q].sending["shutdown"]
          BY <3>2, <4>3, <5>1 DEF OnItsWay
        <5>3. proc[q].state = "failed" => proc'[q].state = "failed"
          BY <1>3 DEF Left
        <5>4. s \in proc[q].sending["flush"] => s \in proc'[q].sending["flush"]
          BY <1>3, <2>2, <4>1 DEF Left
        <5>5. s \in proc[q].sending["shutdown"] =>
                s \in proc'[q].sending["shutdown"] \/ proc'[q].state = "failed"
          <6>1. CASE by = "shutdown" /\ q = p
            BY <1>1, <6>1 DEF SdkInv, ClientInv, ProcRecord
          <6>2. CASE ~(by = "shutdown" /\ q = p)
            BY <1>3, <4>1, <6>2 DEF Left
          <6> QED BY <6>1, <6>2
        <5> QED BY <3>1, <4>3, <5>1, <5>2, <5>3, <5>4, <5>5 DEF OnItsWay
      <4> QED BY <4>2, <4>3
    <3> QED BY <1>2, <2>0, <3>1, <3>2 DEF SdkInv, FlushInv
  <2> QED BY <2>1, <2>2
<1>8. FrameInv'
  <2>1. \A t \in Tasks, i \in Nat : Calling(t, i)' <=> Calling(t, i)
    BY <1>2 DEF Calling
  <2>2. \A t \in Tasks, i \in Nat :
          Calling(t, i)' => /\ stack'[t][i].span \in SpanIds
                            /\ span'[stack'[t][i].span].state = "open"
    BY <1>2, <1>5, <2>1 DEF SdkInv, FrameInv
  <2> QED BY <1>2, <1>5, <2>1, <2>2 DEF SdkInv, FrameInv
<1> QED BY <1>4, <1>6, <1>7, <1>8 DEF SdkInv

(* All of the queues of some processors is taken.                          *)
TakenAll(P, by, e) ==
  /\ \A q \in P : /\ e[q].queue = {}
                  /\ e[q].sending[by] = proc[q].queue \cup proc[q].sending[by]
                  /\ \A k \in Sdk!Takers \ {by} : e[q].sending[k] = proc[q].sending[k]
  /\ \A q \in Processors \ P : e[q] = proc[q]

LEMMA Emptied ==
  ASSUME SdkInv, NEW P \in SUBSET Processors, NEW by \in Sdk!Takers, NEW e,
         e = Sdk!Empty(P, by)
  PROVE  /\ e \in [Processors -> ProcRecord] /\ TakenAll(P, by, e)
         /\ \A q \in P : e[q].state = proc[q].state
<1>1. ASSUME NEW q \in P
      PROVE  /\ e[q] \in ProcRecord /\ e[q].state = proc[q].state /\ e[q].queue = {}
             /\ e[q].sending[by] = proc[q].queue \cup proc[q].sending[by]
             /\ \A k \in Sdk!Takers \ {by} : e[q].sending[k] = proc[q].sending[k]
  <2>1. PICK r \in ProcRecord : r = proc[q]
    BY DEF SdkInv, ClientInv
  <2>2. PICK c : c = r.queue \cup r.sending[by]
    OBVIOUS
  <2>3. c \in SUBSET SpanIds
    BY <2>2 DEF ProcRecord
  <2>4. PICK z : z = [r EXCEPT !.queue = {}, !.sending[by] = @ \cup r.queue]
    OBVIOUS
  <2>5. /\ z \in ProcRecord /\ z.state = r.state /\ z.queue = {} /\ z.sending[by] = c
        /\ \A k \in Sdk!Takers \ {by} : z.sending[k] = r.sending[k]
    BY <2>2, <2>3, <2>4 DEF ProcRecord
  <2>6. e[q] = z
    BY <2>1, <2>4 DEF Sdk!Empty
  <2> QED BY <2>1, <2>2, <2>5, <2>6
<1>2. \A q \in Processors \ P : e[q] = proc[q]
  BY DEF Sdk!Empty
<1>3. DOMAIN e = Processors /\ e = [q \in Processors |-> e[q]]
  BY DEF Sdk!Empty
<1>4. e \in [Processors -> ProcRecord]
  BY <1>1, <1>2, <1>3 DEF SdkInv, ClientInv
<1> QED BY <1>1, <1>2, <1>4 DEF TakenAll

(* With the batches of those as they were, and theirs disjoint from the    *)
(* queues, all that is held stays held.                                    *)
LEMMA EmptiedQueues ==
  ASSUME SdkInv, NEW P \in SUBSET Processors, NEW by \in Sdk!Takers,
         UNCHANGED <<sent, span>>, NEW e, e = proc', TakenAll(P, by, e)
  PROVE  QueueInv' /\ \A q \in Processors, s \in SpanIds : Held(q, s)' <=> Held(q, s)
<1>1. ASSUME NEW q \in Processors
      PROVE  /\ proc'[q].queue \cup proc'[q].sending[by] = proc[q].queue \cup proc[q].sending[by]
             /\ proc'[q].queue \cap proc'[q].sending[by] = {}
             /\ proc[q].sending[by] \subseteq proc'[q].sending[by]
             /\ \A k \in Sdk!Takers \ {by} : proc'[q].sending[k] = proc[q].sending[k]
  <2>1. proc[q].queue \cap proc[q].sending[by] = {}
    <3>1. proc[q].queue \subseteq SpanIds
      BY DEF SdkInv, ClientInv, ProcRecord
    <3> QED BY <3>1 DEF SdkInv, QueueInv
  <2>2. CASE q \in P
    BY <2>2 DEF TakenAll
  <2>3. CASE q \notin P
    <3>1. proc'[q] = proc[q]
      BY <2>3 DEF TakenAll
    <3> QED BY <2>1, <3>1
  <2> QED BY <2>2, <2>3
<1> QED BY <1>1, Moved DEF SdkInv

(* What is owed is with the client's processor; without one, nothing is.   *)
LEMMA OwedHeld ==
  ASSUME Sdk!SdkAssumption, SdkInv, NEW s \in Sdk!Owed
  PROVE  /\ s \in SpanIds /\ span[s].state = "ended" /\ client.enabled
         /\ client.proc \in Processors
         /\ \/ s \in proc[client.proc].queue
            \/ \E by \in {"flush", "shutdown"} : s \in proc[client.proc].sending[by]
<1>1. /\ s \in SpanIds /\ span[s].state = "ended" /\ span[s].kept /\ sent[s] = 0
      /\ \A p \in Processors : s \notin proc[p].sending["timer"]
  BY DEF Sdk!Owed
<1>2. PICK p \in Processors : Held(p, s)
  BY <1>1 DEF SdkInv, QueueInv
<1>3. p = client.proc /\ client.proc # None
  BY <1>1, <1>2 DEF SdkInv, ClientInv, Sdk!SdkAssumption
<1>4. client.enabled
  BY <1>3 DEF SdkInv, ClientInv
<1>5. \/ s \in proc[p].queue \/ s \in proc[p].sending["flush"] \/ s \in proc[p].sending["shutdown"]
  BY <1>1, <1>2 DEF Held, Sdk!Takers
<1> QED BY <1>1, <1>3, <1>4, <1>5

(* A flush takes all that waits, and owes what is not with the timer.      *)
LEMMA FlushStep == ASSUME Sdk!SdkAssumption, SdkInv, Sdk!Flush PROVE SdkInv'
<1>1. /\ UNCHANGED <<span, stack, sent>>
      /\ flush' = [at |-> IF client'.enabled THEN "busy" ELSE "done", due |-> Sdk!Owed,
                   on |-> IF client.state = "closing" THEN client.proc ELSE None]
  BY DEF Sdk!Flush
<1>2. FrameInv'
  BY <1>1 DEF SdkInv, FrameInv, Calling
<1>3. /\ flush' \in [at : {"idle", "busy", "done", "failed"}, due : SUBSET SpanIds,
                     on : Processors \cup {None}]
      /\ flush'.due = Sdk!Owed /\ flush'.at = IF client'.enabled THEN "busy" ELSE "done"
      /\ flush'.on = IF client.state = "closing" THEN client.proc ELSE None
      /\ \A s \in flush'.due : span'[s].state = "ended"
  BY <1>1 DEF Sdk!Owed, SdkInv, ClientInv, ClientRecord
<1>4. CASE client.state = "none"
  <2>1. Sdk!GlobalClient(FALSE)
    BY <1>4 DEF Sdk!Flush
  <2>2. ClientInv' /\ \A p \in Processors : /\ proc'[p].queue = proc[p].queue
                                            /\ proc'[p].sending = proc[p].sending
    BY <2>1, GlobalStep DEF SdkInv
  <2>3. Sdk!Owed = {}
    BY <1>4, OwedHeld DEF SdkInv, ClientInv
  <2>4. FlushInv'
    BY <1>3, <2>3 DEF FlushInv
  <2>5. QueueInv'
    <3>1. \A p \in Processors, s \in SpanIds : Held(p, s)' <=> Held(p, s)
      BY <2>2 DEF Held
    <3>2. \A p \in Processors, s \in SpanIds, by \in Sdk!Takers :
            s \in proc'[p].sending[by] =>
              /\ s \notin proc'[p].queue
              /\ \A k \in Sdk!Takers \ {by} : s \notin proc'[p].sending[k]
      BY <2>2 DEF SdkInv, QueueInv
    <3>3. /\ sent' \in [SpanIds -> Nat]
          /\ \A s \in SpanIds : sent'[s] <= 1 /\ (span'[s].state # "ended" => sent'[s] = 0)
          /\ \A p \in Processors, s \in SpanIds :
               Held(p, s)' => span'[s].state = "ended" /\ sent'[s] = 0
          /\ \A s \in SpanIds : span'[s].state = "ended" /\ span'[s].kept =>
               sent'[s] > 0 \/ \E p \in Processors : Held(p, s)'
      BY <1>1, <3>1 DEF SdkInv, QueueInv
    <3> QED BY <3>2, <3>3 DEF QueueInv
  <2> QED BY <1>2, <2>2, <2>4, <2>5 DEF SdkInv
<1>5. CASE client.state # "none"
  <2> DEFINE P == {p \in Processors : proc[p].state = "open"}
  <2>1. proc' = Sdk!Empty(P, "flush") /\ UNCHANGED <<client, registered>>
    BY <1>5 DEF Sdk!Flush
  <2>8. PICK e : e = proc'
    OBVIOUS
  <2>2. P \in SUBSET Processors /\ "flush" \in Sdk!Takers /\ "shutdown" \in Sdk!Takers
    BY DEF Sdk!Takers
  <2>3. \A q \in Processors : q \in P <=> proc[q].state = "open"
    OBVIOUS
  <2> HIDE DEF P
  <2>9. /\ e \in [Processors -> ProcRecord] /\ TakenAll(P, "flush", e)
        /\ \A q \in P : e[q].state = proc[q].state
    BY <2>1, <2>2, <2>8, Emptied
  <2>4. /\ proc' \in [Processors -> ProcRecord]
        /\ \A q \in P : /\ proc'[q].state = proc[q].state /\ proc'[q].queue = {}
                        /\ proc'[q].sending["flush"] = proc[q].queue \cup proc[q].sending["flush"]
                        /\ \A k \in Sdk!Takers \ {"flush"} : proc'[q].sending[k] = proc[q].sending[k]
        /\ \A q \in Processors \ P : proc'[q] = proc[q]
    BY <2>8, <2>9 DEF TakenAll
  <2>5. QueueInv' /\ \A q \in Processors, s \in SpanIds : Held(q, s)' <=> Held(q, s)
    BY <1>1, <2>2, <2>8, <2>9, EmptiedQueues
  <2>6. ClientInv'
    <3>1. \A q \in Processors : /\ proc'[q].state = proc[q].state
                                /\ proc'[q].sending["shutdown"] = proc[q].sending["shutdown"]
                                /\ proc'[q].queue # {} => proc[q].queue # {}
      BY <2>2, <2>4
    <3>2. client.enabled => client.proc \in Processors
      BY DEF SdkInv, ClientInv, ClientRecord
    <3> QED BY <2>1, <2>4, <2>5, <3>1, <3>2 DEF SdkInv, ClientInv
  <2>7. FlushInv'
    <3>1. CASE ~client.enabled
      <4>1. Sdk!Owed = {}
        BY <3>1, OwedHeld
      <4> QED BY <1>3, <4>1 DEF FlushInv
    <3>2. CASE client.enabled
      <4>1. ASSUME NEW s \in Sdk!Owed PROVE OnItsWay(s)'
        <5>1. PICK p \in Processors : p = client.proc
          BY <4>1, OwedHeld
        <5>2. \/ s \in proc[p].queue \/ s \in proc[p].sending["flush"]
              \/ s \in proc[p].sending["shutdown"]
          BY <4>1, <5>1, OwedHeld
        <5>3. CASE client.state = "closing"
          <6>1. proc[p].state # "open" /\ proc[p].queue = {}
            BY <5>3 DEF SdkInv, ClientInv
          <6>2. proc'[p] = proc[p] /\ flush'.on = p /\ p # None
            BY <1>3, <2>3, <2>4, <5>1, <5>3, <6>1 DEF Sdk!SdkAssumption
          <6> QED BY <5>2, <6>1, <6>2 DEF OnItsWay
        <5>4. CASE client.state # "closing"
          <6>1. client.state = "live"
            BY <1>5, <5>4 DEF SdkInv, ClientInv, ClientRecord
          <6>2. proc[p].state = "open" /\ proc[p].sending["shutdown"] = {}
            BY <3>2, <5>1, <6>1 DEF SdkInv, ClientInv
          <6>3. s \in proc'[p].sending["flush"] /\ flush'.on = None
            BY <1>3, <2>3, <2>4, <5>2, <5>4, <6>2
          <6> QED BY <6>3 DEF OnItsWay
        <5> QED BY <5>3, <5>4
      <4>2. flush'.at = "busy"
        BY <1>3, <2>1, <3>2
      <4> QED BY <1>3, <4>1, <4>2 DEF FlushInv
    <3> QED BY <3>1, <3>2
  <2> QED BY <1>2, <2>5, <2>6, <2>7 DEF SdkInv
<1> QED BY <1>4, <1>5

(* Nothing else changes the queues, the spans and the stacks.              *)
LEMMA FlushedStep ==
  ASSUME Sdk!SdkAssumption, SdkInv, Sdk!Flushed \/ Sdk!Forget PROVE SdkInv'
<1>1. UNCHANGED <<client, registered, proc, span, stack, sent>>
  BY DEF Sdk!Flushed, Sdk!Forget
<1>2. ClientInv' /\ FrameInv' /\ QueueInv'
  <2>1. ClientInv' /\ QueueInv'
    BY <1>1 DEF SdkInv, ClientInv, QueueInv, Held
  <2>2. FrameInv'
    BY <1>1 DEF SdkInv, FrameInv, Calling
  <2> QED BY <2>1, <2>2
<1>3. FlushInv'
  <2>0. /\ flush \in [at : {"idle", "busy", "done", "failed"}, due : SUBSET SpanIds,
                      on : Processors \cup {None}]
        /\ \A s \in flush.due : span[s].state = "ended"
    BY DEF SdkInv, FlushInv
  <2>1. ASSUME flush' = [flush EXCEPT !.at = "failed"] PROVE FlushInv'
    <3>1. /\ flush' \in [at : {"idle", "busy", "done", "failed"}, due : SUBSET SpanIds,
                         on : Processors \cup {None}]
          /\ flush'.at = "failed" /\ flush'.due = flush.due
      BY <2>0, <2>1
    <3> QED BY <1>1, <2>0, <3>1 DEF FlushInv
  <2>2. ASSUME flush' = [flush EXCEPT !.at = "done"], flush.at = "busy",
               \A s \in flush.due : ~OnItsWay(s)
        PROVE  FlushInv'
    <3>1. /\ flush' \in [at : {"idle", "busy", "done", "failed"}, due : SUBSET SpanIds,
                         on : Processors \cup {None}]
          /\ flush'.at = "done" /\ flush'.due = flush.due
      BY <2>0, <2>2
    <3>2. \A s \in flush.due : sent[s] > 0
      BY <2>2 DEF SdkInv, FlushInv
    <3> QED BY <1>1, <2>0, <3>1, <3>2 DEF FlushInv
  <2>3. CASE /\ flush.at = "busy" /\ flush.on = None
             /\ \A p \in Processors : Sdk!Idle(p, {"flush"})
             /\ flush' = [flush EXCEPT !.at = "done"]
    BY <2>2, <2>3 DEF Sdk!Idle, OnItsWay
  <2>4. CASE /\ flush.at = "busy" /\ flush.on # None /\ proc[flush.on].state = "closed"
             /\ Sdk!Idle(flush.on, Sdk!Takers)
             /\ flush' = [flush EXCEPT !.at = "done"]
    BY <2>2, <2>4 DEF Sdk!Idle, Sdk!Takers, OnItsWay
  <2>5. CASE Sdk!Forget
    <3>1. flush' = [at |-> "idle", due |-> {}, on |-> None]
      BY <2>5 DEF Sdk!Forget
    <3>2. /\ flush' \in [at : {"idle", "busy", "done", "failed"}, due : SUBSET SpanIds,
                         on : Processors \cup {None}]
          /\ flush'.due = {}
      BY <3>1
    <3> QED BY <3>2 DEF FlushInv
  <2> QED BY <2>1, <2>3, <2>4, <2>5 DEF Sdk!Flushed
<1> QED BY <1>2, <1>3 DEF SdkInv

(* shutdown and the end of it.                                             *)
LEMMA ShutdownStep == ASSUME Sdk!SdkAssumption, SdkInv, Sdk!Shutdown PROVE SdkInv'
<1> DEFINE e == Sdk!Empty(Sdk!Closing, "shutdown")
<1>1. /\ client.state = "live" /\ client' = [client EXCEPT !.state = "closing"]
      /\ proc' = [p \in Processors |->
                    IF p \in Sdk!Closing THEN [e[p] EXCEPT !.state = "closed"] ELSE proc[p]]
      /\ UNCHANGED <<registered, span, stack, sent, flush>>
  BY DEF Sdk!Shutdown
<1> DEFINE P == Sdk!Closing \cap Processors
<1>2. P \in SUBSET Processors /\ "shutdown" \in Sdk!Takers /\ "flush" \in Sdk!Takers
  BY DEF Sdk!Takers
<1>3. \A p \in Processors : p \in P <=> proc[p].state = "open"
  <2>1. \A p \in Processors : proc[p].state = "open" => p = client.proc
    BY DEF SdkInv, ClientInv
  <2>2. \A p \in Processors : p = client.proc => proc[p].state = "open"
    BY <1>1 DEF SdkInv, ClientInv, Sdk!SdkAssumption
  <2> QED BY <2>1, <2>2 DEF Sdk!Closing
<1>4. PICK f : f = Sdk!Empty(P, "shutdown")
  OBVIOUS
<1>14. /\ f \in [Processors -> ProcRecord] /\ TakenAll(P, "shutdown", f)
       /\ \A q \in P : f[q].state = proc[q].state
  <2> HIDE DEF P
  <2> QED BY <1>2, <1>4, Emptied
<1>5. /\ f \in [Processors -> ProcRecord]
      /\ \A q \in P : /\ f[q].state = proc[q].state /\ f[q].queue = {}
                      /\ f[q].sending["shutdown"] = proc[q].queue \cup proc[q].sending["shutdown"]
                      /\ \A k \in Sdk!Takers \ {"shutdown"} : f[q].sending[k] = proc[q].sending[k]
      /\ \A q \in Processors \ P : f[q] = proc[q]
  BY <1>14 DEF TakenAll
<1>6. \A q \in Processors : f[q] = e[q]
  BY <1>4 DEF Sdk!Empty
<1>7. proc' = [p \in Processors |-> IF p \in P THEN [f[p] EXCEPT !.state = "closed"] ELSE proc[p]]
  BY <1>1, <1>6
<1> HIDE DEF P, e
<1>8. /\ proc' \in [Processors -> ProcRecord]
      /\ \A q \in P : /\ proc'[q].state = "closed" /\ proc'[q].queue = {}
                      /\ proc'[q].sending["shutdown"] = proc[q].queue \cup proc[q].sending["shutdown"]
                      /\ \A k \in Sdk!Takers \ {"shutdown"} : proc'[q].sending[k] = proc[q].sending[k]
      /\ \A q \in Processors \ P : proc'[q] = proc[q]
  <2>1. \A q \in Processors : f[q] \in ProcRecord
    BY <1>5
  <2>2. \A q \in P : /\ [f[q] EXCEPT !.state = "closed"] \in ProcRecord
                     /\ [f[q] EXCEPT !.state = "closed"].state = "closed"
                     /\ [f[q] EXCEPT !.state = "closed"].queue = f[q].queue
                     /\ [f[q] EXCEPT !.state = "closed"].sending = f[q].sending
    BY <1>2, <2>1 DEF ProcRecord
  <2>3. \A q \in P : proc'[q] = [f[q] EXCEPT !.state = "closed"]
    BY <1>2, <1>7
  <2>4. \A q \in Processors \ P : proc'[q] = proc[q]
    BY <1>7
  <2>5. \A q \in P : /\ proc'[q] \in ProcRecord /\ proc'[q].state = "closed"
                     /\ proc'[q].queue = f[q].queue /\ proc'[q].sending = f[q].sending
    BY <2>2, <2>3
  <2>6. proc' \in [Processors -> ProcRecord]
    BY <1>7, <2>4, <2>5 DEF SdkInv, ClientInv
  <2> QED BY <1>5, <2>4, <2>5, <2>6
<1>9. QueueInv' /\ \A q \in Processors, s \in SpanIds : Held(q, s)' <=> Held(q, s)
  <2>1. UNCHANGED <<sent, span>>
    BY <1>1
  <2>2. PICK z : z = proc'
    OBVIOUS
  <2>3. TakenAll(P, "shutdown", z)
    BY <1>8, <2>2 DEF TakenAll
  <2> QED BY <1>2, <2>1, <2>2, <2>3, EmptiedQueues
<1>10. /\ client' \in ClientRecord /\ client'.state = "closing"
       /\ client'.proc = client.proc /\ client'.enabled = client.enabled
  BY <1>1 DEF SdkInv, ClientInv, ClientRecord
<1>11. ClientInv'
  <2>1. \A q \in Processors : proc'[q].state # "open"
    BY <1>3, <1>8
  <2>2. \A q \in Processors : proc'[q].queue = {}
    <3>1. \A q \in Processors \ P : proc[q].queue = {}
      BY <1>3 DEF SdkInv, ClientInv
    <3> QED BY <1>8, <3>1
  <2>3. client'.enabled <=> client'.proc # None
    BY <1>10 DEF SdkInv, ClientInv
  <2>4. \A q \in Processors, s \in SpanIds : Held(q, s)' => q = client'.proc
    BY <1>9, <1>10 DEF SdkInv, ClientInv
  <2>5. registered' \in BOOLEAN
    BY <1>1 DEF SdkInv, ClientInv
  <2> QED BY <1>8, <1>10, <2>1, <2>2, <2>3, <2>4, <2>5 DEF ClientInv
<1>12. FrameInv'
  BY <1>1 DEF SdkInv, FrameInv, Calling
<1>13. FlushInv'
  <2>1. \A q \in Processors :
          /\ \A by \in {"flush", "shutdown"} : proc[q].sending[by] \subseteq proc'[q].sending[by]
          /\ proc[q].state = "failed" => proc'[q].state = "failed"
    BY <1>2, <1>3, <1>8
  <2> QED BY <1>1, <2>1, FlushKeeps DEF SdkInv
<1> QED BY <1>9, <1>11, <1>12, <1>13 DEF SdkInv

LEMMA ClosedStep == ASSUME Sdk!SdkAssumption, SdkInv, Sdk!Closed PROVE SdkInv'
<1>1. /\ client.state = "closing" /\ client' = Sdk!NoClient
      /\ client.proc # None => Sdk!Idle(client.proc, Sdk!Takers)
      /\ UNCHANGED <<registered, proc, span, stack, sent, flush>>
  BY DEF Sdk!Closed
<1>2. \A p \in Processors : p # None
  BY DEF Sdk!SdkAssumption
<1>3. \A p \in Processors : proc[p].state # "open" /\ proc[p].queue = {}
  BY <1>1 DEF SdkInv, ClientInv
<1>4. \A p \in Processors, s \in SpanIds : ~Held(p, s)
  <2>1. \A p \in Processors, s \in SpanIds : Held(p, s) => p = client.proc
    BY DEF SdkInv, ClientInv
  <2> QED BY <1>1, <1>2, <1>3, <2>1 DEF Held, Sdk!Idle
<1>5. ClientInv'
  <2>1. client' \in ClientRecord /\ ~client'.enabled /\ client'.proc = None
        /\ client'.state = "none"
    BY <1>1 DEF Sdk!NoClient, ClientRecord
  <2>2. \A p \in Processors, s \in SpanIds : ~Held(p, s)'
    BY <1>1, <1>4 DEF Held
  <2>3. registered' \in BOOLEAN /\ proc' \in [Processors -> ProcRecord]
        /\ \A p \in Processors : proc'[p].state # "open" /\ proc'[p].queue = {}
    BY <1>1, <1>3 DEF SdkInv, ClientInv
  <2> QED BY <2>1, <2>2, <2>3 DEF ClientInv
<1>6. FrameInv'
  BY <1>1 DEF SdkInv, FrameInv, Calling
<1>7. QueueInv' /\ FlushInv'
  BY <1>1, QueueSame DEF SdkInv
<1> QED BY <1>5, <1>6, <1>7 DEF SdkInv
-----------------------------------------------------------------------------
LEMMA SdkInit == Sdk!SdkAssumption /\ Sdk!Init => SdkInv
<1> SUFFICES ASSUME Sdk!SdkAssumption, Sdk!Init PROVE SdkInv
  OBVIOUS
<1>0. \A p \in Processors : /\ proc[p] = Sdk!Unused /\ proc[p] \in ProcRecord
                            /\ proc[p].state = "unused" /\ proc[p].queue = {}
                            /\ \A by \in Sdk!Takers : proc[p].sending[by] = {}
                            /\ \A s \in SpanIds : ~Held(p, s)
  BY DEF Sdk!Init, Sdk!Unused, ProcRecord, Held
<1>1. ClientInv
  BY <1>0 DEF Sdk!Init, ClientInv, Sdk!NoClient, ClientRecord
<1>2. \A t \in Tasks : stack[t] = <<>> /\ Len(stack[t]) = 0
  BY DEF Sdk!Init
<1>3. FrameInv
  <2>1. span \in [SpanIds -> SpanRecord]
    BY DEF Sdk!Init, SpanRecord
  <2>2. stack \in [Tasks -> Seq(Frame)]
    BY DEF Sdk!Init
  <2> QED BY <1>2, <2>1, <2>2 DEF FrameInv, Calling
<1>4. QueueInv
  BY <1>0 DEF Sdk!Init, QueueInv
<1>5. FlushInv
  BY DEF Sdk!Init, FlushInv
<1> QED BY <1>1, <1>3, <1>4, <1>5 DEF SdkInv

LEMMA SdkStep ==
  ASSUME Sdk!SdkAssumption, SdkInv, [Sdk!Next]_(Sdk!vars)
  PROVE  SdkInv'
<1>1. CASE Sdk!Initialize
  BY <1>1, InitializeStep
<1>2. CASE Sdk!Flush
  BY <1>2, FlushStep
<1>3. CASE Sdk!Flushed \/ Sdk!Forget
  BY <1>3, FlushedStep
<1>4. CASE Sdk!Shutdown
  BY <1>4, ShutdownStep
<1>5. CASE Sdk!Closed
  BY <1>5, ClosedStep
<1>6. ASSUME NEW t \in Tasks, Sdk!Call(t) PROVE SdkInv'
  BY <1>6, CallStep
<1>7. ASSUME NEW t \in Tasks, Sdk!Return(t) PROVE SdkInv'
  BY <1>7, ReturnStep
<1>8. ASSUME NEW t \in Tasks, NEW u \in Users, Sdk!UsingAttributes(t, u) PROVE SdkInv'
  BY <1>8, UsingAttributesStep
<1>9. ASSUME NEW t \in Tasks, NEW u \in Users, Sdk!UpdateCurrentTrace(t, u) PROVE SdkInv'
  BY <1>9, UpdateStep
<1>10. ASSUME NEW p \in Processors, Sdk!Export(p) PROVE SdkInv'
  BY <1>10, ExportStep
<1>11. ASSUME NEW p \in Processors, NEW by \in Sdk!Takers, Sdk!Arrive(p, by) PROVE SdkInv'
  BY <1>11, ArriveStep
<1>12. ASSUME NEW p \in Processors, NEW by \in Sdk!Takers, Sdk!Lose(p, by) PROVE SdkInv'
  BY <1>12, LoseStep
<1>13. CASE UNCHANGED Sdk!vars
  BY <1>13 DEF Sdk!vars, SdkInv, ClientInv, FrameInv, Calling, QueueInv, Held, FlushInv, OnItsWay
<1> QED BY <1>1, <1>2, <1>3, <1>4, <1>5, <1>6, <1>7, <1>8, <1>9, <1>10, <1>11, <1>12, <1>13
        DEF Sdk!Next

(* Only a call's return ends a span, and then the processor of the client  *)
(* that lives is open and takes it.                                        *)
LEMMA SpanTakenStep ==
  ASSUME Sdk!SdkAssumption, SdkInv, [Sdk!Next]_(Sdk!vars)
  PROVE  Sdk!SpanTaken
<1> SUFFICES ASSUME NEW s \in SpanIds, span[s].state = "open", span'[s].state = "ended",
                    client.state = "live", client.enabled, ~Sdk!Full(client.proc)
             PROVE  span'[s].kept
  BY DEF Sdk!SpanTaken
<1>1. \A r \in SpanIds : span[r] \in SpanRecord
  BY DEF SdkInv, FrameInv
<1>2. span'[s] # span[s]
  OBVIOUS
<1>3. span' # span
  BY <1>2
<1>4. CASE \E t \in Tasks : Sdk!Return(t)
  <2>1. PICK t \in Tasks : Sdk!Return(t)
    BY <1>4
  <2> DEFINE takers == {p \in Processors : proc[p].state = "open" /\ ~Sdk!Full(p)}
  <2>2. span' = [span EXCEPT ![Sdk!Current(t).span].state = "ended",
                             ![Sdk!Current(t).span].kept = takers # {}]
    BY <1>3, <2>1 DEF Sdk!Return
  <2>3. takers # {}
    <3>1. client.proc \in Processors /\ proc[client.proc].state = "open"
      BY DEF SdkInv, ClientInv, ClientRecord
    <3> QED BY <3>1
  <2>4. span' = [span EXCEPT ![Sdk!Current(t).span].state = "ended",
                             ![Sdk!Current(t).span].kept = TRUE]
    BY <2>2, <2>3
  <2> HIDE DEF takers
  <2>5. s = Sdk!Current(t).span
    BY <1>2, <2>4 DEF SdkInv, FrameInv
  <2>6. PICK r : r = [span[s] EXCEPT !.state = "ended", !.kept = TRUE]
    OBVIOUS
  <2>7. r.kept
    BY <1>1, <2>6 DEF SpanRecord
  <2>8. span' = [span EXCEPT ![s] = r]
    BY <2>4, <2>5, <2>6
  <2>9. span'[s] = r
    BY <2>8 DEF SdkInv, FrameInv
  <2> QED BY <2>7, <2>9
<1>5. ASSUME NEW t \in Tasks, Sdk!Call(t) PROVE FALSE
  <2>1. PICK r \in SpanIds : /\ span[r].state = "unused"
                             /\ \E v : v.state = "open" /\ span' = [span EXCEPT ![r] = v]
    BY <1>3, <1>5 DEF Sdk!Call
  <2> QED BY <1>2, <2>1 DEF SdkInv, FrameInv
<1>6. ASSUME NEW t \in Tasks, NEW u \in Users, Sdk!UpdateCurrentTrace(t, u) PROVE FALSE
  <2>1. PICK r : span' = [span EXCEPT ![r].user = u, ![r].want = u, ![r].heard = TRUE]
    BY <1>6 DEF Sdk!UpdateCurrentTrace
  <2>2. PICK v : v = [span[r] EXCEPT !.user = u, !.want = u, !.heard = TRUE]
    OBVIOUS
  <2>3. span' = [span EXCEPT ![r] = v]
    BY <2>1, <2>2
  <2>4. r = s
    BY <1>2, <2>3 DEF SdkInv, FrameInv
  <2>5. v.state = span[s].state
    BY <1>1, <2>2, <2>4 DEF SpanRecord
  <2> QED BY <2>3, <2>4, <2>5 DEF SdkInv, FrameInv
<1>7. ASSUME NEW p \in Processors, NEW by \in Sdk!Takers, Sdk!Lose(p, by) PROVE FALSE
  <2>1. PICK b : span' = [r \in SpanIds |->
                            IF r \in b THEN [span[r] EXCEPT !.kept = FALSE] ELSE span[r]]
    BY <1>7 DEF Sdk!Lose
  <2>2. PICK v : v = [span[s] EXCEPT !.kept = FALSE]
    OBVIOUS
  <2>3. v.state = span[s].state
    BY <1>1, <2>2 DEF SpanRecord
  <2>4. span'[s] = v \/ span'[s] = span[s]
    BY <2>1, <2>2
  <2> QED BY <2>3, <2>4
<1> QED BY <1>3, <1>4, <1>5, <1>6, <1>7
        DEF Sdk!Next, Sdk!vars, Sdk!Initialize, Sdk!Flush, Sdk!Flushed, Sdk!Forget,
            Sdk!Shutdown, Sdk!Closed, Sdk!UsingAttributes, Sdk!Export, Sdk!Arrive

LEMMA DeliversStep ==
  ASSUME Sdk!SdkAssumption, SdkInv, [Sdk!Next]_(Sdk!vars)
  PROVE  SdkInv' /\ Sdk!Delivers
<1>1. SdkInv'
  BY SdkStep
<1>2. Sdk!SpanTaken
  BY SpanTakenStep
<1>3. (Sdk!SentOnce /\ Sdk!FlushDelivers)'
  BY <1>1 DEF SdkInv, QueueInv, FlushInv, Sdk!SentOnce, Sdk!FlushDelivers
<1> QED BY <1>1, <1>2, <1>3 DEF Sdk!Delivers

-----------------------------------------------------------------------------
(* Then the users, where blocks nest.                                      *)
(*                                                                         *)
(* Frames and spans that heard of their block have its user.               *)
FrameSays(f) == f.heard => f.user = f.want
SpansSay == \A s \in SpanIds : span[s].heard => span[s].user = span[s].want
SaidInv ==
  /\ registered \in BOOLEAN /\ Stacked /\ span \in [SpanIds -> SpanRecord]
  /\ \A t \in Tasks : \A i \in 1 .. Len(stack[t]) : FrameSays(stack[t][i])
  /\ SpansSay

LEMMA CurrentSays ==
  ASSUME SaidInv, NEW t \in Tasks
  PROVE  Sdk!Current(t) \in Frame /\ FrameSays(Sdk!Current(t))
<1>1. CASE stack[t] = <<>>
  BY <1>1 DEF Sdk!Current, Sdk!Outermost, Frame, FrameSays
<1>2. CASE stack[t] # <<>>
  <2>1. stack[t] \in Seq(Frame)
    BY DEF SaidInv, Stacked
  <2>2. Len(stack[t]) \in 1 .. Len(stack[t])
    BY <1>2, <2>1, LenProperties, EmptySeq
  <2>3. stack[t][Len(stack[t])] \in Frame
    BY <2>1, <2>2, ElementOfSeq
  <2>4. Sdk!Current(t) = stack[t][Len(stack[t])]
    BY <1>2 DEF Sdk!Current, Sdk!Last
  <2> QED BY <2>2, <2>3, <2>4 DEF SaidInv
<1> QED BY <1>1, <1>2

(* A frame or a span that says what it heard is added.                     *)
LEMMA PushSays ==
  ASSUME SaidInv, NEW t \in Tasks, NEW f \in Frame, FrameSays(f),
         stack' = [stack EXCEPT ![t] = Append(@, f)]
  PROVE  Stacked' /\ \A u \in Tasks : \A i \in 1 .. Len(stack'[u]) : FrameSays(stack'[u][i])
<1>1. Stacked
  BY DEF SaidInv
<1>2. /\ stack' \in [Tasks -> Seq(Frame)]
      /\ Len(stack'[t]) = Len(stack[t]) + 1 /\ Len(stack[t]) \in Nat
      /\ stack'[t][Len(stack[t]) + 1] = f
      /\ \A i \in 1 .. Len(stack[t]) : stack'[t][i] = stack[t][i]
      /\ \A u \in Tasks \ {t} : stack'[u] = stack[u]
  BY <1>1, Pushed
<1>3. ASSUME NEW u \in Tasks, NEW i \in 1 .. Len(stack'[u]) PROVE FrameSays(stack'[u][i])
  <2>1. CASE u = t /\ i = Len(stack[t]) + 1
    BY <1>2, <2>1
  <2>2. CASE ~(u = t /\ i = Len(stack[t]) + 1)
    <3>1. i \in 1 .. Len(stack[u]) /\ stack'[u][i] = stack[u][i]
      BY <1>2, <2>2
    <3> QED BY <3>1 DEF SaidInv
  <2> QED BY <2>1, <2>2
<1> QED BY <1>2, <1>3 DEF Stacked

LEMMA SpanSays ==
  ASSUME SaidInv, NEW s \in SpanIds, NEW r \in SpanRecord, span' = [span EXCEPT ![s] = r],
         r.heard => r.user = r.want
  PROVE  SpansSay' /\ span' \in [SpanIds -> SpanRecord]
<1>1. /\ span' \in [SpanIds -> SpanRecord] /\ span'[s] = r
      /\ \A y \in SpanIds \ {s} : span'[y] = span[y]
  BY DEF SaidInv
<1> QED BY <1>1 DEF SaidInv, SpansSay

LEMMA Registered ==
  ASSUME SaidInv, NEW g \in BOOLEAN, Sdk!GlobalClient(g) PROVE registered' \in BOOLEAN
BY DEF SaidInv, Sdk!GlobalClient, Sdk!NewClient

LEMMA UsingSays ==
  ASSUME SaidInv, NEW t \in Tasks, NEW u \in Users, Sdk!UsingAttributes(t, u) PROVE SaidInv'
<1> DEFINE f == [Sdk!Current(t) EXCEPT !.user = IF registered THEN u ELSE @, !.want = u,
                                          !.heard = registered, !.call = FALSE]
<1>1. stack' = [stack EXCEPT ![t] = Append(@, f)] /\ UNCHANGED <<registered, span>>
  BY DEF Sdk!UsingAttributes
<1>2. Sdk!Current(t) \in Frame /\ registered \in BOOLEAN
  BY CurrentSays DEF SaidInv
<1>3. f \in Frame /\ FrameSays(f)
  BY <1>2 DEF Frame, FrameSays
<1> HIDE DEF f
<1>4. Stacked' /\ \A v \in Tasks : \A i \in 1 .. Len(stack'[v]) : FrameSays(stack'[v][i])
  BY <1>1, <1>3, PushSays
<1> QED BY <1>1, <1>2, <1>4 DEF SaidInv, SpansSay, FrameSays

LEMMA CallSays == ASSUME SaidInv, NEW t \in Tasks, Sdk!Call(t) PROVE SaidInv'
<1>1. registered' \in BOOLEAN
  BY Registered DEF Sdk!Call
<1>2. Sdk!Current(t) \in Frame /\ FrameSays(Sdk!Current(t))
  BY CurrentSays
<1>3. CASE ~registered'
  <2> DEFINE f == [Sdk!Current(t) EXCEPT !.call = FALSE]
  <2>1. stack' = [stack EXCEPT ![t] = Append(@, f)] /\ UNCHANGED span
    BY <1>3 DEF Sdk!Call
  <2>2. f \in Frame /\ FrameSays(f)
    BY <1>2 DEF Frame, FrameSays
  <2> HIDE DEF f
  <2>3. Stacked' /\ \A v \in Tasks : \A i \in 1 .. Len(stack'[v]) : FrameSays(stack'[v][i])
    BY <2>1, <2>2, PushSays
  <2> QED BY <1>1, <2>1, <2>3 DEF SaidInv, SpansSay, FrameSays
<1>4. CASE registered'
  <2>1. PICK s \in SpanIds :
          /\ span' = [span EXCEPT ![s] = [state |-> "open", user |-> Sdk!Current(t).user,
                                          want |-> Sdk!Current(t).want,
                                          heard |-> Sdk!Current(t).heard, kept |-> TRUE]]
          /\ stack' = [stack EXCEPT ![t] =
                         Append(@, [Sdk!Current(t) EXCEPT !.span = s, !.call = TRUE])]
    BY <1>4 DEF Sdk!Call
  <2> DEFINE f == [Sdk!Current(t) EXCEPT !.span = s, !.call = TRUE]
             r == [state |-> "open", user |-> Sdk!Current(t).user, want |-> Sdk!Current(t).want,
                   heard |-> Sdk!Current(t).heard, kept |-> TRUE]
  <2>2. f \in Frame /\ FrameSays(f)
    BY <1>2 DEF Frame, FrameSays
  <2>3. r \in SpanRecord /\ (r.heard => r.user = r.want)
    BY <1>2 DEF SpanRecord, Frame, FrameSays
  <2>4. stack' = [stack EXCEPT ![t] = Append(@, f)] /\ span' = [span EXCEPT ![s] = r]
    BY <2>1
  <2> HIDE DEF f, r
  <2>5. Stacked' /\ \A v \in Tasks : \A i \in 1 .. Len(stack'[v]) : FrameSays(stack'[v][i])
    BY <2>2, <2>4, PushSays
  <2>6. SpansSay' /\ span' \in [SpanIds -> SpanRecord]
    BY <2>3, <2>4, SpanSays
  <2> QED BY <1>1, <2>5, <2>6 DEF SaidInv, FrameSays
<1> QED BY <1>3, <1>4

LEMMA UpdateSays ==
  ASSUME SaidInv, NEW t \in Tasks, NEW u \in Users, Sdk!UpdateCurrentTrace(t, u) PROVE SaidInv'
<1>1. Sdk!Current(t) \in Frame /\ Sdk!Current(t).span # None
  BY CurrentSays DEF Sdk!UpdateCurrentTrace
<1>2. PICK s \in SpanIds : s = Sdk!Current(t).span
  BY <1>1 DEF Frame
<1> DEFINE r == [span[s] EXCEPT !.user = u, !.want = u, !.heard = TRUE]
<1>3. span' = [span EXCEPT ![s] = r] /\ UNCHANGED <<registered, stack>>
  BY <1>2 DEF Sdk!UpdateCurrentTrace
<1>4. r \in SpanRecord /\ r.user = r.want
  BY DEF SaidInv, SpanRecord
<1> HIDE DEF r
<1>5. SpansSay' /\ span' \in [SpanIds -> SpanRecord]
  BY <1>3, <1>4, SpanSays
<1> QED BY <1>3, <1>5 DEF SaidInv, Stacked, FrameSays

(* What is left alone, or loses spans and frames only.                     *)
LEMMA QuietSays ==
  ASSUME SaidInv, registered' \in BOOLEAN, UNCHANGED stack, span' \in [SpanIds -> SpanRecord],
         \A s \in SpanIds : /\ span'[s].state = span[s].state /\ span'[s].user = span[s].user
                            /\ span'[s].want = span[s].want /\ span'[s].heard = span[s].heard
  PROVE  SaidInv'
BY DEF SaidInv, Stacked, SpansSay, FrameSays

LEMMA ReturnSays == ASSUME SaidInv, NEW t \in Tasks, Sdk!Return(t) PROVE SaidInv'
<1>1. /\ stack[t] # <<>> /\ UNCHANGED registered
      /\ stack' = [stack EXCEPT ![t] = SubSeq(@, 1, Len(@) - 1)]
  BY DEF Sdk!Return, Sdk!Front
<1>2. Stacked
  BY DEF SaidInv
<1>3. /\ stack' \in [Tasks -> Seq(Frame)]
      /\ Len(stack[t]) \in Nat /\ Len(stack[t]) > 0
      /\ Len(stack'[t]) = Len(stack[t]) - 1
      /\ \A i \in 1 .. Len(stack[t]) - 1 : stack'[t][i] = stack[t][i]
      /\ \A u \in Tasks \ {t} : stack'[u] = stack[u]
  BY <1>1, <1>2, Popped
<1>4. ASSUME NEW u \in Tasks, NEW i \in 1 .. Len(stack'[u]) PROVE FrameSays(stack'[u][i])
  <2>1. i \in 1 .. Len(stack[u]) /\ stack'[u][i] = stack[u][i]
    BY <1>3
  <2> QED BY <2>1 DEF SaidInv
<1>5. span \in [SpanIds -> SpanRecord] /\ SpansSay
  BY DEF SaidInv
<1>6. CASE ~Sdk!Current(t).call
  <2>1. UNCHANGED span
    BY <1>6 DEF Sdk!Return
  <2> QED BY <1>1, <1>3, <1>4, <1>5, <2>1 DEF SaidInv, Stacked, SpansSay
<1>7. CASE Sdk!Current(t).call
  <2>1. PICK s : \E b \in BOOLEAN : span' = [span EXCEPT ![s].state = "ended", ![s].kept = b]
    BY <1>7 DEF Sdk!Return
  <2>6. PICK b \in BOOLEAN : span' = [span EXCEPT ![s].state = "ended", ![s].kept = b]
    BY <2>1
  <2>2. PICK r : r = [span[s] EXCEPT !.state = "ended", !.kept = b]
    OBVIOUS
  <2>3. span' = [span EXCEPT ![s] = r]
    BY <2>2, <2>6
  <2>4. CASE s \in SpanIds
    <3>1. span[s] \in SpanRecord /\ s \in SpanIds
      BY <1>5, <2>4
    <3>2. r.user = span[s].user /\ r.want = span[s].want /\ r.heard = span[s].heard
      BY <2>2, <3>1 DEF SpanRecord
    <3>3. \A c \in BOOLEAN : [span[s] EXCEPT !.state = "ended", !.kept = c] \in SpanRecord
      BY <3>1 DEF SpanRecord
    <3>4. r \in SpanRecord
      BY <2>2, <3>3
    <3>5. r.heard => r.user = r.want
      BY <1>5, <3>1, <3>2 DEF SpansSay
    <3>6. SpansSay' /\ span' \in [SpanIds -> SpanRecord]
      BY <2>3, <3>1, <3>4, <3>5, SpanSays
    <3> QED BY <1>1, <1>3, <1>4, <1>5, <3>6 DEF SaidInv, Stacked
  <2>5. CASE s \notin SpanIds
    <3>1. span' = span
      BY <1>5, <2>3, <2>5
    <3> QED BY <1>1, <1>3, <1>4, <1>5, <3>1 DEF SaidInv, Stacked, SpansSay
  <2> QED BY <2>4, <2>5
<1> QED BY <1>6, <1>7

LEMMA LoseSays ==
  ASSUME SaidInv, NEW p \in Processors, NEW by \in Sdk!Takers, Sdk!Lose(p, by) PROVE SaidInv'
<1>1. UNCHANGED <<registered, stack>> /\ span \in [SpanIds -> SpanRecord] /\ registered \in BOOLEAN
  BY DEF Sdk!Lose, SaidInv
<1>2. PICK b : span' = [s \in SpanIds |->
                          IF s \in b THEN [span[s] EXCEPT !.kept = FALSE] ELSE span[s]]
  BY DEF Sdk!Lose
<1>3. PICK c \in SUBSET SpanIds : c = b \cap SpanIds
  OBVIOUS
<1>4. span' = [s \in SpanIds |-> IF s \in c THEN [span[s] EXCEPT !.kept = FALSE] ELSE span[s]]
  BY <1>2, <1>3
<1>5. /\ span' \in [SpanIds -> SpanRecord]
      /\ \A s \in SpanIds : /\ span'[s].state = span[s].state /\ span'[s].user = span[s].user
                            /\ span'[s].want = span[s].want /\ span'[s].heard = span[s].heard
  BY <1>1, <1>4, LostSpans
<1> QED BY <1>1, <1>5, QuietSays

LEMMA InitSays == Sdk!Init => SaidInv
BY DEF Sdk!Init, SaidInv, Stacked, SpansSay, SpanRecord

LEMMA NextSays == ASSUME SaidInv, [Sdk!Next]_(Sdk!vars) PROVE SaidInv'
<1>1. span \in [SpanIds -> SpanRecord] /\ registered \in BOOLEAN
  BY DEF SaidInv
<1>2. CASE \/ Sdk!Initialize \/ Sdk!Flush \/ Sdk!Flushed \/ Sdk!Forget
           \/ Sdk!Shutdown \/ Sdk!Closed \/ UNCHANGED Sdk!vars
  <2>1. registered' \in BOOLEAN
    BY <1>1, <1>2, Registered
       DEF Sdk!Initialize, Sdk!Flush, Sdk!Flushed, Sdk!Forget, Sdk!Shutdown, Sdk!Closed, Sdk!vars
  <2>2. UNCHANGED <<span, stack>>
    BY <1>2 DEF Sdk!Initialize, Sdk!Flush, Sdk!Flushed, Sdk!Forget, Sdk!Shutdown, Sdk!Closed, Sdk!vars
  <2> QED BY <1>1, <2>1, <2>2, QuietSays
<1>3. ASSUME NEW p \in Processors, Sdk!Export(p) \/ \E by \in Sdk!Takers : Sdk!Arrive(p, by)
      PROVE  SaidInv'
  <2>1. UNCHANGED <<registered, span, stack>>
    BY <1>3 DEF Sdk!Export, Sdk!Arrive
  <2> QED BY <1>1, <2>1, QuietSays
<1> QED BY <1>2, <1>3, UsingSays, CallSays, UpdateSays, ReturnSays, LoseSays DEF Sdk!Next

(* Blocks and calls nest as deep as the bound.                             *)
DepthInv ==
  /\ bound \in Bounds /\ Stacked
  /\ \A t \in Tasks : Len(stack[t]) <= bound.depth

LEMMA DepthInit == ASSUME Sdk!SdkAssumption, Sdk!Init PROVE DepthInv
<1>1. bound \in Bounds /\ bound.depth \in Nat
  BY DEF Sdk!SdkAssumption, Sdk!Init
<1>2. Stacked /\ \A t \in Tasks : Len(stack[t]) = 0
  BY DEF Sdk!Init, Stacked
<1> QED BY <1>1, <1>2 DEF DepthInv

LEMMA PushDepth ==
  ASSUME DepthInv, NEW t \in Tasks, Sdk!SdkAssumption, Len(stack[t]) < bound.depth,
         NEW f \in Frame, stack' = [stack EXCEPT ![t] = Append(@, f)], UNCHANGED bound
  PROVE  DepthInv'
<1>1. bound.depth \in Nat
  BY DEF DepthInv, Sdk!SdkAssumption
<1>2. /\ stack' \in [Tasks -> Seq(Frame)]
      /\ Len(stack'[t]) = Len(stack[t]) + 1 /\ Len(stack[t]) \in Nat
      /\ \A u \in Tasks \ {t} : stack'[u] = stack[u]
  BY Pushed DEF DepthInv
<1>3. \A u \in Tasks : Len(stack'[u]) <= bound.depth
  BY <1>1, <1>2 DEF DepthInv
<1> QED BY <1>2, <1>3 DEF DepthInv, Stacked

LEMMA DepthStep ==
  ASSUME Sdk!SdkAssumption, SaidInv, DepthInv, [Sdk!Next]_(Sdk!vars) PROVE DepthInv'
<1>1. UNCHANGED bound
  BY DEF Sdk!Next, Sdk!vars, Sdk!Initialize, Sdk!Acted, Sdk!Flush, Sdk!Flushed, Sdk!Forget,
         Sdk!Shutdown, Sdk!Closed, Sdk!Call, Sdk!Return, Sdk!UsingAttributes,
         Sdk!UpdateCurrentTrace, Sdk!Export, Sdk!Arrive, Sdk!Lose
<1>2. CASE UNCHANGED stack
  BY <1>1, <1>2 DEF DepthInv, Stacked
<1>3. ASSUME NEW t \in Tasks, Sdk!Call(t) PROVE DepthInv'
  <2>1. Sdk!Current(t) \in Frame
    BY CurrentSays
  <2>2. CASE registered'
    <3>1. PICK s \in SpanIds :
            stack' = [stack EXCEPT ![t] = Append(@, [Sdk!Current(t) EXCEPT !.span = s, !.call = TRUE])]
      BY <1>3, <2>2 DEF Sdk!Call
    <3>2. PICK f : f = [Sdk!Current(t) EXCEPT !.span = s, !.call = TRUE]
      OBVIOUS
    <3>3. f \in Frame
      BY <2>1, <3>2 DEF Frame
    <3>4. stack' = [stack EXCEPT ![t] = Append(@, f)] /\ Len(stack[t]) < bound.depth
      BY <1>3, <3>1, <3>2 DEF Sdk!Call
    <3> QED BY <1>1, <3>3, <3>4, PushDepth
  <2>3. CASE ~registered'
    <3>2. PICK f : f = [Sdk!Current(t) EXCEPT !.call = FALSE]
      OBVIOUS
    <3>3. f \in Frame
      BY <2>1, <3>2 DEF Frame
    <3>4. stack' = [stack EXCEPT ![t] = Append(@, f)] /\ Len(stack[t]) < bound.depth
      BY <1>3, <2>3, <3>2 DEF Sdk!Call
    <3> QED BY <1>1, <3>3, <3>4, PushDepth
  <2> QED BY <2>2, <2>3
<1>4. ASSUME NEW t \in Tasks, NEW u \in Users, Sdk!UsingAttributes(t, u) PROVE DepthInv'
  <2>1. Sdk!Current(t) \in Frame /\ registered \in BOOLEAN
    BY CurrentSays DEF SaidInv
  <2>2. PICK f : f = [Sdk!Current(t) EXCEPT !.user = IF registered THEN u ELSE @, !.want = u,
                                            !.heard = registered, !.call = FALSE]
    OBVIOUS
  <2>3. f \in Frame
    BY <2>1, <2>2 DEF Frame
  <2>4. stack' = [stack EXCEPT ![t] = Append(@, f)] /\ Len(stack[t]) < bound.depth
    BY <1>4, <2>2 DEF Sdk!UsingAttributes
  <2> QED BY <1>1, <2>3, <2>4, PushDepth
<1>5. ASSUME NEW t \in Tasks, Sdk!Return(t) PROVE DepthInv'
  <2>1. stack[t] # <<>> /\ stack' = [stack EXCEPT ![t] = SubSeq(@, 1, Len(@) - 1)]
    BY <1>5 DEF Sdk!Return, Sdk!Front
  <2>2. /\ stack' \in [Tasks -> Seq(Frame)]
        /\ Len(stack[t]) \in Nat /\ Len(stack'[t]) = Len(stack[t]) - 1
        /\ \A u \in Tasks \ {t} : stack'[u] = stack[u]
    BY <2>1, Popped DEF DepthInv
  <2>3. bound.depth \in Nat
    BY DEF DepthInv, Sdk!SdkAssumption
  <2>4. \A u \in Tasks : Len(stack'[u]) <= bound.depth
    BY <2>2, <2>3 DEF DepthInv
  <2> QED BY <1>1, <2>2, <2>4 DEF DepthInv, Stacked
<1> QED BY <1>2, <1>3, <1>4, <1>5
        DEF Sdk!Next, Sdk!vars, Sdk!Initialize, Sdk!Flush, Sdk!Flushed, Sdk!Forget, Sdk!Shutdown,
            Sdk!Closed, Sdk!UpdateCurrentTrace, Sdk!Export, Sdk!Arrive, Sdk!Lose

LEMMA SdkTypes == ASSUME SdkInv, DepthInv PROVE Sdk!TypeOK
<1>1. /\ client \in [state : {"none", "live", "closing"}, given : BOOLEAN, enabled : BOOLEAN,
                     proc : Processors \cup {None}, owns : BOOLEAN]
      /\ registered \in BOOLEAN
      /\ proc \in [Processors -> [state : {"unused", "open", "closed", "failed"},
                                queue : SUBSET SpanIds,
                                sending : [Sdk!Takers -> SUBSET SpanIds]]]
      /\ {p \in Processors : proc[p].state = "open"} \subseteq {client.proc}
  BY DEF SdkInv, ClientInv, ClientRecord, ProcRecord
<1>2. /\ flush.at \in {"idle", "busy", "done", "failed"} /\ flush.due \subseteq SpanIds
      /\ flush.on \in Processors \cup {None}
  BY DEF SdkInv, FlushInv
<1> QED BY <1>1, <1>2 DEF Sdk!TypeOK, DepthInv

-----------------------------------------------------------------------------
(* Folds over finite sets are functions defined by recursion over subsets. *)
LEMMA LeastSubset ==
  ASSUME NEW U, IsFiniteSet(U), NEW X \in SUBSET (SUBSET U), X # {}
  PROVE  \E T \in X : \A R \in X : R \subseteq T => R = T
<1>1. IsWellFoundedOn(StrictSubsetOrdering(U), FiniteSubsetsOf(U))
  BY FS_StrictSubsetOrderingWellFounded
<1>2. X \subseteq FiniteSubsetsOf(U)
  BY FS_Subset DEF FiniteSubsetsOf
<1>3. PICK T \in X : \A R \in X : <<R, T>> \notin StrictSubsetOrdering(U)
  BY <1>1, <1>2, WFMin
<1>4. ASSUME NEW R \in X, R \subseteq T, R # T PROVE FALSE
  BY <1>3, <1>4 DEF StrictSubsetOrdering
<1> QED BY <1>4

(* Each subset of a finite set is in F when those within it are.           *)
LEMMA SubsetInduction ==
  ASSUME NEW U, IsFiniteSet(U), NEW F,
         \A T \in SUBSET U : (\A R \in SUBSET T : R # T => R \in F) => T \in F
  PROVE  \A T \in SUBSET U : T \in F
<1> DEFINE X == {T \in SUBSET U : T \notin F}
<1> SUFFICES ASSUME X # {} PROVE FALSE
  OBVIOUS
<1>1. PICK T \in X : \A R \in X : R \subseteq T => R = T
  <2>1. X \in SUBSET (SUBSET U)
    OBVIOUS
  <2> HIDE DEF X
  <2> QED BY <2>1, LeastSubset
<1>2. ASSUME NEW R \in SUBSET T, R # T PROVE R \in F
  BY <1>1, <1>2
<1> QED BY <1>1, <1>2

LEMMA NaturalInduction ==
  ASSUME NEW S, 0 \in S, \A n \in Nat : n \in S => n + 1 \in S PROVE \A n \in Nat : n \in S
<1> SUFFICES ASSUME NEW n \in Nat PROVE n \in S
  OBVIOUS
<1> DEFINE F == {T \in SUBSET (1 .. n) : Cardinality(T) \in S}
<1>1. IsFiniteSet(1 .. n) /\ Cardinality(1 .. n) = n
  BY FS_Interval
<1>2. ASSUME NEW T \in SUBSET (1 .. n), \A R \in SUBSET T : R # T => R \in F PROVE T \in F
  <2>1. CASE T = {}
    BY <2>1, FS_EmptySet
  <2>2. CASE T # {}
    <3>1. PICK x \in T : TRUE
      BY <2>2
    <3>2. T \ {x} \in F
      BY <1>2, <3>1
    <3>3. IsFiniteSet(T) /\ IsFiniteSet(T \ {x})
      BY <1>1, FS_Subset
    <3>4. Cardinality(T \ {x}) = Cardinality(T) - 1 /\ Cardinality(T) \in Nat
          /\ Cardinality(T \ {x}) \in Nat
      BY <3>1, <3>3, FS_RemoveElement, FS_CardinalityType
    <3> QED BY <3>2, <3>4
  <2> QED BY <2>1, <2>2
<1>3. \A T \in SUBSET (1 .. n) : T \in F
  <2> HIDE DEF F
  <2> QED BY <1>1, <1>2, SubsetInduction
<1> QED BY <1>1, <1>3

Folding(g, W, base, pick, step) ==
  \A s \in W : g[s] = IF s = {} THEN base ELSE step[pick[s]][g[s \ {pick[s]}]]

(* The subsets of U with at most n elements.                               *)
Upto(U, n) == {s \in SUBSET U : Cardinality(s) <= n}

LEMMA OneLess ==
  ASSUME NEW s, IsFiniteSet(s), NEW x \in s
  PROVE  Cardinality(s \ {x}) = Cardinality(s) - 1 /\ Cardinality(s) \in Nat
BY FS_RemoveElement, FS_CardinalityType

LEMMA AllOfThem ==
  ASSUME NEW U, IsFiniteSet(U) PROVE Upto(U, Cardinality(U)) = SUBSET U
BY FS_Subset DEF Upto

LEMMA FoldGoesOn ==
  ASSUME NEW U, IsFiniteSet(U), NEW V, NEW base \in V,
         NEW pick \in [SUBSET U -> U \cup {U}], \A s \in SUBSET U : s # {} => pick[s] \in s,
         NEW step \in [U -> [V -> V]], NEW n \in Nat,
         NEW g \in [SUBSET U -> V], Folding(g, Upto(U, n), base, pick, step)
  PROVE  \E h \in [SUBSET U -> V] : Folding(h, Upto(U, n + 1), base, pick, step)
<1> DEFINE Of(s) == IF s = {} THEN base ELSE step[pick[s]][g[s \ {pick[s]}]]
           h == [s \in SUBSET U |-> Of(s)]
<1>1. ASSUME NEW s \in SUBSET U PROVE Of(s) \in V
  <2>1. CASE s = {}
    BY <2>1
  <2>2. CASE s # {}
    <3>1. pick[s] \in U /\ s \ {pick[s]} \in SUBSET U
      BY <2>2
    <3>2. step[pick[s]] \in [V -> V] /\ g[s \ {pick[s]}] \in V
      BY <3>1
    <3>3. step[pick[s]][g[s \ {pick[s]}]] \in V
      BY <3>2
    <3> QED BY <2>2, <3>3
  <2> QED BY <2>1, <2>2
<1>2. h \in [SUBSET U -> V]
  <2> HIDE DEF Of
  <2> QED BY <1>1
<1>3. ASSUME NEW s \in Upto(U, n + 1), s # {}
      PROVE  h[s \ {pick[s]}] = g[s \ {pick[s]}]
  <2>1. s \in SUBSET U /\ Cardinality(s) <= n + 1
    BY DEF Upto
  <2>2. pick[s] \in s /\ IsFiniteSet(s)
    BY <1>3, <2>1, FS_Subset
  <2>3. Cardinality(s \ {pick[s]}) = Cardinality(s) - 1 /\ Cardinality(s) \in Nat
    BY <2>2, OneLess
  <2> DEFINE r == s \ {pick[s]}
  <2>4. r \in Upto(U, n)
    BY <2>1, <2>3 DEF Upto
  <2>5. r \in SUBSET U /\ h[r] = Of(r)
    <3>1. r \in SUBSET U
      BY <2>1
    <3> HIDE DEF r, Of
    <3> QED BY <3>1
  <2>6. g[r] = Of(r)
    <3> HIDE DEF r
    <3> QED BY <2>4 DEF Folding
  <2> HIDE DEF h, Of
  <2> QED BY <2>5, <2>6
<1>4. ASSUME NEW s \in Upto(U, n + 1)
      PROVE  h[s] = IF s = {} THEN base ELSE step[pick[s]][h[s \ {pick[s]}]]
  <2>1. s \in SUBSET U
    BY DEF Upto
  <2>2. h[s] = Of(s)
    <3> HIDE DEF Of
    <3> QED BY <2>1
  <2> HIDE DEF h
  <2> QED BY <1>3, <2>2
<1> HIDE DEF h, Of
<1> QED BY <1>2, <1>4 DEF Folding

LEMMA FoldIsThere ==
  ASSUME NEW U, IsFiniteSet(U), NEW V, NEW base \in V,
         NEW pick \in [SUBSET U -> U \cup {U}], \A s \in SUBSET U : s # {} => pick[s] \in s,
         NEW step \in [U -> [V -> V]]
  PROVE  \E g \in [SUBSET U -> V] : Folding(g, SUBSET U, base, pick, step)
<1> DEFINE S == {n \in Nat : \E g \in [SUBSET U -> V] : Folding(g, Upto(U, n), base, pick, step)}
<1>1. 0 \in S
  <2>1. [s \in SUBSET U |-> base] \in [SUBSET U -> V]
    OBVIOUS
  <2>2. ASSUME NEW s \in Upto(U, 0) PROVE s = {} /\ s \in SUBSET U
    <3>1. s \in SUBSET U /\ Cardinality(s) <= 0
      BY DEF Upto
    <3>2. IsFiniteSet(s)
      BY <3>1, FS_Subset
    <3>3. Cardinality(s) \in Nat /\ (Cardinality(s) = 0 <=> s = {})
      BY <3>2, FS_CardinalityType, FS_EmptySet
    <3> QED BY <3>1, <3>3
  <2>3. Folding([s \in SUBSET U |-> base], Upto(U, 0), base, pick, step)
    BY <2>2 DEF Folding
  <2> QED BY <2>1, <2>3
<1>2. ASSUME NEW n \in Nat, n \in S PROVE n + 1 \in S
  <2>1. PICK g \in [SUBSET U -> V] : Folding(g, Upto(U, n), base, pick, step)
    BY <1>2
  <2>2. \E h \in [SUBSET U -> V] : Folding(h, Upto(U, n + 1), base, pick, step)
    BY <2>1, FoldGoesOn
  <2> QED BY <2>2
<1>3. Cardinality(U) \in S
  <2>1. Cardinality(U) \in Nat
    BY FS_CardinalityType
  <2> HIDE DEF S
  <2> QED BY <1>1, <1>2, <2>1, NaturalInduction
<1>4. PICK g \in [SUBSET U -> V] : Folding(g, Upto(U, Cardinality(U)), base, pick, step)
  BY <1>3
<1>5. Upto(U, Cardinality(U)) = SUBSET U
  BY AllOfThem
<1> QED BY <1>4, <1>5 DEF Folding

-----------------------------------------------------------------------------
(* Sums: the last argument says what each element counts.                  *)
SumRule(g, U, f) ==
  \A s \in SUBSET U : g[s] = IF s = {} THEN 0
                             ELSE LET x == CHOOSE y \in s : TRUE IN f[x] + g[s \ {x}]
Summing(g, U, f) == g \in [SUBSET U -> Nat] /\ SumRule(g, U, f)

LEMMA SumIsThere ==
  ASSUME NEW U, IsFiniteSet(U), NEW f \in [U -> Nat] PROVE \E g : Summing(g, U, f)
<1> DEFINE pick == [s \in SUBSET U |-> IF s = {} THEN U ELSE CHOOSE y \in s : TRUE]
           step == [x \in U |-> [v \in Nat |-> f[x] + v]]
<1>0. ASSUME NEW s \in SUBSET U, s # {} PROVE (CHOOSE y \in s : TRUE) \in s
  BY <1>0
<1>1. /\ pick \in [SUBSET U -> U \cup {U}]
      /\ \A s \in SUBSET U : s # {} => pick[s] \in s
  BY <1>0
<1>2. step \in [U -> [Nat -> Nat]]
  OBVIOUS
<1>3. \E g \in [SUBSET U -> Nat] : Folding(g, SUBSET U, 0, pick, step)
  <2> HIDE DEF pick, step
  <2> QED BY <1>1, <1>2, FoldIsThere
<1>4. PICK g \in [SUBSET U -> Nat] : Folding(g, SUBSET U, 0, pick, step)
  BY <1>3
<1>5. ASSUME NEW s \in SUBSET U, s # {}
      PROVE  LET x == CHOOSE y \in s : TRUE IN g[s] = f[x] + g[s \ {x}]
  <2>1. PICK x : x = CHOOSE y \in s : TRUE
    OBVIOUS
  <2>2. x \in U /\ pick[s] = x
    BY <1>0, <1>5, <2>1
  <2>3. g[s] = step[pick[s]][g[s \ {pick[s]}]]
    <3> HIDE DEF pick, step
    <3> QED BY <1>4, <1>5 DEF Folding
  <2>4. g[s] = step[x][g[s \ {x}]] /\ g[s \ {x}] \in Nat
    <3> HIDE DEF pick, step
    <3> QED BY <2>2, <2>3
  <2>5. step[x][g[s \ {x}]] = f[x] + g[s \ {x}]
    BY <2>2, <2>4
  <2> HIDE DEF pick, step
  <2> QED BY <2>1, <2>4, <2>5
<1>6. g[{}] = 0
  <2> HIDE DEF pick, step
  <2> QED BY <1>4 DEF Folding
<1> HIDE DEF pick, step
<1> QED BY <1>4, <1>5, <1>6 DEF Summing, SumRule

SumTaken(g, U, f) == \A s \in SUBSET U : \A x \in s : g[s] = f[x] + g[s \ {x}]

(* The order in which a sum takes its elements does not matter.            *)
LEMMA SumTakesOut ==
  ASSUME NEW U, IsFiniteSet(U), NEW f \in [U -> Nat], NEW g, Summing(g, U, f)
  PROVE  SumTaken(g, U, f)
<1> DEFINE F == {s \in SUBSET U : \A x \in s : g[s] = f[x] + g[s \ {x}]}
<1>1. ASSUME NEW s \in SUBSET U, \A r \in SUBSET s : r # s => r \in F PROVE s \in F
  <2> SUFFICES ASSUME NEW x \in s PROVE g[s] = f[x] + g[s \ {x}]
    OBVIOUS
  <2>1. PICK c \in s : g[s] = f[c] + g[s \ {c}]
    <3>1. (CHOOSE y \in s : TRUE) \in s
      OBVIOUS
    <3> QED BY <3>1 DEF Summing, SumRule
  <2>2. CASE c = x
    BY <2>1, <2>2
  <2>3. CASE c # x
    <3>1. s \ {c} \in F /\ s \ {x} \in F
      BY <1>1
    <3>2. g[s \ {c}] = f[x] + g[(s \ {c}) \ {x}] /\ g[s \ {x}] = f[c] + g[(s \ {x}) \ {c}]
      BY <2>3, <3>1
    <3>3. (s \ {c}) \ {x} = (s \ {x}) \ {c}
      OBVIOUS
    <3>4. f[x] \in Nat /\ f[c] \in Nat /\ g[(s \ {x}) \ {c}] \in Nat
      BY DEF Summing, SumRule
    <3> QED BY <2>1, <3>2, <3>3, <3>4
  <2> QED BY <2>2, <2>3
<1>2. \A s \in SUBSET U : s \in F
  <2> HIDE DEF F
  <2> QED BY <1>1, SubsetInduction
<1> QED BY <1>2 DEF SumTaken

LEMMA SumSplits ==
  ASSUME NEW U, IsFiniteSet(U), NEW f \in [U -> Nat], NEW g, Summing(g, U, f),
         NEW A \in SUBSET U
  PROVE  \A B \in SUBSET U : A \cap B = {} => g[A \cup B] = g[A] + g[B]
<1> DEFINE F == {B \in SUBSET U : A \cap B = {} => g[A \cup B] = g[A] + g[B]}
<1>1. ASSUME NEW B \in SUBSET U, \A R \in SUBSET B : R # B => R \in F PROVE B \in F
  <2> SUFFICES ASSUME A \cap B = {} PROVE g[A \cup B] = g[A] + g[B]
    OBVIOUS
  <2>1. CASE B = {}
    <3>1. g[{}] = 0 /\ g[A] \in Nat /\ A \cup {} = A
      BY DEF Summing, SumRule
    <3> QED BY <2>1, <3>1
  <2>2. CASE B # {}
    <3>1. PICK x \in B : TRUE
      BY <2>2
    <3>2. g[B] = f[x] + g[B \ {x}] /\ g[A \cup B] = f[x] + g[(A \cup B) \ {x}]
      BY <3>1, SumTakesOut DEF SumTaken
    <3>3. (A \cup B) \ {x} = A \cup (B \ {x})
      BY <3>1
    <3>4. g[A \cup (B \ {x})] = g[A] + g[B \ {x}]
      <4>1. B \ {x} \in F /\ A \cap (B \ {x}) = {}
        BY <1>1, <3>1
      <4> QED BY <4>1
    <3>5. f[x] \in Nat /\ g[A] \in Nat /\ g[B \ {x}] \in Nat
      BY <3>1 DEF Summing, SumRule
    <3> QED BY <3>2, <3>3, <3>4, <3>5
  <2> QED BY <2>1, <2>2
<1>2. \A B \in SUBSET U : B \in F
  <2> HIDE DEF F
  <2> QED BY <1>1, SubsetInduction
<1> QED BY <1>2

(* A sum over a part of a set is the same wherever the part is taken from. *)
LEMMA SumIsOne ==
  ASSUME NEW U, IsFiniteSet(U), NEW f \in [U -> Nat], NEW g, Summing(g, U, f),
         NEW K \in SUBSET U, NEW h, SumRule(h, K, f)
  PROVE  h[K] = g[K]
<1> DEFINE F == {s \in SUBSET K : h[s] = g[s]}
<1>1. ASSUME NEW s \in SUBSET K, \A r \in SUBSET s : r # s => r \in F PROVE s \in F
  <2>1. CASE s = {}
    BY <2>1 DEF Summing, SumRule
  <2>2. CASE s # {}
    <3>1. PICK x : x = CHOOSE y \in s : TRUE
      OBVIOUS
    <3>2. x \in s
      BY <2>2, <3>1
    <3>3. h[s \ {x}] = g[s \ {x}]
      BY <1>1, <3>2
    <3>4. g[s] = f[x] + g[s \ {x}]
      BY <2>2, <3>1 DEF Summing, SumRule
    <3>5. h[s] = f[x] + h[s \ {x}]
      BY <2>2, <3>1 DEF SumRule
    <3> QED BY <3>3, <3>4, <3>5
  <2> QED BY <2>1, <2>2
<1>2. \A s \in SUBSET K : s \in F
  <2>1. IsFiniteSet(K)
    BY FS_Subset
  <2> HIDE DEF F
  <2> QED BY <1>1, <2>1, SubsetInduction
<1> QED BY <1>2

-----------------------------------------------------------------------------
(* Then a batch.  Where a fold over its spans has got to is told by what   *)
(* was said before: the root that was the last to make a row, the users    *)
(* that roots and children name.                                           *)
RowRecord == [name : (Batch!Root \ Batch!Broken) \cup {None}, user : Users \cup {None}]
Acc == [attrs : [Batch!TraceId -> Users \cup {None}], rows : [Batch!TraceId -> RowRecord]]
Blank == [attrs |-> [t \in Batch!TraceId |-> None], rows |-> [t \in Batch!TraceId |-> Batch!NoRow]]

Given == Batch!OtelTransformAssumption /\ forest \in Families /\ user \in [Batch!Span -> Users \cup {None}]

RootsOf(b, i, t) == {j \in 1 .. i : Batch!Trace[b[j]] = t /\ b[j] \in Batch!Root \ Batch!Broken}
NamingRoots(b, i, t) == {j \in RootsOf(b, i, t) : user[b[j]] # None}
NamingKids(b, i, t) ==
  {j \in 1 .. i : Batch!Trace[b[j]] = t /\ b[j] \in (Batch!Span \ Batch!Root) \ Batch!Broken
                                        /\ user[b[j]] # None}

(* The user that the first i spans of b leave for trace t.                 *)
UserSaid(u, b, i, t) ==
  \/ NamingRoots(b, i, t) = {} /\ NamingKids(b, i, t) = {} /\ u = None
  \/ /\ NamingRoots(b, i, t) = {}
     /\ \E j \in NamingKids(b, i, t) : u = user[b[j]] /\ \A k \in NamingKids(b, i, t) : j <= k
  \/ \E j \in NamingRoots(b, i, t) : u = user[b[j]] /\ \A k \in NamingRoots(b, i, t) : k <= j

NameSaid(n, b, i, t) ==
  \/ RootsOf(b, i, t) = {} /\ n = None
  \/ \E j \in RootsOf(b, i, t) : n = b[j] /\ \A k \in RootsOf(b, i, t) : k <= j

FoldSays(acc, b, i) ==
  \A t \in Batch!TraceId :
    /\ UserSaid(acc.attrs[t], b, i, t) /\ NameSaid(acc.rows[t].name, b, i, t)
    /\ acc.rows[t].user \in {None, acc.attrs[t]}
    /\ acc.rows[t].name = None => acc.rows[t] = Batch!NoRow

RowSays(r, b, n, t) ==
  /\ r \in RowRecord /\ NameSaid(r.name, b, n, t)
  /\ r.name = None => r = Batch!NoRow
  /\ r.name # None => UserSaid(r.user, b, n, t)

-----------------------------------------------------------------------------
LEMMA MaxIsIn ==
  ASSUME NEW n \in Nat
  PROVE  \A S \in SUBSET (1 .. n) : S # {} => Batch!Max(S) \in S /\ \A x \in S : x <= Batch!Max(S)
<1> DEFINE F == {S \in SUBSET (1 .. n) : S # {} => \E m \in S : \A x \in S : x <= m}
<1>1. ASSUME NEW S \in SUBSET (1 .. n), \A R \in SUBSET S : R # S => R \in F PROVE S \in F
  <2> SUFFICES ASSUME S # {} PROVE \E m \in S : \A x \in S : x <= m
    OBVIOUS
  <2>1. PICK y \in S : TRUE
    OBVIOUS
  <2>2. S \ {y} \in F
    BY <1>1, <2>1
  <2>3. CASE S \ {y} = {}
    BY <2>1, <2>3
  <2>4. CASE S \ {y} # {}
    <3>1. PICK m \in S \ {y} : \A x \in S \ {y} : x <= m
      BY <2>2, <2>4
    <3>2. CASE y <= m
      BY <3>1, <3>2
    <3>3. CASE m < y
      <4>1. \A x \in S : x <= y
        BY <3>1, <3>3
      <4> QED BY <2>1, <4>1
    <3> QED BY <2>1, <3>1, <3>2, <3>3
  <2> QED BY <2>3, <2>4
<1>2. \A S \in SUBSET (1 .. n) : S \in F
  <2>1. IsFiniteSet(1 .. n)
    BY FS_Interval
  <2> HIDE DEF F
  <2> QED BY <1>1, <2>1, SubsetInduction
<1>3. ASSUME NEW S \in SUBSET (1 .. n), S # {}
      PROVE  Batch!Max(S) \in S /\ \A x \in S : x <= Batch!Max(S)
  <2>1. PICK m \in S : \A x \in S : m >= x
    BY <1>2, <1>3
  <2>2. Batch!Max(S) \in S /\ \A x \in S : Batch!Max(S) >= x
    BY <2>1 DEF Batch!Max
  <2> QED BY <2>2
<1> QED BY <1>3

LEMMA TraceTypes ==
  ASSUME Given
  PROVE  /\ \A s \in Batch!Span : Batch!Trace[s] \in Batch!TraceId
         /\ None \notin Batch!Span /\ None \notin Users
         /\ Batch!Root \subseteq Batch!Span /\ Batch!Broken \subseteq Batch!Span
BY DEF Given, Batch!OtelTransformAssumption, Batch!Span, Batch!Trace, Batch!Root, Batch!Broken,
       Batch!TraceId

LEMMA BlankType == Blank \in Acc
<1>1. Batch!NoRow \in RowRecord
  BY DEF Batch!NoRow, RowRecord
<1> QED BY <1>1 DEF Blank, Acc

LEMMA TurnType ==
  ASSUME Given, NEW acc \in Acc, NEW s \in Batch!Span PROVE Batch!Turn(acc, s) \in Acc
<1>1. CASE s \in Batch!Broken
  BY <1>1 DEF Batch!Turn
<1>2. CASE s \notin Batch!Broken
  <2> DEFINE u == Batch!Collected(acc.attrs, s)
             a == [acc.attrs EXCEPT ![Batch!Trace[s]] = u]
             r == IF Batch!MakesRow(s)
                  THEN [acc.rows EXCEPT ![Batch!Trace[s]] = [name |-> s, user |-> u]]
                  ELSE acc.rows
  <2>1. acc.attrs \in [Batch!TraceId -> Users \cup {None}]
        /\ acc.rows \in [Batch!TraceId -> RowRecord] /\ Batch!Trace[s] \in Batch!TraceId
    BY TraceTypes DEF Acc
  <2>2. u \in Users \cup {None}
    BY <2>1 DEF Batch!Collected, Batch!Or, Given
  <2> HIDE DEF u
  <2>3. a \in [Batch!TraceId -> Users \cup {None}]
    BY <2>1, <2>2
  <2>4. r \in [Batch!TraceId -> RowRecord]
    <3>1. Batch!MakesRow(s) => [name |-> s, user |-> u] \in RowRecord
      BY <1>2, <2>2 DEF Batch!MakesRow, RowRecord
    <3> QED BY <2>1, <3>1
  <2>5. Batch!Turn(acc, s) = [attrs |-> a, rows |-> r]
    BY <1>2 DEF Batch!Turn, u
  <2> HIDE DEF a, r
  <2> QED BY <2>3, <2>4, <2>5 DEF Acc
<1> QED BY <1>1, <1>2

(* The spans before the next one, and the next one.                        *)
LEMMA OneMore ==
  ASSUME NEW b, NEW i \in Nat, NEW t, NEW s, s = b[i + 1]
  PROVE  /\ RootsOf(b, i + 1, t) =
              IF Batch!Trace[s] = t /\ s \in Batch!Root \ Batch!Broken
              THEN RootsOf(b, i, t) \cup {i + 1} ELSE RootsOf(b, i, t)
         /\ NamingRoots(b, i + 1, t) =
              IF Batch!Trace[s] = t /\ s \in Batch!Root \ Batch!Broken /\ user[s] # None
              THEN NamingRoots(b, i, t) \cup {i + 1} ELSE NamingRoots(b, i, t)
         /\ NamingKids(b, i + 1, t) =
              IF /\ Batch!Trace[s] = t /\ s \in (Batch!Span \ Batch!Root) \ Batch!Broken
                 /\ user[s] # None
              THEN NamingKids(b, i, t) \cup {i + 1} ELSE NamingKids(b, i, t)
<1>1. 1 .. i + 1 = (1 .. i) \cup {i + 1}
  OBVIOUS
<1>2. RootsOf(b, i + 1, t) =
        IF Batch!Trace[s] = t /\ s \in Batch!Root \ Batch!Broken
        THEN RootsOf(b, i, t) \cup {i + 1} ELSE RootsOf(b, i, t)
  BY <1>1 DEF RootsOf
<1>3. NamingRoots(b, i + 1, t) =
        IF Batch!Trace[s] = t /\ s \in Batch!Root \ Batch!Broken /\ user[s] # None
        THEN NamingRoots(b, i, t) \cup {i + 1} ELSE NamingRoots(b, i, t)
  BY <1>2 DEF NamingRoots
<1>4. NamingKids(b, i + 1, t) =
        IF /\ Batch!Trace[s] = t /\ s \in (Batch!Span \ Batch!Root) \ Batch!Broken
           /\ user[s] # None
        THEN NamingKids(b, i, t) \cup {i + 1} ELSE NamingKids(b, i, t)
  BY <1>1 DEF NamingKids
<1> QED BY <1>2, <1>3, <1>4

LEMMA Earlier ==
  ASSUME NEW b, NEW i \in Nat, NEW t
  PROVE  /\ RootsOf(b, i, t) \subseteq 1 .. i /\ NamingRoots(b, i, t) \subseteq RootsOf(b, i, t)
         /\ NamingKids(b, i, t) \subseteq 1 .. i
         /\ \A j \in NamingRoots(b, i, t) \cup NamingKids(b, i, t) : user[b[j]] # None
BY DEF RootsOf, NamingRoots, NamingKids

LEMMA TurnSays ==
  ASSUME Given, NEW acc \in Acc, NEW b, NEW i \in Nat, b[i + 1] \in Batch!Span, FoldSays(acc, b, i)
  PROVE  FoldSays(Batch!Turn(acc, b[i + 1]), b, i + 1)
<1> DEFINE s == b[i + 1]
           new == Batch!Turn(acc, s)
<1>0. /\ acc.attrs \in [Batch!TraceId -> Users \cup {None}]
      /\ acc.rows \in [Batch!TraceId -> RowRecord] /\ Batch!Trace[s] \in Batch!TraceId
      /\ None \notin Batch!Span /\ s \in Batch!Span
  BY TraceTypes DEF Acc
<1> SUFFICES ASSUME NEW t \in Batch!TraceId
             PROVE  /\ UserSaid(new.attrs[t], b, i + 1, t)
                    /\ NameSaid(new.rows[t].name, b, i + 1, t)
                    /\ new.rows[t].user \in {None, new.attrs[t]}
                    /\ new.rows[t].name = None => new.rows[t] = Batch!NoRow
  BY DEF FoldSays
<1>1. /\ RootsOf(b, i + 1, t) =
           IF Batch!Trace[s] = t /\ s \in Batch!Root \ Batch!Broken
           THEN RootsOf(b, i, t) \cup {i + 1} ELSE RootsOf(b, i, t)
      /\ NamingRoots(b, i + 1, t) =
           IF Batch!Trace[s] = t /\ s \in Batch!Root \ Batch!Broken /\ user[s] # None
           THEN NamingRoots(b, i, t) \cup {i + 1} ELSE NamingRoots(b, i, t)
      /\ NamingKids(b, i + 1, t) =
           IF /\ Batch!Trace[s] = t /\ s \in (Batch!Span \ Batch!Root) \ Batch!Broken
              /\ user[s] # None
           THEN NamingKids(b, i, t) \cup {i + 1} ELSE NamingKids(b, i, t)
  BY OneMore
<1>2. /\ UserSaid(acc.attrs[t], b, i, t) /\ NameSaid(acc.rows[t].name, b, i, t)
      /\ acc.rows[t].user \in {None, acc.attrs[t]}
      /\ acc.rows[t].name = None => acc.rows[t] = Batch!NoRow
  BY DEF FoldSays
<1>3. CASE s \in Batch!Broken \/ Batch!Trace[s] # t
  <2>1. new.attrs[t] = acc.attrs[t] /\ new.rows[t] = acc.rows[t]
    BY <1>0, <1>3 DEF Batch!Turn
  <2>2. /\ RootsOf(b, i + 1, t) = RootsOf(b, i, t)
        /\ NamingRoots(b, i + 1, t) = NamingRoots(b, i, t)
        /\ NamingKids(b, i + 1, t) = NamingKids(b, i, t)
    BY <1>3, <1>1
  <2> HIDE DEF new, s
  <2> QED BY <1>2, <2>1, <2>2 DEF UserSaid, NameSaid
<1>4. CASE s \notin Batch!Broken /\ Batch!Trace[s] = t
  <2> DEFINE u == Batch!Collected(acc.attrs, s)
  <2>1. new.attrs[t] = u
    BY <1>0, <1>4 DEF Batch!Turn
  <2>2. \A j \in NamingRoots(b, i, t) \cup NamingKids(b, i, t) \cup RootsOf(b, i, t) : j \in 1 .. i
    BY Earlier
  <2>3. CASE s \in Batch!Root
    <3>1. RootsOf(b, i + 1, t) = RootsOf(b, i, t) \cup {i + 1}
      BY <1>4, <2>3, <1>1
    <3>2. NamingRoots(b, i + 1, t) =
            IF user[s] = None THEN NamingRoots(b, i, t) ELSE NamingRoots(b, i, t) \cup {i + 1}
      BY <1>4, <2>3, <1>1
    <3>3. NamingKids(b, i + 1, t) = NamingKids(b, i, t)
      BY <2>3, <1>1
    <3>4. u = IF user[s] # None THEN user[s] ELSE acc.attrs[t]
      BY <1>4, <2>3 DEF Batch!Collected, Batch!Or
    <3>5. new.rows[t] = [name |-> s, user |-> u]
      BY <1>0, <1>4, <2>3 DEF Batch!Turn, Batch!MakesRow
    <3> HIDE DEF u, new
    <3>6. UserSaid(u, b, i + 1, t)
      <4>1. CASE user[s] = None
        BY <1>2, <3>2, <3>3, <3>4, <4>1 DEF UserSaid
      <4>2. CASE user[s] # None
        <5>1. i + 1 \in NamingRoots(b, i + 1, t) /\ u = user[b[i + 1]]
          BY <3>2, <3>4, <4>2
        <5>2. \A k \in NamingRoots(b, i + 1, t) : k <= i + 1
          BY <2>2, <3>2, <4>2
        <5> QED BY <5>1, <5>2 DEF UserSaid
      <4> QED BY <4>1, <4>2
    <3>7. NameSaid(s, b, i + 1, t)
      <4>1. \A k \in RootsOf(b, i + 1, t) : k <= i + 1
        BY <2>2, <3>1
      <4> QED BY <3>1, <4>1 DEF NameSaid
    <3> QED BY <1>0, <2>1, <3>5, <3>6, <3>7
  <2>4. CASE s \notin Batch!Root
    <3>1. RootsOf(b, i + 1, t) = RootsOf(b, i, t) /\ NamingRoots(b, i + 1, t) = NamingRoots(b, i, t)
      BY <2>4, <1>1
    <3>2. NamingKids(b, i + 1, t) =
            IF user[s] = None THEN NamingKids(b, i, t) ELSE NamingKids(b, i, t) \cup {i + 1}
      BY <1>0, <1>4, <2>4, <1>1
    <3>3. u = IF acc.attrs[t] # None THEN acc.attrs[t] ELSE user[s]
      BY <1>4, <2>4 DEF Batch!Collected, Batch!Or
    <3>4. new.rows[t] = acc.rows[t]
      BY <1>0, <1>4, <2>4 DEF Batch!Turn, Batch!MakesRow
    <3> HIDE DEF u, new, s
    <3>5. CASE acc.attrs[t] = None
      <4>1. NamingRoots(b, i, t) = {} /\ NamingKids(b, i, t) = {}
        BY <1>2, <3>5, Earlier DEF UserSaid
      <4>2. UserSaid(u, b, i + 1, t)
        <5>1. CASE user[s] = None
          BY <3>1, <3>2, <3>3, <3>5, <4>1, <5>1 DEF UserSaid
        <5>2. CASE user[s] # None
          <6>1. NamingKids(b, i + 1, t) = {i + 1} /\ u = user[b[i + 1]]
            BY <3>2, <3>3, <3>5, <4>1, <5>2 DEF s
          <6> QED BY <3>1, <4>1, <6>1 DEF UserSaid
        <5> QED BY <5>1, <5>2
      <4> QED BY <1>2, <2>1, <3>1, <3>4, <3>5, <4>2 DEF NameSaid
    <3>6. CASE acc.attrs[t] # None
      <4>1. u = acc.attrs[t]
        BY <3>3, <3>6
      <4>2. UserSaid(u, b, i + 1, t)
        <5>1. CASE \E j \in NamingRoots(b, i, t) :
                     u = user[b[j]] /\ \A k \in NamingRoots(b, i, t) : k <= j
          BY <3>1, <5>1 DEF UserSaid
        <5>2. CASE /\ NamingRoots(b, i, t) = {}
                   /\ \E j \in NamingKids(b, i, t) :
                        u = user[b[j]] /\ \A k \in NamingKids(b, i, t) : j <= k
          <6>1. PICK j \in NamingKids(b, i, t) :
                  u = user[b[j]] /\ \A k \in NamingKids(b, i, t) : j <= k
            BY <5>2
          <6>2. j \in NamingKids(b, i + 1, t) /\ \A k \in NamingKids(b, i + 1, t) : j <= k
            BY <2>2, <3>2, <6>1
          <6> QED BY <3>1, <5>2, <6>1, <6>2 DEF UserSaid
        <5> QED BY <1>2, <3>6, <4>1, <5>1, <5>2 DEF UserSaid
      <4> QED BY <1>2, <2>1, <3>1, <3>4, <4>1, <4>2 DEF NameSaid
    <3> QED BY <3>5, <3>6
  <2> QED BY <2>3, <2>4
<1> QED BY <1>3, <1>4

(* The fold itself is the function that recursion over the positions of b  *)
(* defines.                                                                *)
Iterating(g, b) ==
  g = [s \in SUBSET DOMAIN b |->
         IF s = {} THEN Blank ELSE Batch!Turn(g[s \ {Batch!Max(s)}], b[Batch!Max(s)])]

LEMMA RowsAre ==
  ASSUME NEW b
  PROVE  Batch!Rows(b) =
           LET acc == (CHOOSE g : Iterating(g, b))[DOMAIN b]
           IN [t \in Batch!TraceId |-> Batch!Backfill(acc.attrs, acc.rows[t], t)]
BY DEF Batch!Rows, Batch!FoldLeft, Batch!MapThenFoldSet, Iterating, Blank

LEMMA IterationIsThere ==
  ASSUME Given, NEW n \in Nat, NEW b \in [1 .. n -> Batch!Span]
  PROVE  Iterating((CHOOSE g : Iterating(g, b)), b)
<1> DEFINE pick == [s \in SUBSET (1 .. n) |-> IF s = {} THEN 1 .. n ELSE Batch!Max(s)]
           step == [x \in 1 .. n |-> [v \in Acc |-> Batch!Turn(v, b[x])]]
<1>0. ASSUME NEW s \in SUBSET (1 .. n), s # {} PROVE Batch!Max(s) \in s /\ Batch!Max(s) \in 1 .. n
  BY <1>0, MaxIsIn
<1>1. /\ pick \in [SUBSET (1 .. n) -> (1 .. n) \cup {1 .. n}]
      /\ \A s \in SUBSET (1 .. n) : s # {} => pick[s] \in s
  BY <1>0
<1>2. step \in [1 .. n -> [Acc -> Acc]]
  <2>1. \A x \in 1 .. n, v \in Acc : Batch!Turn(v, b[x]) \in Acc
    BY TurnType
  <2> QED BY <2>1
<1>3. IsFiniteSet(1 .. n)
  BY FS_Interval
<1>4. \E g \in [SUBSET (1 .. n) -> Acc] : Folding(g, SUBSET (1 .. n), Blank, pick, step)
  <2> HIDE DEF pick, step
  <2> QED BY <1>1, <1>2, <1>3, BlankType, FoldIsThere
<1>5. PICK g \in [SUBSET (1 .. n) -> Acc] : Folding(g, SUBSET (1 .. n), Blank, pick, step)
  BY <1>4
<1>6. ASSUME NEW s \in SUBSET (1 .. n), s # {}
      PROVE  g[s] = Batch!Turn(g[s \ {Batch!Max(s)}], b[Batch!Max(s)])
  <2>1. PICK m \in 1 .. n : m = Batch!Max(s)
    BY <1>0, <1>6
  <2>2. pick[s] = m
    BY <1>6, <2>1
  <2>3. g[s \ {m}] \in Acc
    BY <1>5
  <2>4. g[s] = step[m][g[s \ {m}]]
    <3> HIDE DEF pick, step
    <3> QED BY <1>5, <1>6, <2>2 DEF Folding
  <2>5. step[m][g[s \ {m}]] = Batch!Turn(g[s \ {m}], b[m])
    BY <2>3
  <2> HIDE DEF pick, step
  <2> QED BY <2>1, <2>4, <2>5
<1>7. g[{}] = Blank
  <2> HIDE DEF pick, step
  <2> QED BY <1>5 DEF Folding
<1>8. Iterating(g, b)
  <2>1. DOMAIN b = 1 .. n
    OBVIOUS
  <2> HIDE DEF pick, step
  <2> QED BY <1>5, <1>6, <1>7, <2>1 DEF Iterating
<1> QED BY <1>8

LEMMA RowsSay ==
  ASSUME Given, NEW n \in Nat, NEW b \in [1 .. n -> Batch!Span], NEW t \in Batch!TraceId
  PROVE  RowSays(Batch!Rows(b)[t], b, n, t)
<1>1. PICK g : g = CHOOSE h : Iterating(h, b)
  OBVIOUS
<1>2. Iterating(g, b)
  BY <1>1, IterationIsThere
<1> DEFINE S == {i \in Nat : i <= n => g[1 .. i] \in Acc /\ FoldSays(g[1 .. i], b, i)}
<1>3. 0 \in S
  <2>1. 1 .. 0 = {} /\ g[{}] = Blank
    BY <1>2 DEF Iterating
  <2>2. ASSUME NEW r \in Batch!TraceId
        PROVE  /\ Blank.attrs[r] = None /\ Blank.rows[r] = [name |-> None, user |-> None]
               /\ RootsOf(b, 0, r) = {} /\ NamingRoots(b, 0, r) = {} /\ NamingKids(b, 0, r) = {}
    <3>1. RootsOf(b, 0, r) = {} /\ NamingKids(b, 0, r) = {}
      BY <2>1 DEF RootsOf, NamingKids
    <3> QED BY <3>1 DEF Blank, Batch!NoRow, NamingRoots
  <2>3. FoldSays(Blank, b, 0)
    BY <2>2 DEF FoldSays, UserSaid, NameSaid, Batch!NoRow
  <2> QED BY <2>1, <2>3, BlankType
<1>4. ASSUME NEW i \in Nat, i \in S PROVE i + 1 \in S
  <2> SUFFICES ASSUME i + 1 <= n
               PROVE  g[1 .. i + 1] \in Acc /\ FoldSays(g[1 .. i + 1], b, i + 1)
    OBVIOUS
  <2>1. g[1 .. i] \in Acc /\ FoldSays(g[1 .. i], b, i)
    BY <1>4
  <2>2. 1 .. i + 1 \in SUBSET (1 .. n) /\ i + 1 \in 1 .. n /\ 1 .. i + 1 # {} /\ DOMAIN b = 1 .. n
    <3>1. \A j \in 1 .. i + 1 : j \in 1 .. n
      OBVIOUS
    <3>2. i + 1 \in 1 .. i + 1
      OBVIOUS
    <3> QED BY <3>1, <3>2
  <2>3. Batch!Max(1 .. i + 1) = i + 1
    <3>1. Batch!Max(1 .. i + 1) \in 1 .. i + 1 /\ \A x \in 1 .. i + 1 : x <= Batch!Max(1 .. i + 1)
      BY <2>2, MaxIsIn
    <3>2. i + 1 \in 1 .. i + 1
      OBVIOUS
    <3>3. i + 1 <= Batch!Max(1 .. i + 1) /\ Batch!Max(1 .. i + 1) <= i + 1
      BY <3>1, <3>2
    <3> QED BY <3>1, <3>3
  <2>4. (1 .. i + 1) \ {i + 1} = 1 .. i
    OBVIOUS
  <2>5. g[1 .. i + 1] = Batch!Turn(g[(1 .. i + 1) \ {Batch!Max(1 .. i + 1)}],
                                   b[Batch!Max(1 .. i + 1)])
    BY <1>2, <2>2 DEF Iterating
  <2>6. g[1 .. i + 1] = Batch!Turn(g[1 .. i], b[i + 1])
    BY <2>3, <2>4, <2>5
  <2>7. b[i + 1] \in Batch!Span
    BY <2>2
  <2> QED BY <2>1, <2>6, <2>7, TurnType, TurnSays
<1>5. n \in S
  <2> HIDE DEF S
  <2> QED BY <1>3, <1>4, NaturalInduction
<1>6. PICK acc : acc = g[1 .. n]
  OBVIOUS
<1>7. acc \in Acc /\ FoldSays(acc, b, n)
  BY <1>5, <1>6
<1>8. Batch!Rows(b)[t] = Batch!Backfill(acc.attrs, acc.rows[t], t)
  <2>1. DOMAIN b = 1 .. n
    OBVIOUS
  <2>2. Batch!Rows(b) = [r \in Batch!TraceId |-> Batch!Backfill(acc.attrs, acc.rows[r], r)]
    BY <1>1, <1>6, <2>1, RowsAre
  <2> QED BY <2>2
<1>9. /\ UserSaid(acc.attrs[t], b, n, t) /\ NameSaid(acc.rows[t].name, b, n, t)
      /\ acc.rows[t].user \in {None, acc.attrs[t]}
      /\ acc.rows[t].name = None => acc.rows[t] = Batch!NoRow
      /\ acc.rows[t] \in RowRecord /\ acc.attrs[t] \in Users \cup {None}
  BY <1>7 DEF FoldSays, Acc
<1>10. CASE acc.rows[t].name = None
  <2>1. Batch!Rows(b)[t] = acc.rows[t]
    BY <1>8, <1>10 DEF Batch!Backfill
  <2> QED BY <1>9, <1>10, <2>1 DEF RowSays
<1>11. CASE acc.rows[t].name # None
  <2>1. Batch!Rows(b)[t] = [acc.rows[t] EXCEPT !.user = acc.attrs[t]]
    BY <1>8, <1>9, <1>11 DEF Batch!Backfill, Batch!Or
  <2>2. PICK e : e = [acc.rows[t] EXCEPT !.user = acc.attrs[t]]
    OBVIOUS
  <2>3. e \in RowRecord /\ e.name = acc.rows[t].name /\ e.user = acc.attrs[t]
    BY <1>9, <2>2 DEF RowRecord
  <2> QED BY <1>9, <1>11, <2>1, <2>2, <2>3 DEF RowSays
<1> QED BY <1>10, <1>11

-----------------------------------------------------------------------------
(* What is said of a row says which row it is.                             *)
LEMMA OneRow ==
  ASSUME NEW b, NEW n \in Nat, NEW t, NEW r, NEW q, RowSays(r, b, n, t), RowSays(q, b, n, t)
  PROVE  r = q
<1>1. r.name = q.name
  BY Earlier DEF RowSays, NameSaid
<1>2. CASE r.name = None
  BY <1>1, <1>2 DEF RowSays
<1>3. CASE r.name # None
  <2>1. r.user = q.user
    BY <1>1, <1>3, Earlier DEF RowSays, UserSaid
  <2> QED BY <1>1, <2>1 DEF RowSays, RowRecord
<1> QED BY <1>2, <1>3

(* batch is one of the Uploads.                                            *)
Sent ==
  /\ Given /\ batch \in Batch!Uploads
RowsOf(k) == Batch!Rows(batch[k])
RowsSaid == \A k \in Batches, t \in Batch!TraceId : RowSays(RowsOf(k)[t], batch[k], Len(batch[k]), t)

LEMMA UploadType ==
  ASSUME Sent, NEW k \in Batches
  PROVE  Len(batch[k]) \in Nat /\ batch[k] \in [1 .. Len(batch[k]) -> Batch!Span]
<1>1. PICK n \in Nat : batch[k] \in [1 .. n -> Batch!Span]
  BY DEF Sent, Batch!Uploads
<1>2. batch[k] \in Seq(Batch!Span) /\ Len(batch[k]) = n
  BY <1>1
<1> QED BY <1>1, <1>2

LEMMA SentSays == Sent => RowsSaid
<1> SUFFICES ASSUME Sent, NEW k \in Batches, NEW t \in Batch!TraceId
             PROVE  RowSays(RowsOf(k)[t], batch[k], Len(batch[k]), t)
  BY DEF RowsSaid
<1> QED BY UploadType, RowsSay DEF Sent, RowsOf

LEMMA SentSaysNext == Sent' => RowsSaid'
BY SentSays, PTL

LEMMA RowsStay ==
  ASSUME Sent, UNCHANGED <<forest, batch, user>>, NEW k \in Batches, NEW t \in Batch!TraceId
  PROVE  RowsOf(k)'[t] = RowsOf(k)[t]
<1>1. /\ Batch!Span' = Batch!Span /\ Batch!Trace' = Batch!Trace /\ Batch!Root' = Batch!Root
      /\ Batch!Broken' = Batch!Broken /\ Batch!TraceId' = Batch!TraceId
  BY DEF Batch!Span, Batch!Trace, Batch!Root, Batch!Broken, Batch!TraceId
<1>2. Sent'
  BY DEF Sent, Given, Batch!Span, Batch!Trace, Batch!Uploads
<1>3. RowSays(RowsOf(k)[t], batch[k], Len(batch[k]), t)
  BY SentSays DEF RowsSaid
<1>4. RowSays(RowsOf(k)'[t], batch[k], Len(batch[k]), t)
  <2>1. RowSays(RowsOf(k)[t], batch[k], Len(batch[k]), t)'
    BY <1>1, <1>2, SentSaysNext DEF RowsSaid
  <2> QED BY <1>1, <2>1 DEF RowSays, RowRecord, NameSaid, UserSaid, RootsOf, NamingRoots, NamingKids,
             Batch!NoRow
<1> QED BY <1>3, <1>4, OneRow, UploadType

(* A trace row is the one an upload makes of it, if there is one; and an   *)
(* upload whose task is over has left its rows.                            *)
BatchInv ==
  /\ Sent /\ queue \subseteq Batches /\ spanTable \subseteq Batch!Span \ Batch!Broken
  /\ traceTable \in [Batch!TraceId -> RowRecord]
  /\ \A t \in Batch!TraceId :
       traceTable[t] = Batch!NoRow \/ \E k \in Batches : traceTable[t] = RowsOf(k)[t]
  /\ \A k \in Batches \ queue : Batch!ToSet(batch[k]) \ Batch!Broken \subseteq spanTable
  /\ \A k \in Batches \ queue, t \in Batch!TraceId :
       RowsOf(k)[t] # Batch!NoRow => traceTable[t] # Batch!NoRow

LEMMA BatchInit == ASSUME Batch!OtelTransformAssumption, Batch!Init PROVE BatchInv
<1>1. Sent /\ queue = Batches /\ spanTable = {}
  BY DEF Batch!Init, Sent, Given
<1>2. Batch!NoRow \in RowRecord
  BY DEF Batch!NoRow, RowRecord
<1>3. traceTable \in [Batch!TraceId -> RowRecord] /\ \A t \in Batch!TraceId : traceTable[t] = Batch!NoRow
  BY <1>2 DEF Batch!Init
<1> QED BY <1>1, <1>3 DEF BatchInv

LEMMA BatchStep == ASSUME BatchInv, [Batch!Next]_(Batch!vars) PROVE BatchInv'
<1>1. UNCHANGED <<forest, batch, user>>
  BY DEF Batch!Next, Batch!vars, Batch!Task
<1>2. /\ Batch!Span' = Batch!Span /\ Batch!Trace' = Batch!Trace /\ Batch!Root' = Batch!Root
      /\ Batch!Broken' = Batch!Broken /\ Batch!TraceId' = Batch!TraceId
  BY <1>1 DEF Batch!Span, Batch!Trace, Batch!Root, Batch!Broken, Batch!TraceId
<1>3. Sent /\ RowRecord' = RowRecord
  BY <1>2 DEF BatchInv, RowRecord
<1>4. Sent'
  BY <1>1, <1>2, <1>3 DEF Sent, Given, Batch!Uploads
<1>5. \A k \in Batches, t \in Batch!TraceId : RowsOf(k)'[t] = RowsOf(k)[t]
  BY <1>1, <1>3, RowsStay
<1>6. CASE UNCHANGED Batch!vars
  <2>1. UNCHANGED <<queue, traceTable, spanTable>>
    BY <1>6 DEF Batch!vars
  <2> QED BY <1>1, <1>2, <1>3, <1>4, <1>5, <2>1 DEF BatchInv
<1>7. ASSUME NEW k \in Batches, Batch!Task(k) PROVE BatchInv'
  <2>1. /\ traceTable' = [t \in Batch!TraceId |->
             IF RowsOf(k)[t] = Batch!NoRow THEN traceTable[t] ELSE RowsOf(k)[t]]
        /\ spanTable' = spanTable \cup (Batch!ToSet(batch[k]) \ Batch!Broken)
        /\ queue' \subseteq queue /\ queue \subseteq queue' \cup {k}
    BY <1>7 DEF Batch!Task, RowsOf
  <2>2. ASSUME NEW t \in Batch!TraceId
        PROVE  /\ RowsOf(k)[t] \in RowRecord
               /\ traceTable'[t] = IF RowsOf(k)[t] = Batch!NoRow THEN traceTable[t] ELSE RowsOf(k)[t]
    BY <1>3, <2>1, SentSays DEF RowsSaid, RowSays
  <2>3. traceTable' \in [Batch!TraceId -> RowRecord]
    BY <2>1, <2>2 DEF BatchInv
  <2>4. Batch!ToSet(batch[k]) \subseteq Batch!Span
    <3>1. batch[k] \in [1 .. Len(batch[k]) -> Batch!Span]
      BY <1>3, UploadType
    <3> QED BY <3>1 DEF Batch!ToSet
  <2>5. spanTable' \subseteq Batch!Span \ Batch!Broken /\ queue' \subseteq Batches
    BY <2>1, <2>4 DEF BatchInv
  <2>6. \A t \in Batch!TraceId :
          traceTable'[t] = Batch!NoRow \/ \E j \in Batches : traceTable'[t] = RowsOf(j)[t]
    BY <2>2 DEF BatchInv
  <2>7. \A j \in Batches \ queue' : Batch!ToSet(batch[j]) \ Batch!Broken \subseteq spanTable'
    BY <2>1 DEF BatchInv
  <2>8. \A j \in Batches \ queue', t \in Batch!TraceId :
          RowsOf(j)[t] # Batch!NoRow => traceTable'[t] # Batch!NoRow
    BY <2>1, <2>2 DEF BatchInv
  <2> QED BY <1>1, <1>2, <1>3, <1>4, <1>5, <2>3, <2>5, <2>6, <2>7, <2>8 DEF BatchInv, Batch!NoRow
<1> QED BY <1>6, <1>7 DEF Batch!Next

LEMMA BatchTypes == ASSUME BatchInv PROVE Batch!TypeOK
BY DEF BatchInv, Sent, Given, RowRecord, Batch!TypeOK

LEMMA FirstAndLast ==
  ASSUME BatchInv PROVE Batch!RootBeforeFirstChild
<1> SUFFICES ASSUME NEW k \in Batches, NEW t \in Batch!TraceId, RowsOf(k)[t].name # None
             PROVE  LET roots == Batch!Naming(k, t, Batch!Root)
                        children == Batch!Naming(k, t, Batch!Span \ Batch!Root)
                    IN RowsOf(k)[t].user = IF roots # {} THEN user[batch[k][Batch!Max(roots)]]
                                           ELSE IF children # {} THEN user[batch[k][Batch!Min(children)]]
                                           ELSE None
  BY DEF Batch!RootBeforeFirstChild, RowsOf
<1>1. PICK n \in Nat : n = Len(batch[k])
  BY UploadType DEF BatchInv
<1>2. DOMAIN batch[k] = 1 .. n
  BY <1>1, UploadType DEF BatchInv
<1>3. PICK roots : roots = Batch!Naming(k, t, Batch!Root)
  OBVIOUS
<1>4. PICK children : children = Batch!Naming(k, t, Batch!Span \ Batch!Root)
  OBVIOUS
<1>5. roots = NamingRoots(batch[k], n, t) /\ children = NamingKids(batch[k], n, t)
  BY <1>2, <1>3, <1>4 DEF Batch!Naming, NamingRoots, RootsOf, NamingKids
<1>6. UserSaid(RowsOf(k)[t].user, batch[k], n, t)
  BY <1>1, SentSays DEF BatchInv, RowsSaid, RowSays
<1>7. roots \subseteq 1 .. n /\ children \subseteq 1 .. n
  BY <1>5, Earlier
<1>8. CASE roots # {}
  <2>1. PICK j \in roots : RowsOf(k)[t].user = user[batch[k][j]] /\ \A i \in roots : i <= j
    BY <1>5, <1>6, <1>8 DEF UserSaid
  <2>2. Batch!Max(roots) \in roots /\ \A x \in roots : x <= Batch!Max(roots)
    BY <1>7, <1>8, MaxIsIn
  <2>3. j <= Batch!Max(roots) /\ Batch!Max(roots) <= j
    BY <2>1, <2>2
  <2>4. PICK m \in 1 .. n : m = Batch!Max(roots)
    BY <1>7, <2>2
  <2>5. j \in 1 .. n
    BY <1>7
  <2>6. j = Batch!Max(roots)
    BY <2>3, <2>4, <2>5
  <2> QED BY <1>3, <1>8, <2>1, <2>6
<1>9. CASE roots = {} /\ children # {}
  <2>1. PICK j \in children : RowsOf(k)[t].user = user[batch[k][j]] /\ \A i \in children : j <= i
    BY <1>5, <1>6, <1>9 DEF UserSaid
  <2>2. Batch!Min(children) \in children /\ \A x \in children : Batch!Min(children) <= x
    BY <2>1 DEF Batch!Min
  <2>3. j <= Batch!Min(children) /\ Batch!Min(children) <= j
    BY <2>1, <2>2
  <2>4. PICK m \in 1 .. n : m = Batch!Min(children)
    BY <1>7, <2>2
  <2>5. j \in 1 .. n
    BY <1>7
  <2>6. j = Batch!Min(children)
    BY <2>3, <2>4, <2>5
  <2> QED BY <1>3, <1>4, <1>9, <2>1, <2>6
<1>10. CASE roots = {} /\ children = {}
  <2>1. RowsOf(k)[t].user = None
    BY <1>5, <1>6, <1>10 DEF UserSaid
  <2> QED BY <1>3, <1>4, <1>10, <2>1
<1> QED BY <1>8, <1>9, <1>10

LEMMA Converges ==
  ASSUME BatchInv PROVE Batch!OneRootConverges
<1> SUFFICES ASSUME queue = {}
             PROVE  /\ spanTable = Batch!Span \ Batch!Broken
                    /\ \A k \in Batches, t \in Batch!TraceId, s \in Batch!Root \ Batch!Broken :
                         /\ s \in Batch!ToSet(batch[k]) /\ Batch!Trace[s] = t
                         /\ \A r \in Batch!Root \ Batch!Broken : Batch!Trace[r] = t => r = s
                         => traceTable[t].name = s /\ traceTable[t] = RowsOf(k)[t]
  BY DEF Batch!OneRootConverges, RowsOf
<1>0. Given /\ batch \in Batch!Uploads
  BY DEF BatchInv, Sent
<1>1. spanTable = Batch!Span \ Batch!Broken
  <2>1. \A s \in Batch!Span : \E k \in Batches : s \in Batch!ToSet(batch[k])
    BY <1>0 DEF Batch!Uploads
  <2> QED BY <2>1 DEF BatchInv
<1>2. ASSUME NEW k \in Batches, NEW t \in Batch!TraceId, NEW s \in Batch!Root \ Batch!Broken,
             s \in Batch!ToSet(batch[k]), Batch!Trace[s] = t,
             \A r \in Batch!Root \ Batch!Broken : Batch!Trace[r] = t => r = s
      PROVE  traceTable[t].name = s /\ traceTable[t] = RowsOf(k)[t]
  <2>1. ASSUME NEW j \in Batches, RowsOf(j)[t] # Batch!NoRow
        PROVE  RowsOf(j)[t].name = s /\ s \in Batch!ToSet(batch[j])
    <3>1. RowSays(RowsOf(j)[t], batch[j], Len(batch[j]), t)
      BY SentSays DEF BatchInv, RowsSaid
    <3>2. PICK i \in RootsOf(batch[j], Len(batch[j]), t) : RowsOf(j)[t].name = batch[j][i]
      BY <2>1, <3>1 DEF RowSays, NameSaid
    <3>3. batch[j] \in [1 .. Len(batch[j]) -> Batch!Span]
      BY UploadType DEF BatchInv
    <3>4. batch[j][i] = s /\ i \in DOMAIN batch[j]
      BY <1>2, <3>2, <3>3 DEF RootsOf
    <3> QED BY <3>2, <3>4 DEF Batch!ToSet
  <2>2. RowsOf(k)[t] # Batch!NoRow
    <3>1. RowSays(RowsOf(k)[t], batch[k], Len(batch[k]), t)
      BY SentSays DEF BatchInv, RowsSaid
    <3>2. batch[k] \in [1 .. Len(batch[k]) -> Batch!Span]
      BY UploadType DEF BatchInv
    <3>3. PICK i \in 1 .. Len(batch[k]) : batch[k][i] = s
      BY <1>2, <3>2 DEF Batch!ToSet
    <3>4. RootsOf(batch[k], Len(batch[k]), t) # {}
      BY <1>2, <3>3 DEF RootsOf
    <3>5. RowsOf(k)[t].name \in Batch!Root \ Batch!Broken
      BY <3>1, <3>4 DEF RowSays, NameSaid, RootsOf
    <3>6. None \notin Batch!Root
      BY <1>0, TraceTypes
    <3> QED BY <3>5, <3>6 DEF Batch!NoRow
  <2>3. traceTable[t] # Batch!NoRow
    BY <2>2 DEF BatchInv
  <2>4. PICK j \in Batches : traceTable[t] = RowsOf(j)[t]
    BY <2>3 DEF BatchInv
  <2>5. s \in Batch!ToSet(batch[j]) /\ traceTable[t].name = s
    BY <2>1, <2>3, <2>4
  <2>6. j = k
    BY <1>0, <1>2, <2>5 DEF Batch!Uploads
  <2> QED BY <2>4, <2>5, <2>6
<1> QED BY <1>1, <1>2

-----------------------------------------------------------------------------
(* Then the fields of one span: a row is what its attributes say.          *)
FieldInv ==
  /\ tokens \in Reports
  /\ \/ row = Fields!NoSpan
     \/ row = [kind |-> Fields!SpanKind, model |-> Fields!HasModel, counts |-> Fields!Counts,
               metadata |-> Fields!Metadata]

LEMMA FieldInit == Fields!Init => FieldInv
BY DEF Fields!Init, FieldInv

LEMMA FieldStep == ASSUME FieldInv, [Fields!Next]_(Fields!vars) PROVE FieldInv'
<1>1. UNCHANGED <<kindAttr, model, tokens, extra>>
  BY DEF Fields!Next, Fields!vars, Fields!Transform
<1>2. /\ Fields!SpanKind' = Fields!SpanKind /\ Fields!HasModel' = Fields!HasModel
      /\ Fields!Counts' = Fields!Counts /\ Fields!Metadata' = Fields!Metadata
  BY <1>1 DEF Fields!SpanKind, Fields!HasModel, Fields!Counts, Fields!Metadata, Fields!Reported,
             Fields!InTokens, Fields!OutTokens, Fields!TotalTokens
<1>3. row' = row \/ row' = [kind |-> Fields!SpanKind, model |-> Fields!HasModel,
                            counts |-> Fields!Counts, metadata |-> Fields!Metadata]
  BY DEF Fields!Next, Fields!vars, Fields!Transform
<1> QED BY <1>1, <1>2, <1>3 DEF FieldInv

LEMMA FieldsSay == ASSUME Fields!SpanFieldsAssumption, FieldInv PROVE Fields!SaidIsKept
<1> SUFFICES ASSUME Fields!Done PROVE Fields!SaidIsKept
  BY DEF Fields!SaidIsKept, Fields!ExplicitKindWins, Fields!ReportedCountsStay,
         Fields!CustomAttributeStays
<1>1. /\ row.kind = Fields!SpanKind /\ row.model = Fields!HasModel
      /\ row.counts = Fields!Counts /\ row.metadata = Fields!Metadata
  BY DEF FieldInv, Fields!Done
<1>2. Fields!ExplicitKindWins
  BY <1>1 DEF Fields!ExplicitKindWins, Fields!SpanKind, Fields!Kind
<1>3. Fields!CustomAttributeStays
  BY <1>1 DEF Fields!CustomAttributeStays, Fields!Metadata, Fields!Known
<1>4. Fields!ReportedCountsStay
  <2> SUFFICES ASSUME Fields!HasModel,
                      {tokens.prompt, tokens.promptLast, tokens.completion,
                       tokens.completionLast} \ {None, 0} # {}
               PROVE  /\ Fields!TakenFrom(row.counts.in, tokens.prompt, tokens.promptLast)
                      /\ Fields!TakenFrom(row.counts.out, tokens.completion, tokens.completionLast)
                      /\ row.counts.total # row.counts.in + row.counts.out
                           => row.counts.total \in {tokens.total, tokens.totalLast}
    BY <1>1 DEF Fields!ReportedCountsStay
  <2>1. Fields!InTokens # None \/ Fields!OutTokens # None
    BY DEF Fields!InTokens, Fields!OutTokens, Fields!Or
  <2>2. row.counts = Fields!Reported
    BY <1>1, <2>1 DEF Fields!Counts
  <2>3. ASSUME NEW a, NEW b
        PROVE  Fields!TakenFrom(Fields!OrZero(Fields!Or(a, b)), a, b)
    BY DEF Fields!TakenFrom, Fields!OrZero, Fields!Or
  <2>4. /\ row.counts.in = Fields!OrZero(Fields!Or(tokens.prompt, tokens.promptLast))
        /\ row.counts.out = Fields!OrZero(Fields!Or(tokens.completion, tokens.completionLast))
    BY <2>2 DEF Fields!Reported, Fields!InTokens, Fields!OutTokens
  <2>5. /\ Fields!TakenFrom(row.counts.in, tokens.prompt, tokens.promptLast)
        /\ Fields!TakenFrom(row.counts.out, tokens.completion, tokens.completionLast)
    BY <2>3, <2>4
  <2>6. CASE Fields!TotalTokens = None
    <3>1. row.counts.total = row.counts.in + row.counts.out
      BY <2>2, <2>6 DEF Fields!Reported
    <3> QED BY <2>5, <3>1
  <2>7. CASE Fields!TotalTokens # None
    <3>1. row.counts.total = Fields!TotalTokens
      BY <2>2, <2>7 DEF Fields!Reported
    <3>2. Fields!TotalTokens \in {tokens.total, tokens.totalLast}
      BY DEF Fields!TotalTokens, Fields!Or
    <3> QED BY <2>5, <3>1, <3>2
  <2> QED BY <2>6, <2>7
<1> QED BY <1>2, <1>3, <1>4 DEF Fields!SaidIsKept

-----------------------------------------------------------------------------
(* Then the prices.                                                        *)
Release == [Prices!Model -> Nat]

(* What is copied is of the release, and so is what a process has that     *)
(* read after the copy and its own restart.                                *)
PriceInv ==
  /\ file \in Nat \ {0} /\ next \in Nat \ {0} /\ table \in Release
  /\ cache \in [Processes -> Release \cup {None}]
  /\ \A m \in Prices!Model : m < next => table[m] = file
  /\ Prices!LateReaderIsCurrent
  /\ pending \subseteq Processes

LEMMA PriceInit == ASSUME Prices!ModelPricingAssumption, Prices!Init PROVE PriceInv
BY DEF Prices!Init, PriceInv, Release, Prices!LateReaderIsCurrent, Prices!Model,
       Prices!ModelPricingAssumption

LEMMA PriceStep ==
  ASSUME Prices!ModelPricingAssumption, PriceInv, [Prices!Next]_(Prices!vars)
  PROVE  PriceInv' /\ Prices!PriceStays
<1>0. /\ file \in Nat \ {0} /\ next \in Nat \ {0} /\ table \in Release
      /\ cache \in [Processes -> Release \cup {None}]
      /\ \A m \in Prices!Model : m < next => table[m] = file
      /\ pending \subseteq Processes /\ Prices!Model \subseteq Nat \ {0}
  BY DEF PriceInv, Prices!Model, Prices!ModelPricingAssumption
<1>1. CASE Prices!Deploy
  <2>1. file' = file + 1 /\ next' = 1 /\ pending' = Processes /\ table' = table /\ cache' = cache
    BY <1>1 DEF Prices!Deploy
  <2>2. Prices!LateReaderIsCurrent'
    BY <2>1 DEF Prices!LateReaderIsCurrent
  <2> QED BY <1>0, <2>1, <2>2 DEF PriceInv, Prices!PriceStays
<1>2. CASE Prices!Sync
  <2>1. /\ next <= Models /\ next' = next + 1 /\ next \in Prices!Model
        /\ table' = [table EXCEPT ![next] = file]
        /\ UNCHANGED <<file, pending, cache, early>>
    BY <1>0, <1>2 DEF Prices!Sync, Prices!Copied, Prices!Model, Prices!ModelPricingAssumption
  <2>2. table' \in Release
        /\ \A m \in Prices!Model : table'[m] = IF m = next THEN file ELSE table[m]
    BY <1>0, <2>1 DEF Release
  <2>3. \A m \in Prices!Model : m < next' => table'[m] = file'
    BY <1>0, <2>1, <2>2
  <2>4. Prices!LateReaderIsCurrent'
    BY <2>1 DEF Prices!LateReaderIsCurrent, PriceInv
  <2>5. Prices!PriceStays
    BY <1>0, <2>2 DEF Prices!PriceStays
  <2> QED BY <1>0, <2>1, <2>2, <2>3, <2>4, <2>5 DEF PriceInv
<1>3. CASE Prices!SyncRestarts
  <2>1. next' = 1 /\ UNCHANGED <<file, table, pending, cache, early>>
    BY <1>3 DEF Prices!SyncRestarts
  <2>2. Prices!LateReaderIsCurrent'
    BY <2>1 DEF Prices!LateReaderIsCurrent, PriceInv
  <2> QED BY <1>0, <2>1, <2>2 DEF PriceInv, Prices!PriceStays
<1>4. ASSUME NEW p \in Processes, Prices!Restart(p) PROVE PriceInv' /\ Prices!PriceStays
  <2>1. /\ cache' = [cache EXCEPT ![p] = None]
        /\ pending' = pending \ {p} /\ early' = early \ {p} /\ UNCHANGED <<file, next, table>>
    BY <1>4 DEF Prices!Restart
  <2>2. /\ cache' \in [Processes -> Release \cup {None}] /\ cache'[p] = None
        /\ \A q \in Processes \ {p} : cache'[q] = cache[q]
    BY <1>0, <2>1
  <2>3. Prices!LateReaderIsCurrent'
    BY <2>1, <2>2 DEF Prices!LateReaderIsCurrent, PriceInv
  <2> QED BY <1>0, <2>1, <2>2, <2>3 DEF PriceInv, Prices!PriceStays
<1>5. ASSUME NEW p \in Processes, Prices!Load(p) PROVE PriceInv' /\ Prices!PriceStays
  <2>1. /\ cache' = [cache EXCEPT ![p] = table]
        /\ early' = IF Prices!Copied /\ p \notin pending THEN early ELSE early \cup {p}
        /\ UNCHANGED <<file, next, table, pending>>
    BY <1>5 DEF Prices!Load
  <2>2. /\ cache' \in [Processes -> Release \cup {None}] /\ cache'[p] = table
        /\ \A q \in Processes \ {p} : cache'[q] = cache[q]
    BY <1>0, <2>1
  <2>3. ASSUME NEW q \in Processes \ (early' \cup pending'), NEW m \in Prices!Model, cache'[q] # None
        PROVE  cache'[q][m] = file'
    <3>1. CASE q = p
      <4>1. Prices!Copied
        BY <2>1, <2>3, <3>1
      <4>2. table[m] = file
        BY <1>0, <4>1 DEF Prices!Copied, Prices!Model, Prices!ModelPricingAssumption
      <4> QED BY <2>1, <2>2, <3>1, <4>2
    <3>2. CASE q # p
      BY <2>1, <2>2, <2>3, <3>2 DEF Prices!LateReaderIsCurrent, PriceInv
    <3> QED BY <3>1, <3>2
  <2> QED BY <1>0, <2>1, <2>2, <2>3 DEF PriceInv, Prices!PriceStays, Prices!LateReaderIsCurrent
<1>6. CASE UNCHANGED Prices!vars
  <2>1. Prices!LateReaderIsCurrent'
    BY <1>6 DEF Prices!vars, Prices!LateReaderIsCurrent, PriceInv
  <2> QED BY <1>0, <1>6, <2>1 DEF Prices!vars, PriceInv, Prices!PriceStays
<1> QED BY <1>1, <1>2, <1>3, <1>4, <1>5, <1>6 DEF Prices!Next

(* The numbers of releases and models stay within their bounds.            *)
LEMMA PriceTypeInit == ASSUME Prices!ModelPricingAssumption, Prices!Init PROVE Prices!TypeOK
BY DEF Prices!Init, Prices!TypeOK, Prices!Model, Prices!ModelPricingAssumption

LEMMA PriceTypeStep ==
  ASSUME Prices!ModelPricingAssumption, Prices!TypeOK, [Prices!Next]_(Prices!vars)
  PROVE  Prices!TypeOK'
<1>0. /\ file \in 1 .. MaxRelease /\ next \in 1 .. (Models + 1)
      /\ table \in [Prices!Model -> 0 .. file]
      /\ pending \subseteq Processes /\ early \subseteq Processes
      /\ cache \in [Processes -> [Prices!Model -> 0 .. file] \cup {None}]
      /\ Models \in Nat /\ MaxRelease \in Nat
  BY DEF Prices!TypeOK, Prices!ModelPricingAssumption
<1>1. CASE Prices!Deploy
  <2>1. /\ file < MaxRelease /\ file' = file + 1 /\ next' = 1 /\ pending' = Processes
        /\ UNCHANGED <<table, cache, early>>
    BY <1>1 DEF Prices!Deploy
  <2>2. 0 .. file \subseteq 0 .. file'
    BY <1>0, <2>1
  <2>3. [Prices!Model -> 0 .. file] \subseteq [Prices!Model -> 0 .. file']
    BY <2>2
  <2>4. table' \in [Prices!Model -> 0 .. file']
        /\ cache' \in [Processes -> [Prices!Model -> 0 .. file'] \cup {None}]
    BY <1>0, <2>1, <2>3
  <2>5. file' \in 1 .. MaxRelease /\ next' \in 1 .. (Models + 1)
    BY <1>0, <2>1
  <2> QED BY <1>0, <2>1, <2>4, <2>5 DEF Prices!TypeOK
<1>2. CASE Prices!Sync
  <2>1. /\ next <= Models /\ next' = next + 1 /\ table' = [table EXCEPT ![next] = file]
        /\ UNCHANGED <<file, pending, cache, early>>
    BY <1>0, <1>2 DEF Prices!Sync, Prices!Copied
  <2>2. file \in 0 .. file /\ table \in [Prices!Model -> 0 .. file]
    BY <1>0
  <2>3. table' \in [Prices!Model -> 0 .. file]
    BY <2>1, <2>2
  <2>4. table' \in [Prices!Model -> 0 .. file'] /\ next' \in 1 .. (Models + 1)
    BY <1>0, <2>1, <2>3
  <2> QED BY <1>0, <2>1, <2>4 DEF Prices!TypeOK
<1>3. CASE Prices!SyncRestarts
  BY <1>0, <1>3 DEF Prices!TypeOK, Prices!SyncRestarts
<1>4. ASSUME NEW p \in Processes, Prices!Restart(p) PROVE Prices!TypeOK'
  BY <1>0, <1>4 DEF Prices!TypeOK, Prices!Restart
<1>5. ASSUME NEW p \in Processes, Prices!Load(p) PROVE Prices!TypeOK'
  BY <1>0, <1>5 DEF Prices!TypeOK, Prices!Load
<1>6. CASE UNCHANGED Prices!vars
  BY <1>0, <1>6 DEF Prices!TypeOK, Prices!vars
<1> QED BY <1>1, <1>2, <1>3, <1>4, <1>5, <1>6 DEF Prices!Next

-----------------------------------------------------------------------------
(* Last the lists, for any rows that ingestion may insert: T of traces, S  *)
(* of spans, and windows W.                                                *)
Anytime == [after |-> None, before |-> None]
WalkRecord(T, W) ==
  [at : {"idle", "rows", "total", "shown"}, window : W \cup {Anytime}, page : Nat, total : Nat,
   seen : SUBSET {r.id : r \in T}, held : SUBSET {r.id : r \in T}, plain : BOOLEAN]
ListTypes(T, S, W) ==
  /\ traces \subseteq T /\ spans \subseteq S /\ IsFiniteSet(traces) /\ IsFiniteSet(spans)
  /\ walk \in WalkRecord(T, W)
  /\ walk.total <= Cardinality({r.id : r \in traces})

LEMMA SameSize ==
  \A S : Walks!Cardinality(S) = Cardinality(S) /\ Sums!Cardinality(S) = Cardinality(S)
BY DEF Walks!Cardinality, Sums!Cardinality, Cardinality

LEMMA IdsAreFinite ==
  ASSUME NEW R, IsFiniteSet(R)
  PROVE  /\ IsFiniteSet({r.id : r \in R}) /\ Cardinality({r.id : r \in R}) \in Nat
         /\ Cardinality({r.id : r \in R}) >= 0
<1> DEFINE f == [r \in R |-> r.id]
<1>1. f \in Surjection(R, {r.id : r \in R})
  BY DEF Surjection
<1>2. IsFiniteSet({r.id : r \in R})
  BY <1>1, FS_Surjection
<1> QED BY <1>2, FS_CardinalityType

(* A row that replaces others of its trace takes no trace away.            *)
LEMMA RowAdded ==
  ASSUME IsFiniteSet(traces), NEW old, NEW r, \A x \in old : x.id = r.id,
         traces' = (traces \ old) \cup {r}
  PROVE  /\ IsFiniteSet(traces')
         /\ \A n \in Nat : n <= Cardinality({x.id : x \in traces}) =>
              n <= Cardinality({x.id : x \in traces'})
<1>1. IsFiniteSet(traces')
  <2>1. IsFiniteSet(traces \ old)
    BY FS_Subset
  <2> QED BY <2>1, FS_AddElement
<1>2. {x.id : x \in traces} \subseteq {x.id : x \in traces'}
  OBVIOUS
<1>3. /\ Cardinality({x.id : x \in traces}) <= Cardinality({x.id : x \in traces'})
      /\ Cardinality({x.id : x \in traces}) \in Nat /\ Cardinality({x.id : x \in traces'}) \in Nat
  BY <1>1, <1>2, IdsAreFinite, FS_Subset
<1>4. ASSUME NEW n \in Nat, n <= Cardinality({x.id : x \in traces})
      PROVE  n <= Cardinality({x.id : x \in traces'})
  <2> DEFINE a == Cardinality({x.id : x \in traces})
             b == Cardinality({x.id : x \in traces'})
  <2>1. n <= a /\ a <= b /\ a \in Nat /\ b \in Nat
    BY <1>3, <1>4
  <2> HIDE DEF a, b
  <2>2. n <= b
    BY <2>1
  <2> QED BY <2>2 DEF b
<1> QED BY <1>1, <1>4

LEMMA FewerOfThem ==
  ASSUME NEW A, NEW B, IsFiniteSet(B), A \subseteq B
  PROVE  Cardinality(A) \in Nat /\ Cardinality(A) <= Cardinality(B)
BY FS_Subset, FS_CardinalityType

LEMMA WalksInit == Walks!Init => ListTypes(WalkTraces, {}, WalkWindows)
<1> SUFFICES ASSUME Walks!Init PROVE ListTypes(WalkTraces, {}, WalkWindows)
  OBVIOUS
<1>1. IsFiniteSet(traces) /\ IsFiniteSet(spans) /\ {r.id : r \in traces} = {}
  BY FS_EmptySet DEF Walks!Init
<1>2. walk.total = 0 /\ Cardinality({r.id : r \in traces}) = 0
  BY <1>1, FS_EmptySet DEF Walks!Init
<1>3. walk \in WalkRecord(WalkTraces, WalkWindows)
  BY DEF Walks!Init, Walks!NoWindow, Anytime, WalkRecord
<1> QED BY <1>1, <1>2, <1>3 DEF Walks!Init, ListTypes

LEMMA WalksStep ==
  ASSUME ListTypes(WalkTraces, {}, WalkWindows), [Walks!Next]_(Walks!vars)
  PROVE  ListTypes(WalkTraces, {}, WalkWindows)'
<1>1. ASSUME NEW r \in WalkTraces, Walks!InsertTrace(r)
      PROVE  ListTypes(WalkTraces, {}, WalkWindows)'
  <2> DEFINE old == {x \in traces : Walks!TraceKey(x) = Walks!TraceKey(r)}
  <2>1. traces' = (traces \ old) \cup {r} /\ UNCHANGED spans
    BY <1>1 DEF Walks!InsertTrace
  <2>2. PICK b \in BOOLEAN : walk' = [walk EXCEPT !.plain = b]
    <3>1. (walk.plain /\ old \subseteq {r} /\ Walks!Plain(traces')) \in BOOLEAN
      BY DEF ListTypes, WalkRecord, Walks!Plain
    <3> QED BY <1>1, <3>1 DEF Walks!InsertTrace
  <2>3. walk' \in WalkRecord(WalkTraces, WalkWindows) /\ walk'.total = walk.total
    BY <2>2 DEF ListTypes, WalkRecord
  <2>4. \A x \in old : x.id = r.id
    BY DEF Walks!TraceKey
  <2>5. IsFiniteSet(traces) /\ traces \subseteq WalkTraces /\ walk.total \in Nat
    BY DEF ListTypes, WalkRecord
  <2> HIDE DEF old
  <2>6. IsFiniteSet(traces') /\ \A n \in Nat : n <= Cardinality({x.id : x \in traces}) =>
                                            n <= Cardinality({x.id : x \in traces'})
    BY <2>1, <2>4, <2>5, RowAdded
  <2>7. traces' \subseteq WalkTraces
    BY <2>1, <2>5
  <2> QED BY <2>1, <2>3, <2>5, <2>6, <2>7 DEF ListTypes
<1>2. ASSUME NEW s \in {}, Walks!InsertSpan(s)
      PROVE  ListTypes(WalkTraces, {}, WalkWindows)'
  <2>1. /\ spans' = {x \in spans : Walks!SpanKey(x) # Walks!SpanKey(s)} \cup {s}
        /\ UNCHANGED <<traces, walk>>
    BY <1>2 DEF Walks!InsertSpan
  <2>2. IsFiniteSet(spans') /\ spans' \subseteq {}
    <3>1. IsFiniteSet({x \in spans : Walks!SpanKey(x) # Walks!SpanKey(s)})
      BY FS_Subset DEF ListTypes
    <3> QED BY <2>1, <3>1, FS_AddElement DEF ListTypes
  <2> QED BY <2>1, <2>2 DEF ListTypes
<1>3. ASSUME NEW w \in WalkWindows, Walks!Open(w)
      PROVE  ListTypes(WalkTraces, {}, WalkWindows)'
  <2>1. /\ walk' = [at |-> "rows", window |-> w, page |-> 0, total |-> 0, seen |-> {},
                    held |-> {r.id : r \in Walks!Matching(w)}, plain |-> Walks!Plain(traces)]
        /\ UNCHANGED <<traces, spans>>
    BY <1>3 DEF Walks!Open
  <2>2. {r.id : r \in Walks!Matching(w)} \subseteq {r.id : r \in WalkTraces}
    BY DEF ListTypes, Walks!Matching
  <2>3. walk' \in WalkRecord(WalkTraces, WalkWindows) /\ walk'.total = 0
    BY <2>1, <2>2 DEF WalkRecord, Walks!Plain
  <2>4. Cardinality({r.id : r \in traces}) >= 0
    BY IdsAreFinite DEF ListTypes
  <2> QED BY <2>1, <2>3, <2>4 DEF ListTypes
<1>4. CASE Walks!QueryRows
  <2>1. PICK q \in Walks!Listings(walk.window) :
          walk' = [walk EXCEPT !.at = "total",
                               !.seen = @ \cup {r.id : r \in Walks!Page(q, walk.page)}]
    BY <1>4 DEF Walks!QueryRows
  <2>2. \A i \in DOMAIN q : q[i] \in traces
    BY DEF Walks!Listings, Walks!SetToSeqs, Walks!Matching
  <2>3. {r.id : r \in Walks!Page(q, walk.page)} \subseteq {r.id : r \in WalkTraces}
    BY <2>2 DEF Walks!Page, ListTypes
  <2>4. walk' \in WalkRecord(WalkTraces, WalkWindows) /\ walk'.total = walk.total
    BY <2>1, <2>3 DEF ListTypes, WalkRecord
  <2> QED BY <1>4, <2>4 DEF ListTypes, Walks!QueryRows
<1>5. CASE Walks!QueryTotal
  <2>1. walk' = [walk EXCEPT !.at = "shown", !.total = Walks!Total(walk.window)]
        /\ UNCHANGED <<traces, spans>>
    BY <1>5 DEF Walks!QueryTotal
  <2>2. {r.id : r \in Walks!Matching(walk.window)} \subseteq {r.id : r \in traces}
    BY DEF Walks!Matching
  <2>3. /\ Walks!Total(walk.window) \in Nat
        /\ Walks!Total(walk.window) <= Cardinality({r.id : r \in traces})
    <3>1. Walks!Total(walk.window) = Cardinality({r.id : r \in Walks!Matching(walk.window)})
      BY SameSize DEF Walks!Total
    <3>2. IsFiniteSet({r.id : r \in traces})
      BY IdsAreFinite DEF ListTypes
    <3> QED BY <2>2, <3>1, <3>2, FewerOfThem
  <2>4. walk' \in WalkRecord(WalkTraces, WalkWindows) /\ walk'.total = Walks!Total(walk.window)
    BY <2>1, <2>3 DEF ListTypes, WalkRecord
  <2> QED BY <2>1, <2>3, <2>4 DEF ListTypes
<1>6. CASE Walks!NextPage
  <2>1. walk' = [walk EXCEPT !.at = "rows", !.page = walk.page + 1] /\ UNCHANGED <<traces, spans>>
    BY <1>6 DEF Walks!NextPage
  <2>2. walk \in WalkRecord(WalkTraces, WalkWindows) /\ walk.page + 1 \in Nat
    BY DEF ListTypes, WalkRecord
  <2>3. walk' \in WalkRecord(WalkTraces, WalkWindows) /\ walk'.total = walk.total
    BY <2>1, <2>2 DEF WalkRecord
  <2> QED BY <2>1, <2>3 DEF ListTypes
<1>7. CASE UNCHANGED Walks!vars
  BY <1>7 DEF Walks!vars, ListTypes
<1> QED BY <1>1, <1>2, <1>3, <1>4, <1>5, <1>6, <1>7 DEF Walks!Next

LEMMA WalksTypes == ASSUME ListTypes(WalkTraces, {}, WalkWindows) PROVE Walks!TypeOK
<1>1. Cardinality({r.id : r \in traces}) \in Nat
  BY IdsAreFinite, FS_CardinalityType DEF ListTypes
<1>2. walk.total \in 0 .. Walks!Cardinality({r.id : r \in traces})
  BY <1>1, SameSize DEF ListTypes, WalkRecord
<1> QED BY <1>2 DEF ListTypes, WalkRecord, Walks!TypeOK, Walks!TraceId

LEMMA SumsInit == Sums!Init => ListTypes(SumTraces, SumSpans, SumWindows)
<1> SUFFICES ASSUME Sums!Init PROVE ListTypes(SumTraces, SumSpans, SumWindows)
  OBVIOUS
<1>1. IsFiniteSet(traces) /\ IsFiniteSet(spans) /\ {r.id : r \in traces} = {}
  BY FS_EmptySet DEF Sums!Init
<1>2. walk.total = 0 /\ Cardinality({r.id : r \in traces}) = 0
  BY <1>1, FS_EmptySet DEF Sums!Init
<1>3. walk \in WalkRecord(SumTraces, SumWindows)
  BY DEF Sums!Init, Sums!NoWindow, Anytime, WalkRecord
<1> QED BY <1>1, <1>2, <1>3 DEF Sums!Init, ListTypes

LEMMA SumsStep ==
  ASSUME ListTypes(SumTraces, SumSpans, SumWindows), [Sums!Next]_(Sums!vars)
  PROVE  ListTypes(SumTraces, SumSpans, SumWindows)'
<1>1. ASSUME NEW r \in SumTraces, Sums!InsertTrace(r)
      PROVE  ListTypes(SumTraces, SumSpans, SumWindows)'
  <2> DEFINE old == {x \in traces : Sums!TraceKey(x) = Sums!TraceKey(r)}
  <2>1. traces' = (traces \ old) \cup {r} /\ UNCHANGED spans
    BY <1>1 DEF Sums!InsertTrace
  <2>2. PICK b \in BOOLEAN : walk' = [walk EXCEPT !.plain = b]
    <3>1. (walk.plain /\ old \subseteq {r} /\ Sums!Plain(traces')) \in BOOLEAN
      BY DEF ListTypes, WalkRecord, Sums!Plain
    <3> QED BY <1>1, <3>1 DEF Sums!InsertTrace
  <2>3. walk' \in WalkRecord(SumTraces, SumWindows) /\ walk'.total = walk.total
    BY <2>2 DEF ListTypes, WalkRecord
  <2>4. \A x \in old : x.id = r.id
    BY DEF Sums!TraceKey
  <2>5. IsFiniteSet(traces) /\ traces \subseteq SumTraces /\ walk.total \in Nat
    BY DEF ListTypes, WalkRecord
  <2> HIDE DEF old
  <2>6. IsFiniteSet(traces') /\ \A n \in Nat : n <= Cardinality({x.id : x \in traces}) =>
                                            n <= Cardinality({x.id : x \in traces'})
    BY <2>1, <2>4, <2>5, RowAdded
  <2>7. traces' \subseteq SumTraces
    BY <2>1, <2>5
  <2> QED BY <2>1, <2>3, <2>5, <2>6, <2>7 DEF ListTypes
<1>2. ASSUME NEW s \in SumSpans, Sums!InsertSpan(s)
      PROVE  ListTypes(SumTraces, SumSpans, SumWindows)'
  <2>1. /\ spans' = {x \in spans : Sums!SpanKey(x) # Sums!SpanKey(s)} \cup {s}
        /\ UNCHANGED <<traces, walk>>
    BY <1>2 DEF Sums!InsertSpan
  <2>2. IsFiniteSet(spans') /\ spans' \subseteq SumSpans
    <3>1. IsFiniteSet({x \in spans : Sums!SpanKey(x) # Sums!SpanKey(s)})
      BY FS_Subset DEF ListTypes
    <3> QED BY <2>1, <3>1, FS_AddElement DEF ListTypes
  <2> QED BY <2>1, <2>2 DEF ListTypes
<1>3. ASSUME NEW w \in SumWindows, Sums!Open(w)
      PROVE  ListTypes(SumTraces, SumSpans, SumWindows)'
  <2>1. /\ walk' = [at |-> "rows", window |-> w, page |-> 0, total |-> 0, seen |-> {},
                    held |-> {r.id : r \in Sums!Matching(w)}, plain |-> Sums!Plain(traces)]
        /\ UNCHANGED <<traces, spans>>
    BY <1>3 DEF Sums!Open
  <2>2. {r.id : r \in Sums!Matching(w)} \subseteq {r.id : r \in SumTraces}
    BY DEF ListTypes, Sums!Matching
  <2>3. walk' \in WalkRecord(SumTraces, SumWindows) /\ walk'.total = 0
    BY <2>1, <2>2 DEF WalkRecord, Sums!Plain
  <2>4. Cardinality({r.id : r \in traces}) >= 0
    BY IdsAreFinite DEF ListTypes
  <2> QED BY <2>1, <2>3, <2>4 DEF ListTypes
<1>4. CASE Sums!QueryRows
  <2>1. PICK q \in Sums!Listings(walk.window) :
          walk' = [walk EXCEPT !.at = "total",
                               !.seen = @ \cup {r.id : r \in Sums!Page(q, walk.page)}]
    BY <1>4 DEF Sums!QueryRows
  <2>2. \A i \in DOMAIN q : q[i] \in traces
    BY DEF Sums!Listings, Sums!SetToSeqs, Sums!Matching
  <2>3. {r.id : r \in Sums!Page(q, walk.page)} \subseteq {r.id : r \in SumTraces}
    BY <2>2 DEF Sums!Page, ListTypes
  <2>4. walk' \in WalkRecord(SumTraces, SumWindows) /\ walk'.total = walk.total
    BY <2>1, <2>3 DEF ListTypes, WalkRecord
  <2> QED BY <1>4, <2>4 DEF ListTypes, Sums!QueryRows
<1>5. CASE Sums!QueryTotal
  <2>1. walk' = [walk EXCEPT !.at = "shown", !.total = Sums!Total(walk.window)]
        /\ UNCHANGED <<traces, spans>>
    BY <1>5 DEF Sums!QueryTotal
  <2>2. {r.id : r \in Sums!Matching(walk.window)} \subseteq {r.id : r \in traces}
    BY DEF Sums!Matching
  <2>3. /\ Sums!Total(walk.window) \in Nat
        /\ Sums!Total(walk.window) <= Cardinality({r.id : r \in traces})
    <3>1. Sums!Total(walk.window) = Cardinality({r.id : r \in Sums!Matching(walk.window)})
      BY SameSize DEF Sums!Total
    <3>2. IsFiniteSet({r.id : r \in traces})
      BY IdsAreFinite DEF ListTypes
    <3> QED BY <2>2, <3>1, <3>2, FewerOfThem
  <2>4. walk' \in WalkRecord(SumTraces, SumWindows) /\ walk'.total = Sums!Total(walk.window)
    BY <2>1, <2>3 DEF ListTypes, WalkRecord
  <2> QED BY <2>1, <2>3, <2>4 DEF ListTypes
<1>6. CASE Sums!NextPage
  <2>1. walk' = [walk EXCEPT !.at = "rows", !.page = walk.page + 1] /\ UNCHANGED <<traces, spans>>
    BY <1>6 DEF Sums!NextPage
  <2>2. walk \in WalkRecord(SumTraces, SumWindows) /\ walk.page + 1 \in Nat
    BY DEF ListTypes, WalkRecord
  <2>3. walk' \in WalkRecord(SumTraces, SumWindows) /\ walk'.total = walk.total
    BY <2>1, <2>2 DEF WalkRecord
  <2> QED BY <2>1, <2>3 DEF ListTypes
<1>7. CASE UNCHANGED Sums!vars
  BY <1>7 DEF Sums!vars, ListTypes
<1> QED BY <1>1, <1>2, <1>3, <1>4, <1>5, <1>6, <1>7 DEF Sums!Next

LEMMA SumsTypes == ASSUME ListTypes(SumTraces, SumSpans, SumWindows) PROVE Sums!TypeOK
<1>1. Cardinality({r.id : r \in traces}) \in Nat
  BY IdsAreFinite, FS_CardinalityType DEF ListTypes
<1>2. walk.total \in 0 .. Sums!Cardinality({r.id : r \in traces})
  BY <1>1, SameSize DEF ListTypes, WalkRecord
<1> QED BY <1>2 DEF ListTypes, WalkRecord, Sums!TypeOK, Sums!TraceId

-----------------------------------------------------------------------------
(* A walk.  In a list without equal times a row comes after the newer ones *)
(* only; rows that are inserted push it further back.                      *)
LEMMA Position ==
  ASSUME IsFiniteSet(traces), Walks!Plain(traces), \A r \in traces : r.time \in Nat,
         NEW w, NEW q \in Walks!Listings(w), NEW r \in Walks!Matching(w)
  PROVE  \E i \in DOMAIN q :
           q[i] = r /\ i = Cardinality({x \in Walks!Matching(w) : x.time > r.time}) + 1
<1>1. PICK M : M = Walks!Matching(w)
  OBVIOUS
<1>2. M \subseteq traces /\ IsFiniteSet(M)
  BY <1>1, FS_Subset DEF Walks!Matching
<1>3. PICK n \in Nat : n = Cardinality(M)
  BY <1>2, FS_CardinalityType
<1>4. /\ q \in [1 .. n -> M] /\ \A i, j \in 1 .. n : i # j => q[i] # q[j]
      /\ \A i, j \in 1 .. n : i < j => q[i].time >= q[j].time
  BY <1>1, <1>3, SameSize DEF Walks!Listings, Walks!SetToSeqs
<1>5. q \in Injection(1 .. n, M)
  BY <1>4 DEF Injection, IsInjective
<1>6. Cardinality(1 .. n) = n
  BY FS_Interval
<1>7. q \in Surjection(1 .. n, M)
  BY <1>2, <1>3, <1>5, <1>6, FS_Injection
<1>8. PICK i \in 1 .. n : q[i] = r
  BY <1>1, <1>7 DEF Surjection
<1> DEFINE New == {x \in M : x.time > r.time}
           f == [j \in 1 .. i - 1 |-> q[j]]
<1>9. ASSUME NEW j \in 1 .. n PROVE j < i <=> q[j].time > r.time
  <2>1. q[j] \in traces /\ r \in traces /\ q[j].time \in Nat /\ r.time \in Nat
    BY <1>1, <1>2, <1>4
  <2>2. q[j] # r => q[j].time # r.time
    BY <2>1 DEF Walks!Plain
  <2>3. CASE j < i
    <3>1. q[j].time >= r.time /\ q[j] # r
      BY <1>4, <1>8, <2>3
    <3> QED BY <2>1, <2>2, <2>3, <3>1
  <2>4. CASE j = i
    BY <1>8, <2>1, <2>4
  <2>5. CASE j > i
    <3>1. r.time >= q[j].time
      BY <1>4, <1>8, <2>5
    <3> QED BY <2>1, <2>5, <3>1
  <2> QED BY <2>3, <2>4, <2>5
<1>10. f \in [1 .. i - 1 -> New] /\ \A j, k \in 1 .. i - 1 : f[j] = f[k] => j = k
  <2>1. \A j \in 1 .. i - 1 : j \in 1 .. n /\ j < i
    OBVIOUS
  <2> QED BY <1>4, <1>9, <2>1
<1>11. \A x \in New : \E j \in 1 .. i - 1 : f[j] = x
  <2>1. ASSUME NEW x \in New PROVE \E j \in 1 .. i - 1 : f[j] = x
    <3>1. PICK j \in 1 .. n : q[j] = x
      BY <1>7 DEF Surjection
    <3>2. j \in 1 .. i - 1
      BY <1>9, <3>1
    <3> QED BY <3>1, <3>2
  <2> QED BY <2>1
<1>12. f \in Bijection(1 .. i - 1, New)
  <2> HIDE DEF f, New
  <2>1. DOMAIN f = 1 .. i - 1
    BY <1>10
  <2> QED BY <1>10, <1>11, <2>1 DEF Bijection, Injection, Surjection, IsInjective
<1>13. Cardinality(New) = i - 1
  <2>1. IsFiniteSet(1 .. i - 1) /\ Cardinality(1 .. i - 1) = i - 1
    BY FS_Interval
  <2>2. ExistsBijection(1 .. i - 1, New)
    <3> HIDE DEF f, New
    <3> QED BY <1>12 DEF ExistsBijection
  <2> HIDE DEF New
  <2> QED BY <2>1, <2>2, FS_Bijection
<1>14. i = Cardinality(New) + 1 /\ DOMAIN q = 1 .. n
  BY <1>4, <1>13
<1> QED BY <1>1, <1>8, <1>14

(* So the pages up to the last one read hold every row that was there when *)
(* the walk began and has few newer ones.                                  *)
Newer(r) == {x \in Walks!Matching(walk.window) : x.time > r.time}
Behind(n) ==
  \A r \in Walks!Matching(walk.window) :
    r.id \in walk.held /\ Cardinality(Newer(r)) < n => r.id \in walk.seen

WalkTypes == ListTypes(WalkTraces, {}, WalkWindows)
WalkInv ==
  /\ WalkTypes
  /\ walk.plain =>
       /\ Walks!Plain(traces)
       /\ walk.held \subseteq {r.id : r \in Walks!Matching(walk.window)}
       /\ walk.at = "rows" => Behind(walk.page * Limit)
       /\ walk.at \in {"total", "shown"} => Behind((walk.page + 1) * Limit)
       /\ walk.at = "shown" /\ walk.total <= (walk.page + 1) * Limit => walk.held \subseteq walk.seen

LEMMA WalkInit == Walks!Init => WalkInv
<1> SUFFICES ASSUME Walks!Init PROVE WalkInv
  OBVIOUS
<1>1. WalkTypes
  BY WalksInit DEF WalkTypes
<1>2. /\ walk.at = "idle" /\ walk.held = {} /\ traces = {}
  BY DEF Walks!Init
<1> QED BY <1>1, <1>2 DEF WalkInv, Walks!Plain

LEMMA WalkInsert ==
  ASSUME Walks!ReaderAssumption, WalkInv, NEW r \in WalkTraces, Walks!InsertTrace(r), WalkTypes'
  PROVE  WalkInv'
<1> DEFINE old == {x \in traces : Walks!TraceKey(x) = Walks!TraceKey(r)}
<1> SUFFICES ASSUME walk'.plain
             PROVE  /\ Walks!Plain(traces')
                    /\ walk'.held \subseteq {y.id : y \in Walks!Matching(walk.window)'}
                    /\ walk'.at = "rows" => Behind(walk.page * Limit)'
                    /\ walk'.at \in {"total", "shown"} => Behind((walk.page + 1) * Limit)'
                    /\ walk'.at = "shown" /\ walk'.total <= (walk'.page + 1) * Limit
                         => walk'.held \subseteq walk'.seen
  BY DEF WalkInv, Walks!Plain
<1>1. /\ traces' = (traces \ old) \cup {r}
      /\ walk' = [walk EXCEPT !.plain = @ /\ old \subseteq {r} /\ Walks!Plain(traces')]
  BY DEF Walks!InsertTrace
<1>2. walk \in WalkRecord(WalkTraces, WalkWindows) /\ IsFiniteSet(traces)
  BY DEF WalkInv, WalkTypes, ListTypes
<1>3. walk.plain /\ old \subseteq {r} /\ Walks!Plain(traces')
  <2>1. walk'.plain = (walk.plain /\ old \subseteq {r} /\ Walks!Plain(traces'))
    <3> HIDE DEF old
    <3> QED BY <1>1, <1>2 DEF WalkRecord
  <2> QED BY <2>1
<1>4. /\ walk'.at = walk.at /\ walk'.window = walk.window /\ walk'.page = walk.page
      /\ walk'.total = walk.total /\ walk'.seen = walk.seen /\ walk'.held = walk.held
  <2> HIDE DEF old
  <2> QED BY <1>1, <1>2 DEF WalkRecord
<1>5. traces \subseteq traces' /\ traces' \subseteq traces \cup {r}
  BY <1>1, <1>3
<1>6. Walks!Matching(walk.window) \subseteq Walks!Matching(walk.window)'
      /\ Walks!Matching(walk.window)' \subseteq traces'
      /\ IsFiniteSet(Walks!Matching(walk.window)')
  <2>1. IsFiniteSet(traces')
    BY DEF WalkTypes, ListTypes
  <2>2. Walks!Matching(walk.window)' = {x \in traces' : Walks!InWindow(x.time, walk.window)}
    BY <1>4 DEF Walks!Matching, Walks!InWindow
  <2> QED BY <1>5, <2>1, <2>2, FS_Subset DEF Walks!Matching
<1>7. walk'.held \subseteq {y.id : y \in Walks!Matching(walk.window)'}
  BY <1>3, <1>4, <1>6 DEF WalkInv
<1>8. ASSUME NEW n \in Nat, Behind(n) PROVE Behind(n)'
  <2> SUFFICES ASSUME NEW x \in Walks!Matching(walk.window)', x.id \in walk.held,
                      Cardinality(Newer(x)') < n
               PROVE  x.id \in walk.seen
    BY <1>4 DEF Behind
  <2>1. PICK y \in Walks!Matching(walk.window) : y.id = x.id
    BY <1>3 DEF WalkInv
  <2>2. x = y
    BY <1>3, <1>6, <2>1 DEF Walks!Plain
  <2>3. Newer(x) \subseteq Newer(x)'
    BY <1>4, <1>6 DEF Newer
  <2>4. Newer(x)' \subseteq Walks!Matching(walk.window)'
    BY DEF Newer
  <2>5. IsFiniteSet(Newer(x)')
    BY <1>6, <2>4, FS_Subset
  <2>6. /\ Cardinality(Newer(x)) <= Cardinality(Newer(x)')
        /\ Cardinality(Newer(x)) \in Nat /\ Cardinality(Newer(x)') \in Nat
    BY <2>3, <2>5, FS_Subset, FS_CardinalityType
  <2>7. Cardinality(Newer(x)) < n
    BY <2>6
  <2>8. x \in Walks!Matching(walk.window) /\ x.id \in walk.held
    BY <2>1, <2>2
  <2>9. \A z \in Walks!Matching(walk.window) :
          z.id \in walk.held /\ Cardinality(Newer(z)) < n => z.id \in walk.seen
    BY <1>8 DEF Behind
  <2> HIDE DEF old
  <2> QED BY <2>7, <2>8, <2>9
<1>9. walk.page * Limit \in Nat /\ (walk.page + 1) * Limit \in Nat
  BY <1>2 DEF WalkRecord, Walks!ReaderAssumption
<1>10. walk'.at = "rows" => Behind(walk.page * Limit)'
  <2>1. PICK n \in Nat : n = walk.page * Limit
    BY <1>9
  <2>2. n = walk'.page * Limit
    BY <1>4, <2>1
  <2> QED BY <1>3, <1>4, <1>8, <2>1, <2>2 DEF WalkInv
<1>11. walk'.at \in {"total", "shown"} => Behind((walk.page + 1) * Limit)'
  <2>1. PICK n \in Nat : n = (walk.page + 1) * Limit
    BY <1>9
  <2>2. n = (walk'.page + 1) * Limit
    BY <1>4, <2>1
  <2> QED BY <1>3, <1>4, <1>8, <2>1, <2>2 DEF WalkInv
<1>12. walk'.at = "shown" /\ walk'.total <= (walk'.page + 1) * Limit => walk'.held \subseteq walk'.seen
  BY <1>3, <1>4 DEF WalkInv
<1> QED BY <1>3, <1>7, <1>10, <1>11, <1>12

LEMMA WalkRows ==
  ASSUME Walks!ReaderAssumption, WalkInv, Walks!QueryRows, WalkTypes' PROVE WalkInv'
<1>1. walk.at = "rows" /\ UNCHANGED <<traces, spans>>
  BY DEF Walks!QueryRows
<1>2. PICK q \in Walks!Listings(walk.window) :
        walk' = [walk EXCEPT !.at = "total",
                             !.seen = @ \cup {r.id : r \in Walks!Page(q, walk.page)}]
  BY DEF Walks!QueryRows
<1>3. walk \in WalkRecord(WalkTraces, WalkWindows) /\ IsFiniteSet(traces)
      /\ traces \subseteq WalkTraces
  BY DEF WalkInv, WalkTypes, ListTypes
<1>4. /\ walk'.at = "total" /\ walk'.window = walk.window /\ walk'.page = walk.page
      /\ walk'.plain = walk.plain /\ walk'.held = walk.held
      /\ walk'.seen = walk.seen \cup {r.id : r \in Walks!Page(q, walk.page)}
  BY <1>2, <1>3 DEF WalkRecord
<1>5. Walks!Matching(walk.window)' = Walks!Matching(walk.window)
  BY <1>1, <1>4 DEF Walks!Matching, Walks!InWindow
<1>6. PICK m \in Nat : m = walk.page * Limit
  BY <1>3 DEF WalkRecord, Walks!ReaderAssumption
<1>7. (walk.page + 1) * Limit = m + Limit /\ Limit \in Nat /\ m + Limit \in Nat
  BY <1>3, <1>6 DEF WalkRecord, Walks!ReaderAssumption
<1>8. ASSUME walk.plain, NEW r \in Walks!Matching(walk.window), r.id \in walk.held,
             Cardinality(Newer(r)) < m + Limit
      PROVE  r.id \in walk'.seen
  <2>1. Walks!Plain(traces) /\ Behind(m)
    BY <1>1, <1>6, <1>8 DEF WalkInv
  <2>2. CASE Cardinality(Newer(r)) < m
    BY <1>4, <1>8, <2>1, <2>2 DEF Behind
  <2>3. CASE ~(Cardinality(Newer(r)) < m)
    <3>1. PICK i \in DOMAIN q : q[i] = r /\ i = Cardinality(Newer(r)) + 1
      BY <1>3, <2>1, Position DEF Newer, Walks!ReaderAssumption
    <3>2. Cardinality(Newer(r)) \in Nat
      <4>1. Newer(r) \subseteq traces
        BY DEF Newer, Walks!Matching
      <4> QED BY <1>3, <4>1, FS_Subset, FS_CardinalityType
    <3>3. i \in m + 1 .. m + Limit
      BY <1>7, <1>8, <2>3, <3>1, <3>2
    <3>4. i \in walk.page * Limit + 1 .. (walk.page + 1) * Limit
      BY <1>6, <1>7, <3>3
    <3>5. r \in Walks!Page(q, walk.page)
      BY <3>1, <3>4 DEF Walks!Page
    <3> QED BY <1>4, <3>5
  <2> QED BY <2>2, <2>3
<1>9. walk.plain => Behind((walk.page + 1) * Limit)'
  <2>1. \A r : Newer(r)' = Newer(r)
    BY <1>5 DEF Newer
  <2>2. (walk'.page + 1) * Limit = m + Limit
    BY <1>4, <1>7
  <2> QED BY <1>4, <1>5, <1>8, <2>1, <2>2 DEF Behind
<1>10. walk.plain => Walks!Plain(traces') /\ walk'.held \subseteq {r.id : r \in Walks!Matching(walk.window)'}
  BY <1>1, <1>4, <1>5 DEF WalkInv
<1> QED BY <1>1, <1>4, <1>9, <1>10 DEF WalkInv, Walks!Plain

LEMMA WalkTotal ==
  ASSUME Walks!ReaderAssumption, WalkInv, Walks!QueryTotal, WalkTypes' PROVE WalkInv'
<1>1. walk.at = "total" /\ UNCHANGED <<traces, spans>>
      /\ walk' = [walk EXCEPT !.at = "shown", !.total = Walks!Total(walk.window)]
  BY DEF Walks!QueryTotal
<1>2. walk \in WalkRecord(WalkTraces, WalkWindows) /\ IsFiniteSet(traces)
      /\ traces \subseteq WalkTraces
  BY DEF WalkInv, WalkTypes, ListTypes
<1>3. /\ walk'.at = "shown" /\ walk'.window = walk.window /\ walk'.page = walk.page
      /\ walk'.plain = walk.plain /\ walk'.held = walk.held /\ walk'.seen = walk.seen
      /\ walk'.total = Walks!Total(walk.window)
  BY <1>1, <1>2 DEF WalkRecord
<1>4. Walks!Matching(walk.window)' = Walks!Matching(walk.window)
  BY <1>1, <1>3 DEF Walks!Matching, Walks!InWindow
<1>5. \A r : Newer(r)' = Newer(r)
  BY <1>4 DEF Newer
<1>6. walk.plain => Behind((walk.page + 1) * Limit)'
  BY <1>1, <1>3, <1>4, <1>5 DEF Behind, WalkInv
<1>7. PICK k \in Nat : k = (walk.page + 1) * Limit
  BY <1>2 DEF WalkRecord, Walks!ReaderAssumption
<1>8. ASSUME walk.plain, Walks!Total(walk.window) <= k, NEW d \in walk.held PROVE d \in walk.seen
  <2>1. PICK M : M = Walks!Matching(walk.window)
    OBVIOUS
  <2>2. M \subseteq traces /\ IsFiniteSet(M)
    BY <1>2, <2>1, FS_Subset DEF Walks!Matching
  <2>3. PICK r \in M : r.id = d
    BY <1>8, <2>1 DEF WalkInv
  <2>4. Walks!Total(walk.window) = Cardinality(M)
    <3> DEFINE f == [x \in M |-> x.id]
    <3>1. f \in Bijection(M, {x.id : x \in M})
      BY <1>8, <2>2 DEF Bijection, Injection, Surjection, IsInjective, Walks!Plain, WalkInv
    <3>2. Cardinality({x.id : x \in M}) = Cardinality(M)
      <4>1. ExistsBijection(M, {x.id : x \in M})
        BY <3>1 DEF ExistsBijection
      <4> QED BY <2>2, <4>1, FS_Bijection
    <3> QED BY <2>1, <3>2, SameSize DEF Walks!Total
  <2>5. Newer(r) \subseteq M \ {r}
    <3>1. r.time \in Nat
      BY <1>2, <2>2 DEF Walks!ReaderAssumption
    <3> QED BY <2>1, <3>1 DEF Newer
  <2>6. Cardinality(Newer(r)) < Cardinality(M)
    <3>1. Cardinality(M \ {r}) = Cardinality(M) - 1 /\ IsFiniteSet(M \ {r})
      BY <2>2, FS_RemoveElement
    <3>2. Cardinality(Newer(r)) <= Cardinality(M \ {r}) /\ IsFiniteSet(Newer(r))
      BY <2>5, <3>1, FS_Subset
    <3>3. Cardinality(M) \in Nat /\ Cardinality(Newer(r)) \in Nat
      BY <2>2, <3>2, FS_CardinalityType
    <3> QED BY <3>1, <3>2, <3>3
  <2>7. Cardinality(Newer(r)) < k
    <3>1. Cardinality(M) \in Nat /\ Cardinality(Newer(r)) \in Nat
      BY <2>2, <2>5, FS_Subset, FS_CardinalityType
    <3> QED BY <1>8, <2>4, <2>6, <3>1
  <2>8. Behind(k)
    BY <1>1, <1>7, <1>8 DEF WalkInv
  <2> QED BY <2>1, <2>3, <2>7, <2>8 DEF Behind
<1>9. walk'.plain => /\ Walks!Plain(traces')
                     /\ walk'.held \subseteq {r.id : r \in Walks!Matching(walk.window)'}
                     /\ walk'.total <= (walk'.page + 1) * Limit => walk'.held \subseteq walk'.seen
  BY <1>1, <1>3, <1>4, <1>7, <1>8 DEF WalkInv
<1> QED BY <1>3, <1>6, <1>9 DEF WalkInv, Walks!Plain

LEMMA WalkStep ==
  ASSUME Walks!ReaderAssumption, WalkInv, [Walks!Next]_(Walks!vars) PROVE WalkInv'
<1>0. WalkTypes'
  BY WalksStep DEF WalkInv, WalkTypes
<1>1. ASSUME NEW w \in WalkWindows, Walks!Open(w) PROVE WalkInv'
  <2>1. /\ walk' = [at |-> "rows", window |-> w, page |-> 0, total |-> 0, seen |-> {},
                    held |-> {r.id : r \in Walks!Matching(w)}, plain |-> Walks!Plain(traces)]
        /\ UNCHANGED <<traces, spans>>
    BY <1>1 DEF Walks!Open
  <2>2. Walks!Matching(walk.window)' = Walks!Matching(w)
    BY <2>1 DEF Walks!Matching, Walks!InWindow
  <2>3. Behind(walk.page * Limit)'
    <3>1. walk'.page * Limit = 0
      BY <2>1 DEF Walks!ReaderAssumption
    <3>2. ASSUME NEW r \in Walks!Matching(w) PROVE ~(Cardinality(Newer(r)') < 0)
      <4>1. Newer(r)' \subseteq traces /\ IsFiniteSet(traces)
        BY <2>1, <2>2 DEF Newer, Walks!Matching, WalkInv, WalkTypes, ListTypes
      <4>2. Cardinality(Newer(r)') \in Nat
        BY <4>1, FS_Subset, FS_CardinalityType
      <4> QED BY <4>2
    <3> QED BY <2>2, <3>1, <3>2 DEF Behind
  <2>4. /\ walk'.at = "rows" /\ walk'.plain = Walks!Plain(traces)
        /\ walk'.held = {r.id : r \in Walks!Matching(w)}
    BY <2>1
  <2> QED BY <1>0, <2>1, <2>2, <2>3, <2>4 DEF WalkInv, Walks!Plain
<1>2. CASE Walks!NextPage
  <2>1. /\ walk.at = "shown" /\ walk' = [walk EXCEPT !.at = "rows", !.page = @ + 1]
        /\ UNCHANGED <<traces, spans>>
    BY <1>2 DEF Walks!NextPage
  <2>2. /\ walk'.at = "rows" /\ walk'.window = walk.window /\ walk'.page = walk.page + 1
        /\ walk'.plain = walk.plain /\ walk'.held = walk.held /\ walk'.seen = walk.seen
    BY <2>1 DEF WalkRecord, WalkInv, WalkTypes, ListTypes
  <2>3. Walks!Matching(walk.window)' = Walks!Matching(walk.window)
    BY <2>1, <2>2 DEF Walks!Matching, Walks!InWindow
  <2>4. \A r : Newer(r)' = Newer(r)
    BY <2>3 DEF Newer
  <2>5. walk.plain => Behind(walk.page * Limit)'
    BY <2>1, <2>2, <2>3, <2>4 DEF Behind, WalkInv
  <2> QED BY <1>0, <2>1, <2>2, <2>3, <2>5 DEF WalkInv, Walks!Plain
<1>3. CASE UNCHANGED Walks!vars \/ \E s \in {} : Walks!InsertSpan(s)
  <2>1. UNCHANGED <<traces, walk>>
    BY <1>3 DEF Walks!vars
  <2> QED BY <1>0, <2>1 DEF WalkInv, Walks!Plain, Walks!Matching, Walks!InWindow, Behind, Newer
<1> QED BY <1>0, <1>1, <1>2, <1>3, WalkInsert, WalkRows, WalkTotal DEF Walks!Next

(* The last page is the one whose rows reach the total.                    *)
LEMMA LastPage ==
  ASSUME Walks!ReaderAssumption, WalkTypes, Walks!AtLastPage
  PROVE  walk.total <= (walk.page + 1) * Limit
<1>1. PICK t \in Nat, p \in Nat, l \in Nat \ {0} : t = walk.total /\ p = walk.page /\ l = Limit
  BY DEF WalkTypes, ListTypes, WalkRecord, Walks!ReaderAssumption
<1>2. p + 1 >= (t + l - 1) \div l
  BY <1>1 DEF Walks!AtLastPage, Walks!TotalPages
<1>3. PICK d \in Nat : d = (t + l - 1) \div l /\ t + l - 1 < (d + 1) * l
  <2>1. \A a \in Nat : (a \div l) \in Nat /\ a < ((a \div l) + 1) * l
    OBVIOUS
  <2> QED BY <1>1, <2>1
<1>4. t - 1 < d * l
  BY <1>1, <1>3
<1>5. t <= d * l
  BY <1>1, <1>3, <1>4
<1>6. d * l <= (p + 1) * l
  BY <1>1, <1>2, <1>3
<1> QED BY <1>1, <1>5, <1>6

LEMMA WalkSays ==
  ASSUME Walks!ReaderAssumption, WalkInv PROVE Walks!NothingIsSkipped
BY LastPage DEF WalkInv, Walks!NothingIsSkipped

-----------------------------------------------------------------------------
(* The sums.  Some spans have no tokens to count.                          *)
SumTypes == ListTypes(SumTraces, SumSpans, SumWindows)
Counted(S) == {s \in S : s.tokens # None}
TokensOf == [s \in spans |-> IF s.tokens = None THEN 0 ELSE s.tokens]

(* What the sum over the spans of S is, by a function that sums over all.  *)
LEMMA TokenSum ==
  ASSUME SumTypes, Sums!ReaderAssumption, NEW g, Summing(g, spans, TokensOf), NEW S \in SUBSET spans
  PROVE  Sums!Tokens(S) = IF Counted(S) = {} THEN None ELSE g[Counted(S)]
<1>1. PICK K : K = Counted(S)
  OBVIOUS
<1>2. K \in SUBSET spans /\ \A x \in K : x.tokens = TokensOf[x]
  BY <1>1 DEF Counted, TokensOf
<1>3. IsFiniteSet(spans) /\ TokensOf \in [spans -> Nat]
  BY DEF SumTypes, ListTypes, Sums!ReaderAssumption, TokensOf
<1> DEFINE Iter(h) == h = [s \in SUBSET K |->
                             IF s = {} THEN 0
                             ELSE LET x == CHOOSE y \in s : TRUE IN x.tokens + h[s \ {x}]]
<1>4. Sums!Tokens(S) = IF K = {} THEN None ELSE (CHOOSE h : Iter(h))[K]
  BY <1>1 DEF Sums!Tokens, Sums!SumOf, Sums!MapThenSumSet, Sums!MapThenFoldSet, Counted
<1>5. Iter([s \in SUBSET K |-> g[s]])
  <2> DEFINE h == [s \in SUBSET K |-> g[s]]
  <2>1. ASSUME NEW s \in SUBSET K, s # {}
        PROVE  h[s] = LET x == CHOOSE y \in s : TRUE IN x.tokens + h[s \ {x}]
    <3>1. PICK x \in s : x = CHOOSE y \in s : TRUE
      BY <2>1
    <3>2. g[s] = TokensOf[x] + g[s \ {x}]
      BY <1>2, <2>1, <3>1 DEF Summing, SumRule
    <3>3. h[s] = g[s] /\ h[s \ {x}] = g[s \ {x}] /\ x.tokens = TokensOf[x]
      BY <1>2
    <3> HIDE DEF h
    <3> QED BY <3>1, <3>2, <3>3
  <2>2. h[{}] = 0
    BY DEF Summing, SumRule
  <2>3. h = [s \in SUBSET K |-> h[s]]
    OBVIOUS
  <2> HIDE DEF h
  <2>4. Iter(h)
    BY <2>1, <2>2, <2>3
  <2> QED BY <2>4 DEF h
<1>6. PICK h : Iter(h) /\ h = CHOOSE i : Iter(i)
  <2> HIDE DEF Iter
  <2> QED BY <1>5
<1>7. SumRule(h, K, TokensOf)
  <2>1. ASSUME NEW s \in SUBSET K, s # {}
        PROVE  h[s] = LET x == CHOOSE y \in s : TRUE IN TokensOf[x] + h[s \ {x}]
    <3>1. PICK x \in s : x = CHOOSE y \in s : TRUE
      BY <2>1
    <3>2. h[s] = x.tokens + h[s \ {x}]
      BY <1>6, <2>1, <3>1
    <3> QED BY <1>2, <3>1, <3>2
  <2>2. h[{}] = 0
    BY <1>6
  <2> HIDE DEF Iter
  <2> QED BY <2>1, <2>2 DEF SumRule
<1>8. h[K] = g[K]
  <2> HIDE DEF Iter
  <2> QED BY <1>2, <1>3, <1>7, SumIsOne
<1> HIDE DEF Iter
<1> QED BY <1>1, <1>4, <1>6, <1>8

(* The same of a sum of sums, over the rows of R.                          *)
OfTrace(r) == Counted(Sums!SpansOf({r.id}))
OfTraces(R) == Counted(Sums!SpansOf({r.id : r \in R}))
Worth(R) == {r \in R : OfTrace(r) # {}}

LEMMA JoinedSum ==
  ASSUME SumTypes, Sums!ReaderAssumption, NEW g, Summing(g, spans, TokensOf), NEW R, IsFiniteSet(R),
         NEW f, f = [r \in R |-> g[OfTrace(r)]], NEW k, Summing(k, R, f)
  PROVE  Sums!JoinedTokens(R) = IF Worth(R) = {} THEN None ELSE k[Worth(R)]
<1>1. PICK K : K = Worth(R)
  OBVIOUS
<1>2. ASSUME NEW r \in R
      PROVE  /\ Sums!Tokens(Sums!SpansOf({r.id})) = IF OfTrace(r) = {} THEN None ELSE g[OfTrace(r)]
             /\ g[OfTrace(r)] \in Nat
  <2>1. Sums!SpansOf({r.id}) \in SUBSET spans /\ OfTrace(r) \in SUBSET spans
    BY DEF Sums!SpansOf, OfTrace, Counted
  <2>2. g[OfTrace(r)] \in Nat
    BY <2>1 DEF Summing, SumRule
  <2> QED BY <2>1, <2>2, TokenSum DEF OfTrace
<1>3. f \in [R -> Nat] /\ None \notin Nat
  BY <1>2 DEF Sums!ReaderAssumption
<1>4. K = {r \in R : Sums!Tokens(Sums!SpansOf({r.id})) # None}
  BY <1>1, <1>2, <1>3 DEF Worth
<1>5. K \in SUBSET R /\ \A x \in K : Sums!Tokens(Sums!SpansOf({x.id})) = f[x]
  BY <1>1, <1>2 DEF Worth
<1> DEFINE Iter(h) == h = [s \in SUBSET K |->
                             IF s = {} THEN 0
                             ELSE LET x == CHOOSE y \in s : TRUE
                                  IN Sums!Tokens(Sums!SpansOf({x.id})) + h[s \ {x}]]
<1>6. Sums!JoinedTokens(R) = IF K = {} THEN None ELSE (CHOOSE h : Iter(h))[K]
  BY <1>4 DEF Sums!JoinedTokens, Sums!SumOf, Sums!MapThenSumSet, Sums!MapThenFoldSet
<1>7. Iter([s \in SUBSET K |-> k[s]])
  <2> DEFINE h == [s \in SUBSET K |-> k[s]]
  <2>1. ASSUME NEW s \in SUBSET K, s # {}
        PROVE  h[s] = LET x == CHOOSE y \in s : TRUE
                      IN Sums!Tokens(Sums!SpansOf({x.id})) + h[s \ {x}]
    <3>1. PICK x \in s : x = CHOOSE y \in s : TRUE
      BY <2>1
    <3>2. k[s] = f[x] + k[s \ {x}]
      BY <1>5, <2>1, <3>1 DEF Summing, SumRule
    <3>3. h[s] = k[s] /\ h[s \ {x}] = k[s \ {x}] /\ Sums!Tokens(Sums!SpansOf({x.id})) = f[x]
      BY <1>5
    <3> HIDE DEF h
    <3> QED BY <3>1, <3>2, <3>3
  <2>2. h[{}] = 0
    BY DEF Summing, SumRule
  <2>3. h = [s \in SUBSET K |-> h[s]]
    OBVIOUS
  <2> HIDE DEF h
  <2>4. Iter(h)
    BY <2>1, <2>2, <2>3
  <2> QED BY <2>4 DEF h
<1>8. PICK h : Iter(h) /\ h = CHOOSE i : Iter(i)
  <2> HIDE DEF Iter
  <2> QED BY <1>7
<1>9. SumRule(h, K, f)
  <2>1. ASSUME NEW s \in SUBSET K, s # {}
        PROVE  h[s] = LET x == CHOOSE y \in s : TRUE IN f[x] + h[s \ {x}]
    <3>1. PICK x \in s : x = CHOOSE y \in s : TRUE
      BY <2>1
    <3>2. h[s] = Sums!Tokens(Sums!SpansOf({x.id})) + h[s \ {x}]
      BY <1>8, <2>1, <3>1
    <3> QED BY <1>5, <3>1, <3>2
  <2>2. h[{}] = 0
    BY <1>8
  <2> HIDE DEF Iter
  <2> QED BY <2>1, <2>2 DEF SumRule
<1>10. h[K] = k[K]
  <2> HIDE DEF Iter
  <2> QED BY <1>3, <1>5, <1>9, SumIsOne
<1> HIDE DEF Iter
<1> QED BY <1>1, <1>6, <1>8, <1>10

(* With one row for each trace, to sum by traces is to sum all spans.      *)
LEMMA SumsOfSums ==
  ASSUME SumTypes, Sums!ReaderAssumption, NEW g, Summing(g, spans, TokensOf), NEW R, IsFiniteSet(R),
         NEW f, f = [r \in R |-> g[OfTrace(r)]], NEW k, Summing(k, R, f),
         SumTaken(k, R, f), Sums!OneRowEach(R)
  PROVE  \A T \in SUBSET R : k[T] = g[OfTraces(T)]
<1> DEFINE F == {T \in SUBSET R : k[T] = g[OfTraces(T)]}
<1>0. /\ IsFiniteSet(spans) /\ TokensOf \in [spans -> Nat]
      /\ \A T \in SUBSET R : OfTraces(T) \in SUBSET spans
      /\ \A r \in R : OfTrace(r) \in SUBSET spans
  BY DEF SumTypes, ListTypes, Sums!ReaderAssumption, TokensOf, OfTraces, OfTrace, Counted, Sums!SpansOf
<1>1. \A A, B \in SUBSET spans : A \cap B = {} => g[A \cup B] = g[A] + g[B]
  <2> HIDE DEF F
  <2> QED BY <1>0, SumSplits
<1>2. ASSUME NEW T \in SUBSET R, \A r \in SUBSET T : r # T => r \in F PROVE T \in F
  <2>1. CASE T = {}
    <3>1. OfTraces(T) = {}
      BY <2>1 DEF OfTraces, Counted, Sums!SpansOf
    <3> QED BY <2>1, <3>1 DEF Summing, SumRule
  <2>2. CASE T # {}
    <3>1. PICK x \in T : TRUE
      BY <2>2
    <3>2. k[T] = f[x] + k[T \ {x}]
      BY <3>1 DEF SumTaken
    <3>3. k[T \ {x}] = g[OfTraces(T \ {x})]
      BY <1>2, <3>1
    <3>4. OfTraces(T) = OfTrace(x) \cup OfTraces(T \ {x})
      BY <3>1 DEF OfTraces, OfTrace, Counted, Sums!SpansOf
    <3>5. OfTrace(x) \cap OfTraces(T \ {x}) = {}
      <4>1. \A r \in T \ {x} : r.id # x.id
        BY <3>1 DEF Sums!OneRowEach
      <4> QED BY <4>1 DEF OfTraces, OfTrace, Counted, Sums!SpansOf
    <3>6. g[OfTrace(x) \cup OfTraces(T \ {x})] = g[OfTrace(x)] + g[OfTraces(T \ {x})]
      <4>1. OfTrace(x) \in SUBSET spans /\ OfTraces(T \ {x}) \in SUBSET spans
        BY <1>0, <3>1
      <4> HIDE DEF F
      <4> QED BY <1>1, <3>5, <4>1
    <3> QED BY <3>2, <3>3, <3>4, <3>6
  <2> QED BY <2>1, <2>2
<1>3. \A T \in SUBSET R : T \in F
  <2> HIDE DEF F
  <2> QED BY <1>2, SubsetInduction
<1> QED BY <1>3

LEMMA JoinsAgree ==
  ASSUME SumTypes, Sums!ReaderAssumption, NEW R \in SUBSET traces, Sums!OneRowEach(R)
  PROVE  Sums!JoinedTokens(R) = Sums!Tokens(Sums!SpansOf({r.id : r \in R}))
<1>0. /\ IsFiniteSet(R) /\ IsFiniteSet(spans) /\ TokensOf \in [spans -> Nat]
  BY FS_Subset DEF SumTypes, ListTypes, Sums!ReaderAssumption, TokensOf
<1>1. PICK g : Summing(g, spans, TokensOf)
  BY <1>0, SumIsThere
<1>2. PICK f : f = [r \in R |-> g[OfTrace(r)]]
  OBVIOUS
<1>3. f \in [R -> Nat]
  <2>1. \A r \in R : OfTrace(r) \in SUBSET spans
    BY DEF OfTrace, Counted, Sums!SpansOf
  <2> QED BY <1>1, <1>2, <2>1 DEF Summing, SumRule
<1>4. PICK k : Summing(k, R, f)
  BY <1>0, <1>3, SumIsThere
<1>5. Sums!JoinedTokens(R) = IF Worth(R) = {} THEN None ELSE k[Worth(R)]
  BY <1>0, <1>1, <1>2, <1>4, JoinedSum
<1>6. k[Worth(R)] = g[OfTraces(Worth(R))]
  <2>1. Worth(R) \in SUBSET R
    BY DEF Worth
  <2>2. SumTaken(k, R, f)
    BY <1>0, <1>3, <1>4, SumTakesOut
  <2> QED BY <1>0, <1>1, <1>2, <1>4, <2>1, <2>2, SumsOfSums
<1>7. OfTraces(Worth(R)) = OfTraces(R) /\ (Worth(R) = {} <=> OfTraces(R) = {})
  BY DEF OfTraces, Worth, OfTrace, Counted, Sums!SpansOf
<1>8. Sums!Tokens(Sums!SpansOf({r.id : r \in R})) =
        IF OfTraces(R) = {} THEN None ELSE g[OfTraces(R)]
  <2>1. Sums!SpansOf({r.id : r \in R}) \in SUBSET spans
    BY DEF Sums!SpansOf
  <2> QED BY <1>1, <2>1, TokenSum DEF OfTraces
<1> QED BY <1>5, <1>6, <1>7, <1>8

LEMMA SessionsSay == ASSUME SumTypes, Sums!ReaderAssumption PROVE Sums!SessionsAgree
<1> SUFFICES ASSUME NEW session, NEW w, Sums!ListedRows(session, w) # {}
             PROVE  /\ Sums!DetailRows(session, w) # {}
                    /\ \A f \in {"count", "users", "first", "last", "duration"} :
                         Sums!SessionEntry(session, w)[f] = Sums!SessionDetail(session, w)[f]
                    /\ Sums!OneRowEach(Sums!ListedRows(session, w)) =>
                         Sums!SessionEntry(session, w).tokens = Sums!SessionDetail(session, w).tokens
  BY DEF Sums!SessionsAgree
<1>1. PICK R : R = Sums!ListedRows(session, w)
  OBVIOUS
<1>2. R \in SUBSET traces /\ R = Sums!DetailRows(session, w)
  BY <1>1 DEF Sums!ListedRows, Sums!DetailRows, Sums!Matching
<1> DEFINE a == Sums!SessionEntry(session, w)
           b == Sums!SessionDetail(session, w)
<1>3. /\ a.count = b.count /\ a.users = b.users /\ a.first = b.first /\ a.last = b.last
      /\ a.duration = b.duration
  BY <1>1, <1>2 DEF Sums!SessionEntry, Sums!SessionDetail
<1>4. \A f \in {"count", "users", "first", "last", "duration"} : a[f] = b[f]
  <2> HIDE DEF a, b
  <2> QED BY <1>3
<1>5. Sums!SessionEntry(session, w).tokens = Sums!JoinedTokens(R)
      /\ Sums!SessionDetail(session, w).tokens = Sums!Tokens(Sums!SpansOf({r.id : r \in R}))
  BY <1>1, <1>2 DEF Sums!SessionEntry, Sums!SessionDetail
<1> QED BY <1>1, <1>2, <1>5, <1>4, JoinsAgree

LEMMA UsersSay == ASSUME SumTypes, Sums!ReaderAssumption PROVE Sums!UsersAgree
<1> SUFFICES ASSUME NEW name, NEW w \in SumWindows, \A r \in traces : r.time # w.before
             PROVE  Sums!UserTraces(name, w) =
                      Sums!Cardinality({r.id : r \in {x \in Sums!Matching(w) : x.user = name}})
  BY DEF Sums!UsersAgree
<1>1. /\ \A r \in traces : r.time \in Nat
      /\ w.after \in Nat \cup {None} /\ w.before \in Nat \cup {None}
  BY DEF SumTypes, ListTypes, Sums!ReaderAssumption
<1>2. Sums!UserRows(name, w) = {x \in Sums!Matching(w) : x.user = name}
  BY <1>1 DEF Sums!UserRows, Sums!Matching, Sums!InWindow
<1> QED BY <1>2 DEF Sums!UserTraces

LEMMA NumbersSay == ASSUME SumTypes, Sums!ReaderAssumption PROVE Sums!NumbersAgree
BY SessionsSay, UsersSay DEF Sums!NumbersAgree

-----------------------------------------------------------------------------
(* All of them: each part keeps its own invariant.                         *)
TracesInv ==
  /\ part = "sdk"    => SdkInv /\ SaidInv /\ DepthInv
  /\ part = "batch"  => BatchInv
  /\ part = "fields" => FieldInv
  /\ part = "prices" => PriceInv /\ Prices!TypeOK
  /\ part = "walks"  => WalkInv
  /\ part = "sums"   => SumTypes

LEMMA TracesInit == Init => TracesInv
<1>1. Sdk!Init => SdkInv /\ SaidInv /\ DepthInv
  BY SdkInit, InitSays, DepthInit, TracesAssumption DEF TracesAssumption
<1>2. Batch!Init => BatchInv
  BY BatchInit, TracesAssumption DEF TracesAssumption
<1>3. Prices!Init => PriceInv /\ Prices!TypeOK
  BY PriceInit, PriceTypeInit, TracesAssumption DEF TracesAssumption
<1>4. Sums!Init => SumTypes
  BY SumsInit DEF SumTypes
<1> QED BY <1>1, <1>2, <1>3, <1>4, FieldInit, WalkInit DEF Init, TracesInv

LEMMA TracesStep == ASSUME TracesInv, [Next]_vars
  PROVE /\ TracesInv'
        /\ part = "sdk" => Sdk!Delivers
        /\ part = "prices" => Prices!PricesMoveOn
<1>1. part' = part
  BY DEF Next, vars
<1>2. part = "sdk" => [Sdk!Next]_(Sdk!vars)
  BY DEF Next, vars, Sdk!vars, sdkVars
<1>3. part = "batch" => [Batch!Next]_(Batch!vars)
  BY DEF Next, vars, Batch!vars, batchVars
<1>4. part = "fields" => [Fields!Next]_(Fields!vars)
  BY DEF Next, vars, Fields!vars, fieldVars
<1>5. part = "prices" => [Prices!Next]_(Prices!vars)
  BY DEF Next, vars, Prices!vars, priceVars
<1>6. part = "walks" => [Walks!Next]_(Walks!vars)
  BY DEF Next, vars, Walks!vars, listVars
<1>7. part = "sums" => [Sums!Next]_(Sums!vars)
  BY DEF Next, vars, Sums!vars, listVars
<1>8. part = "sdk" => SdkInv' /\ SaidInv' /\ DepthInv' /\ Sdk!Delivers
  BY <1>2, DeliversStep, NextSays, DepthStep, TracesAssumption DEF TracesInv, TracesAssumption
<1>9. part = "batch" => BatchInv'
  BY <1>3, BatchStep DEF TracesInv
<1>10. part = "fields" => FieldInv'
  BY <1>4, FieldStep DEF TracesInv
<1>11. part = "prices" => PriceInv' /\ Prices!TypeOK' /\ Prices!PriceStays
  BY <1>5, PriceStep, PriceTypeStep, TracesAssumption DEF TracesInv, TracesAssumption
<1>12. part = "walks" => WalkInv'
  BY <1>6, WalkStep, TracesAssumption DEF TracesInv, TracesAssumption
<1>13. part = "sums" => SumTypes'
  BY <1>7, SumsStep DEF TracesInv, SumTypes
<1>14. PriceInv' => (Prices!LateReaderIsCurrent)'
  BY DEF PriceInv
<1>15. TracesInv'
  BY <1>1, <1>8, <1>9, <1>10, <1>11, <1>12, <1>13 DEF TracesInv
<1> QED BY <1>8, <1>11, <1>14, <1>15 DEF Prices!PricesMoveOn

LEMMA TracesAlways == Spec => []TracesInv
<1>1. TracesInv /\ [Next]_vars => TracesInv'
  BY TracesStep
<1> QED BY <1>1, TracesInit, PTL DEF Spec

(* A call that returns while an enabled client is live has its span taken, *)
(* the span is exported once, and by the return of a flush called for it   *)
(* (client and BatchSpanProcessor of the SDK); and a span that heard of a  *)
(* user of usingAttributes or updateCurrentTrace has the innermost one.    *)
THEOREM SpansReachTheApi == Spec => SpansAreDelivered
<1>1. TracesInv /\ [Next]_vars =>
        TracesInv' /\ [part = "sdk" => Sdk!Delivers /\ (Sdk!UserReaches)']_vars
  <2> SUFFICES ASSUME TracesInv, [Next]_vars
               PROVE  TracesInv' /\ (part = "sdk" => Sdk!Delivers /\ (Sdk!UserReaches)')
    OBVIOUS
  <2>1. part' = part
    BY DEF Next, vars
  <2>2. SaidInv' => (Sdk!UserReaches)'
    BY DEF SaidInv, SpansSay, Sdk!UserReaches
  <2> QED BY <2>1, <2>2, TracesStep DEF TracesInv
<1> QED BY <1>1, TracesInit, PTL DEF Spec, SpansAreDelivered

(* While the prices of a release are copied to the table one by one, a     *)
(* model that had prices has prices, and a process that reads after the    *)
(* copy and after its own restart has those of the release.                *)
THEOREM PricesMoveWithReleases == Spec => PricesAreCurrent
<1>1. TracesInv /\ [Next]_vars =>
        TracesInv' /\ [part = "prices" => Prices!PricesMoveOn]_vars
  BY TracesStep
<1> QED BY <1>1, TracesInit, PTL DEF Spec, PricesAreCurrent

(* Every part keeps its types: an open span is of a live client's          *)
(* processor, rows are of spans that were sent, prices are of releases and *)
(* the total of a list is at most what is stored.                          *)
THEOREM TypeCorrect == Spec => []TypeOK
<1>1. TracesInv => TypeOK
  <2>1. part = "sums" /\ TracesInv => Sums!TypeOK
    BY SumsTypes DEF TracesInv, SumTypes
  <2>2. part = "walks" /\ TracesInv => Walks!TypeOK
    BY WalksTypes DEF TracesInv, WalkInv, WalkTypes
  <2> QED BY <2>1, <2>2, SdkTypes, BatchTypes DEF TracesInv, TypeOK
<1> QED BY <1>1, TracesAlways, PTL

(* However a trace is spread over uploads, and in whatever order and       *)
(* number their tasks run (transform_otel_to_clickhouse), the trace row of *)
(* an upload has the user of its last root that names one, else of its     *)
(* first child; in the end a trace with one root has the row of the upload *)
(* that brought it, and every usable span is stored.  And the row of a     *)
(* span keeps its explicit kind, the counts it reported and its own        *)
(* attributes.                                                             *)
THEOREM RowsKeepWhatWasSaid == Spec => []RowsAreFaithful
<1>1. TracesInv => RowsAreFaithful
  BY FirstAndLast, Converges, FieldsSay, TracesAssumption
  DEF TracesInv, RowsAreFaithful, TracesAssumption
<1> QED BY <1>1, TracesAlways, PTL

(* A user who goes through the pages of list_traces to the last one, while *)
(* rows are inserted, meets every trace that was there when the walk       *)
(* began; and list_sessions and get_session, which join and sum in         *)
(* different ways, agree on a session, as list_users and the filtered list *)
(* of traces do on a user.                                                 *)
THEOREM ListsTellTheSame == Spec => []ListsAgree
<1>1. TracesInv => ListsAgree
  BY WalkSays, NumbersSay, TracesAssumption DEF TracesInv, ListsAgree, TracesAssumption
<1> QED BY <1>1, TracesAlways, PTL
=============================================================================
