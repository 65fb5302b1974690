----------------------------- MODULE AgentProofs -----------------------------
(***************************************************************************)
(* What is proved of the agent service.  AgentSession: requests that       *)
(* follow one another leave no container behind and keep the conversation  *)
(* whole, for any number of messages and deletions.  AgentDesk: its tools  *)
(* read any file whole by the offsets they name, and the tree it downloads *)
(* is the one the viewer shows, for any number of spans in any order.      *)
(***************************************************************************)
EXTENDS AgentSession, AgentDesk, SequenceTheorems, FiniteSetTheorems, TLAPS

MsgRecord == [st : MsgStates, agent : Msg \cup {None},
              executor : Msg \cup {None}, boxed : BOOLEAN]
DelRecord == [st : {"new", "destroy", "row", "done"},
              executor : Msg \cup {None}, box : Msg \cup {None}]

Busy(m)     == msg[m].st \notin {"new", "done", "empty", "failed", "cut"}
Deleting(d) == del[d].st \in {"destroy", "row"}

(* A handler runs in a process that lives and has the agent it will use;   *)
(* what it has asked is in the database as long as the session is.         *)
Handlers ==
  /\ \A m \in Msg : Busy(m) => Alive /\ msg[m].agent \in Msg
  /\ \A m \in Msg : msg[m].st = "context" => msg[m].agent = m
  /\ \A m \in Msg : row /\ msg[m].st \in {"prompt", "answering", "starting", "save"}
                      => m \in asked
  /\ \A d \in Enders : del[d].st # "destroy" => del[d].box = None
  /\ del[Sig].st # "row" /\ (~Alive => agent = None)

(* Requests that do not overlap: one at a time, and none with the signal.  *)
Alone ==
  /\ \A m \in Msg, n \in Msg : Busy(m) /\ Busy(n) => m = n
  /\ \A m \in Msg : Busy(m) => up = "up" /\ \A d \in Enders : ~Deleting(d)
  /\ \A d \in Enders, e \in Enders : Deleting(d) /\ Deleting(e) => d = e
  /\ \A d \in Enders : Deleting(d) => up = (IF d = Sig THEN "stopping" ELSE "up")

(* Then every container is the executor's in the map, or being removed,    *)
(* and whoever works with an executor works with that one.                 *)
BoxesKnown ==
  /\ \A c \in running : \/ executor # None /\ box[executor] = c
                        \/ \E d \in Enders : del[d].box = c
  /\ \A d \in Enders : del[d].st = "destroy" =>
       executor # None /\ executor = del[d].executor /\ box[executor] = del[d].box
  /\ \A m \in Msg : Busy(m) => executor # None /\ msg[m].executor = executor
  /\ \A m \in Msg : msg[m].st = "starting" => box[executor] = None
  /\ agent # None /\ up = "up" => executor # None /\ msg[agent].executor = executor

(* And the agent knows every question but the one about to be put to it.   *)
AgentKnows ==
  /\ \A m \in Msg : Busy(m) /\ msg[m].st # "context" => agent = msg[m].agent
  /\ agent # None => \A q \in asked : q \in knows[agent] \/ msg[q].st = "prompt"
  /\ \A a \in busy : \E m \in Msg :
       msg[m].st \in {"answering", "starting"} /\ msg[m].agent = a

Calm == Alone /\ BoxesKnown /\ AgentKnows

IInv == TypeOK /\ Handlers /\ DoneIsStored /\ (~rough => Calm)

-----------------------------------------------------------------------------
(* The effect of a step on one handler's record.                           *)

LEMMA GoEffect ==
  ASSUME TypeOK, NEW m \in Msg, NEW s \in MsgStates, Go(m, s)
  PROVE  /\ msg' \in [Msg -> MsgRecord]
         /\ msg'[m].st = s /\ msg'[m].agent = msg[m].agent
         /\ msg'[m].executor = msg[m].executor
         /\ \A n \in Msg \ {m} : msg'[n] = msg[n]
BY DEF TypeOK, Go, MsgRecord

LEMMA EndedEffect ==
  ASSUME TypeOK, NEW d \in Enders, NEW s \in {"new", "row"}, Ended(d, s)
  PROVE  /\ executor' = None /\ agent' \in {agent, None} /\ (d # Sig => agent' = None)
         /\ del' \in [Enders -> DelRecord]
         /\ del'[d].st = s /\ del'[d].box = None
         /\ \A e \in Enders \ {d} : del'[e] = del[e]
<1>1. del \in [Enders -> DelRecord]
  BY DEF TypeOK, DelRecord
<1>2. [NewDel EXCEPT !.st = s] \in DelRecord /\ [NewDel EXCEPT !.st = s].st = s
      /\ [NewDel EXCEPT !.st = s].box = None
  BY DEF NewDel, DelRecord
<1> QED BY <1>1, <1>2 DEF Ended

-----------------------------------------------------------------------------
(* Messages.                                                               *)

LEMMA ArriveStep == ASSUME IInv, NEW m \in Msg, Arrive(m) PROVE IInv'
<1> USE DEF IInv
<1>1. PICK a \in Msg, e \in Msg \cup {None}, s \in {"question", "context"} :
        /\ msg' = [msg EXCEPT ![m] = [NewMsg EXCEPT !.st = s, !.agent = a, !.executor = e]]
        /\ \/ agent # None /\ agent' = agent /\ a = agent /\ s = "question"
              /\ e = msg[agent].executor
           \/ agent' = None /\ a = m /\ s = "context" /\ e = executor'
  BY DEF Arrive, TypeOK
<1>2. /\ msg' \in [Msg -> MsgRecord]
      /\ msg'[m].st = s /\ msg'[m].agent = a /\ msg'[m].executor = e
      /\ \A n \in Msg \ {m} : msg'[n] = msg[n]
  BY <1>1 DEF TypeOK, MsgRecord, NewMsg, MsgStates
<1>3. /\ UNCHANGED <<up, db, boxes, knows, busy, del>>
      /\ executor' = (IF executor = None THEN m ELSE executor)
      /\ rough' = (rough \/ UnderWay) /\ Alive /\ msg[m].st = "new"
  BY DEF Arrive, At
<1>4. TypeOK'
  BY <1>1, <1>2, <1>3 DEF TypeOK, MsgRecord, db, boxes
<1>5. Handlers' /\ DoneIsStored'
  BY <1>1, <1>2, <1>3 DEF Handlers, DoneIsStored, Busy, db, boxes, Alive
<1>6. ~rough' => Calm'
  <2> SUFFICES ASSUME ~rough' PROVE Calm' OBVIOUS
  <2>1. /\ Calm /\ up = "up" /\ (\A n \in Msg : ~Busy(n)) /\ \A d \in Enders : ~Deleting(d)
    BY <1>3 DEF UnderWay, Alive, Busy, MsgOver, Deleting
  <2>2. Alone'
    BY <1>2, <1>3, <2>1 DEF Alone, Busy, Deleting
  <2>3. BoxesKnown'
    <3>1. executor' \in Msg /\ executor' # None /\ (executor # None => executor' = executor)
      BY <1>3, AgentSessionAssumption DEF TypeOK
    <3>2. msg'[m].executor = executor' /\ msg'[m].st # "starting"
      BY <1>1, <1>2, <1>3, <2>1, <3>1 DEF Calm, BoxesKnown
    <3>3. agent' # None => msg'[agent'].executor = executor'
      BY <1>1, <1>2, <1>3, <2>1, <3>1, <3>2 DEF Calm, BoxesKnown, TypeOK
    <3>4. \A n \in Msg : (Busy(n)' => n = m) /\ (msg'[n].st = "starting" => n = m)
      BY <1>2, <2>1 DEF Busy
    <3> QED BY <1>3, <2>1, <3>1, <3>2, <3>3, <3>4 DEF Calm, BoxesKnown, Busy, Deleting, boxes
  <2>4. AgentKnows'
    BY <1>1, <1>2, <1>3, <2>1 DEF Calm, AgentKnows, Busy, TypeOK, boxes, db
  <2> QED BY <2>2, <2>3, <2>4 DEF Calm
<1> QED BY <1>4, <1>5, <1>6

LEMMA LoadContextStep == ASSUME IInv, NEW m \in Msg, LoadContext(m) PROVE IInv'
<1> USE DEF IInv
<1>1. /\ msg' \in [Msg -> MsgRecord]
      /\ msg'[m].st = "question" /\ msg'[m].agent = msg[m].agent
      /\ msg'[m].executor = msg[m].executor
      /\ \A n \in Msg \ {m} : msg'[n] = msg[n]
  BY GoEffect DEF LoadContext, MsgStates
<1>2. /\ UNCHANGED <<up, db, executor, boxes, busy, del, rough>>
      /\ knows' = [knows EXCEPT ![m] = asked] /\ agent' = m /\ msg[m].st = "context"
  BY DEF LoadContext, At
<1>3. TypeOK'
  BY <1>1, <1>2 DEF TypeOK, MsgRecord, db, boxes
<1>4. Handlers' /\ DoneIsStored'
  BY <1>1, <1>2 DEF Handlers, DoneIsStored, Busy, db, boxes, Alive
<1>5. ~rough' => Calm'
  <2> SUFFICES ASSUME ~rough' PROVE Calm' OBVIOUS
  <2>1. Calm /\ Busy(m)
    BY <1>2 DEF Busy
  <2>2. Alone'
    BY <1>1, <1>2, <2>1 DEF Calm, Alone, Busy, Deleting
  <2>3. BoxesKnown'
    BY <1>1, <1>2, <2>1 DEF Calm, BoxesKnown, Busy, boxes
  <2>4. AgentKnows'
    <3>1. busy = {}
      BY <1>2, <2>1 DEF Calm, AgentKnows, Alone, Busy
    <3>2. knows'[m] = asked
      BY <1>2 DEF TypeOK
    <3> QED BY <1>1, <1>2, <2>1, <3>1, <3>2 DEF Handlers, Calm, AgentKnows, Alone, Busy, db
  <2> QED BY <2>2, <2>3, <2>4 DEF Calm
<1> QED BY <1>3, <1>4, <1>5

(* A handler that goes on with what it has disturbs no other.              *)
LEMMA GoKeeps ==
  ASSUME IInv, NEW m \in Msg, NEW s \in MsgStates \ {"new", "context", "starting"},
         Go(m, s), Busy(m), UNCHANGED <<up, maps, boxes, del, rough>>, ~rough
  PROVE  Alone' /\ BoxesKnown'
<1>1. /\ msg' \in [Msg -> MsgRecord]
      /\ msg'[m].st = s /\ msg'[m].agent = msg[m].agent
      /\ msg'[m].executor = msg[m].executor
      /\ \A n \in Msg \ {m} : msg'[n] = msg[n]
  BY GoEffect DEF IInv
<1>2. Calm
  BY DEF IInv
<1>3. Alone'
  BY <1>1, <1>2 DEF Calm, Alone, Busy, Deleting
<1>4. agent # None => msg'[agent].executor = msg[agent].executor
  BY <1>1 DEF IInv, TypeOK
<1>5. BoxesKnown'
  BY <1>1, <1>2, <1>4 DEF Calm, BoxesKnown, Busy, boxes, maps
<1> QED BY <1>3, <1>5

LEMMA SaveQuestionStep == ASSUME IInv, NEW m \in Msg, SaveQuestion(m) PROVE IInv'
<1> USE DEF IInv
<1>1. PICK s \in {"prompt", "failed"} :
        /\ Go(m, s)
        /\ s = "prompt" => row /\ asked' = asked \cup {m}
        /\ s = "failed" => asked' = asked
  BY DEF SaveQuestion
<1>2. /\ UNCHANGED <<up, row, answered, maps, boxes, knows, busy, del, rough>>
      /\ msg[m].st = "question" /\ Busy(m)
  BY DEF SaveQuestion, At, Busy
<1>3. /\ msg' \in [Msg -> MsgRecord]
      /\ msg'[m].st = s /\ msg'[m].agent = msg[m].agent
      /\ \A n \in Msg \ {m} : msg'[n] = msg[n]
  BY <1>1, GoEffect DEF MsgStates
<1>4. TypeOK'
  BY <1>1, <1>2, <1>3 DEF TypeOK, MsgRecord, maps, boxes
<1>5. Handlers' /\ DoneIsStored'
  BY <1>1, <1>2, <1>3 DEF Handlers, DoneIsStored, Busy, Alive
<1>6. ~rough' => Calm'
  <2> SUFFICES ASSUME ~rough' PROVE Calm' OBVIOUS
  <2>1. Calm
    BY <1>2
  <2>2. Alone' /\ BoxesKnown'
    BY <1>1, <1>2, GoKeeps DEF MsgStates, maps
  <2>3. \A n \in Msg : msg[n].st # "prompt"
    BY <1>2, <2>1 DEF Calm, Alone, Busy
  <2>4. busy = {}
    BY <1>2, <2>1 DEF Calm, AgentKnows, Alone, Busy
  <2>5. AgentKnows'
    BY <1>1, <1>2, <1>3, <2>1, <2>3, <2>4 DEF Calm, AgentKnows, Busy, TypeOK, maps
  <2> QED BY <2>2, <2>5 DEF Calm
<1> QED BY <1>4, <1>5, <1>6

LEMMA PromptStep == ASSUME IInv, NEW m \in Msg, Prompt(m) PROVE IInv'
<1> USE DEF IInv
<1>1. PICK s \in {"answering", "failed"} :
        /\ Go(m, s)
        /\ s = "answering" => /\ busy' = busy \cup {msg[m].agent}
                              /\ knows' = [knows EXCEPT ![msg[m].agent] = @ \cup {m}]
        /\ s = "failed" => UNCHANGED <<busy, knows>> /\ msg[m].agent \in busy
  BY DEF Prompt
<1>2. /\ UNCHANGED <<up, db, maps, boxes, del, rough>>
      /\ msg[m].st = "prompt" /\ Busy(m)
  BY DEF Prompt, At, Busy
<1>3. /\ msg' \in [Msg -> MsgRecord]
      /\ msg'[m].st = s /\ msg'[m].agent = msg[m].agent
      /\ \A n \in Msg \ {m} : msg'[n] = msg[n]
  BY <1>1, GoEffect DEF MsgStates
<1>4. msg[m].agent \in Msg
  BY <1>2 DEF Handlers
<1>5. busy' \in SUBSET Msg /\ knows' \in [Msg -> SUBSET Msg]
  BY <1>1, <1>4 DEF TypeOK
<1>6. TypeOK'
  BY <1>2, <1>3, <1>5 DEF TypeOK, MsgRecord, maps, boxes, db
<1>7. Handlers' /\ DoneIsStored'
  BY <1>1, <1>2, <1>3 DEF Handlers, DoneIsStored, Busy, Alive, db
<1>8. ~rough' => Calm'
  <2> SUFFICES ASSUME ~rough' PROVE Calm' OBVIOUS
  <2>1. Calm
    BY <1>2
  <2>2. Alone' /\ BoxesKnown'
    BY <1>1, <1>2, GoKeeps DEF MsgStates
  <2>3. busy = {} /\ \A n \in Msg : Busy(n) => n = m
    BY <1>2, <2>1 DEF Calm, AgentKnows, Alone, Busy
  <2>4. s = "answering"
    BY <1>1, <2>3
  <2>5. agent = msg[m].agent /\ agent # None
    BY <1>2, <1>4, <2>1, AgentSessionAssumption DEF Calm, AgentKnows
  <2>6. knows'[agent] = knows[agent] \cup {m} /\ busy' = {agent}
    BY <1>1, <1>4, <2>3, <2>4, <2>5 DEF TypeOK
  <2>7. \A q \in asked : q \in knows'[agent]
    BY <2>1, <2>3, <2>5, <2>6 DEF Calm, AgentKnows, Busy, TypeOK
  <2>8. AgentKnows'
    BY <1>2, <1>3, <2>3, <2>4, <2>5, <2>6, <2>7 DEF AgentKnows, Busy, maps, db
  <2> QED BY <2>2, <2>8 DEF Calm
<1> QED BY <1>6, <1>7, <1>8

LEMMA PromptEndsStep == ASSUME IInv, NEW m \in Msg, PromptEnds(m) PROVE IInv'
<1> USE DEF IInv
<1>1. PICK s \in {"save", "empty", "failed"} : Go(m, s)
  BY DEF PromptEnds
<1>2. /\ UNCHANGED <<up, db, maps, boxes, knows, del, rough>>
      /\ msg[m].st = "answering" /\ Busy(m) /\ busy' = busy \ {msg[m].agent}
  BY DEF PromptEnds, At, Busy
<1>3. /\ msg' \in [Msg -> MsgRecord]
      /\ msg'[m].st = s /\ msg'[m].agent = msg[m].agent
      /\ \A n \in Msg \ {m} : msg'[n] = msg[n]
  BY <1>1, GoEffect DEF MsgStates
<1>4. TypeOK'
  BY <1>2, <1>3 DEF TypeOK, MsgRecord, maps, boxes, db
<1>5. Handlers' /\ DoneIsStored'
  BY <1>1, <1>2, <1>3 DEF Handlers, DoneIsStored, Busy, Alive, db
<1>6. ~rough' => Calm'
  <2> SUFFICES ASSUME ~rough' PROVE Calm' OBVIOUS
  <2>1. Calm
    BY <1>2
  <2>2. Alone' /\ BoxesKnown'
    BY <1>1, <1>2, GoKeeps DEF MsgStates
  <2>3. busy' = {} /\ \A n \in Msg : msg[n].st # "prompt"
    BY <1>2, <2>1 DEF Calm, AgentKnows, Alone, Busy
  <2>4. AgentKnows'
    BY <1>1, <1>2, <1>3, <2>1, <2>3 DEF Calm, AgentKnows, Busy, TypeOK, maps, db
  <2> QED BY <2>2, <2>4 DEF Calm
<1> QED BY <1>4, <1>5, <1>6

LEMMA SaveAnswerStep == ASSUME IInv, NEW m \in Msg, SaveAnswer(m) PROVE IInv'
<1> USE DEF IInv
<1>1. /\ UNCHANGED <<up, row, asked, maps, boxes, knows, busy, del, rough>> /\ row
      /\ msg[m].st = "save" /\ Busy(m) /\ answered' = answered \cup {m} /\ Go(m, "done")
  BY DEF SaveAnswer, At, Busy
<1>2. /\ msg' \in [Msg -> MsgRecord]
      /\ msg'[m].st = "done" /\ \A n \in Msg \ {m} : msg'[n] = msg[n]
  BY <1>1, GoEffect DEF MsgStates
<1>3. TypeOK'
  BY <1>1, <1>2 DEF TypeOK, Handlers, MsgRecord, maps, boxes
<1>4. Handlers' /\ DoneIsStored'
  BY <1>1, <1>2 DEF Handlers, DoneIsStored, Busy, Alive
<1>5. ~rough' => Calm'
  <2> SUFFICES ASSUME ~rough' PROVE Calm' OBVIOUS
  <2>1. Calm
    BY <1>1
  <2>2. Alone' /\ BoxesKnown'
    BY <1>1, GoKeeps DEF MsgStates
  <2>3. busy = {} /\ \A n \in Msg : msg[n].st # "prompt"
    BY <1>1, <2>1 DEF Calm, AgentKnows, Alone, Busy
  <2>4. \A n \in Msg : ~Busy(n)'
    BY <1>1, <1>2, <2>1 DEF Calm, Alone, Busy
  <2>5. agent # None => \A q \in asked : q \in knows[agent]
    BY <2>1, <2>3 DEF Calm, AgentKnows, TypeOK
  <2>6. AgentKnows'
    BY <1>1, <2>3, <2>4, <2>5 DEF AgentKnows, maps
  <2> QED BY <2>2, <2>6 DEF Calm
<1> QED BY <1>3, <1>4, <1>5

(* A container belongs to the tool that asks for it.                       *)
LEMMA StartBoxStep == ASSUME IInv, NEW m \in Msg, StartBox(m) PROVE IInv'
<1> USE DEF IInv
<1>1. /\ UNCHANGED <<up, db, maps, boxes, knows, busy, del, rough>>
      /\ msg[m].st = "answering" /\ Busy(m) /\ box[msg[m].executor] = None
      /\ msg' = [msg EXCEPT ![m].st = "starting", ![m].boxed = TRUE]
  BY DEF StartBox, At, Busy
<1>2. /\ msg' \in [Msg -> MsgRecord]
      /\ msg'[m].st = "starting" /\ msg'[m].agent = msg[m].agent
      /\ msg'[m].executor = msg[m].executor
      /\ \A n \in Msg \ {m} : msg'[n] = msg[n]
  <2> DEFINE r == [msg[m] EXCEPT !.st = "starting", !.boxed = TRUE]
  <2>1. msg \in [Msg -> MsgRecord] /\ msg[m] \in MsgRecord
    BY DEF TypeOK, MsgRecord
  <2>2. r \in MsgRecord /\ r.st = "starting" /\ r.agent = msg[m].agent
        /\ r.executor = msg[m].executor
    BY <2>1 DEF MsgRecord, MsgStates
  <2>3. msg' = [msg EXCEPT ![m] = r]
    BY <1>1
  <2> HIDE DEF r
  <2> QED BY <2>1, <2>2, <2>3
<1>3. TypeOK'
  BY <1>1, <1>2 DEF TypeOK, MsgRecord, maps, boxes, db
<1>4. Handlers' /\ DoneIsStored'
  BY <1>1, <1>2 DEF Handlers, DoneIsStored, Busy, Alive, db
<1>5. ~rough' => Calm'
  <2> SUFFICES ASSUME ~rough' PROVE Calm' OBVIOUS
  <2>1. Calm
    BY <1>1
  <2>2. Alone'
    BY <1>1, <1>2, <2>1 DEF Calm, Alone, Busy, Deleting
  <2>3. \A n \in Msg : msg'[n].agent = msg[n].agent /\ msg'[n].executor = msg[n].executor
                       /\ (Busy(n)' <=> Busy(n))
    BY <1>1, <1>2 DEF Busy
  <2>4. agent # None => msg'[agent].executor = msg[agent].executor
    BY <2>3 DEF TypeOK
  <2>5. \A n \in Msg : msg'[n].st = "starting" => n = m
    BY <1>1, <1>2, <2>1 DEF Calm, Alone, Busy
  <2>6. BoxesKnown'
    BY <1>1, <2>1, <2>3, <2>4, <2>5 DEF Calm, BoxesKnown, maps, boxes
  <2>7. AgentKnows'
    BY <1>1, <1>2, <2>1, <2>3 DEF Calm, AgentKnows, Busy, TypeOK, maps, db
  <2> QED BY <2>2, <2>6, <2>7 DEF Calm
<1> QED BY <1>3, <1>4, <1>5

LEMMA BoxStartedStep == ASSUME IInv, NEW m \in Msg, BoxStarted(m) PROVE IInv'
<1> USE DEF IInv
<1>1. /\ UNCHANGED <<up, db, maps, knows, busy, del, rough>>
      /\ msg[m].st = "starting" /\ Busy(m) /\ Go(m, "answering")
      /\ running' = running \cup {m} /\ box' = [box EXCEPT ![msg[m].executor] = m]
  BY DEF BoxStarted, At, Busy
<1>2. /\ msg' \in [Msg -> MsgRecord]
      /\ msg'[m].st = "answering" /\ msg'[m].agent = msg[m].agent
      /\ msg'[m].executor = msg[m].executor
      /\ \A n \in Msg \ {m} : msg'[n] = msg[n]
  BY <1>1, GoEffect DEF MsgStates
<1>3. TypeOK'
  BY <1>1, <1>2 DEF TypeOK, MsgRecord, maps, db
<1>4. Handlers' /\ DoneIsStored'
  BY <1>1, <1>2 DEF Handlers, DoneIsStored, Busy, Alive, db
<1>5. ~rough' => Calm'
  <2> SUFFICES ASSUME ~rough' PROVE Calm' OBVIOUS
  <2>1. Calm
    BY <1>1
  <2>2. Alone'
    BY <1>1, <1>2, <2>1 DEF Calm, Alone, Busy, Deleting
  <2>3. \A n \in Msg : msg'[n].agent = msg[n].agent /\ msg'[n].executor = msg[n].executor
                       /\ (Busy(n)' <=> Busy(n))
    BY <1>1, <1>2 DEF Busy
  <2>4. agent # None => msg'[agent].executor = msg[agent].executor
    BY <2>3 DEF TypeOK
  <2>5. /\ \A n \in Msg : msg'[n].st # "starting"
        /\ \A d \in Enders : del[d].st # "destroy"
    BY <1>1, <1>2, <2>1 DEF Calm, Alone, Busy, Deleting
  <2>6. executor \in Msg /\ executor = msg[m].executor /\ box[executor] = None
        /\ box'[executor] = m
    BY <1>1, <2>1 DEF Calm, BoxesKnown, TypeOK
  <2>7. BoxesKnown'
    <3>1. \A c \in running' : \/ executor # None /\ box'[executor] = c
                              \/ \E d \in Enders : del[d].box = c
      BY <1>1, <2>1, <2>6, AgentSessionAssumption DEF Calm, BoxesKnown, TypeOK
    <3> QED BY <1>1, <2>1, <2>3, <2>4, <2>5, <2>6, <3>1 DEF Calm, BoxesKnown, maps
  <2>8. AgentKnows'
    <3>1. \A a \in busy : \E n \in Msg :
            msg'[n].st \in {"answering", "starting"} /\ msg'[n].agent = a
      BY <1>1, <1>2, <2>1, <2>3 DEF Calm, AgentKnows
    <3>2. agent # None => \A q \in asked : q \in knows[agent] \/ msg'[q].st = "prompt"
      BY <1>1, <1>2, <2>1 DEF Calm, AgentKnows, TypeOK
    <3>3. \A n \in Msg : Busy(n)' /\ msg'[n].st # "context" => agent = msg'[n].agent
      BY <1>1, <1>2, <2>1, <2>3 DEF Calm, AgentKnows
    <3> QED BY <1>1, <3>1, <3>2, <3>3 DEF AgentKnows, maps, db
  <2> QED BY <2>2, <2>7, <2>8 DEF Calm
<1> QED BY <1>3, <1>4, <1>5

-----------------------------------------------------------------------------
(* The end of the process, of a session and of the service.                *)

(* What the process had is gone; nobody is busy.                           *)
LEMMA GoneEffect ==
  ASSUME IInv, NEW how \in {"exited", "crashed"}, Gone(how), UNCHANGED db
  PROVE  /\ up' = how /\ executor' = None /\ agent' = None /\ busy' = {}
         /\ running' \in SUBSET Msg
         /\ (\A m \in Msg : msg[m].st # "starting") => running' = running
         /\ (\A m \in Msg : ~Busy(m)') /\ (\A d \in Enders : ~Deleting(d)')
         /\ rough' \in BOOLEAN => TypeOK'
         /\ Handlers' /\ DoneIsStored'
<1> USE DEF IInv
<1>1. /\ up' = how /\ executor' = None /\ agent' = None /\ busy' = {}
      /\ box' = [m \in Msg |-> None] /\ knows' = [m \in Msg |-> {}]
      /\ msg' = [m \in Msg |-> IF MsgOver(m) \/ msg[m].st = "new" THEN msg[m]
                               ELSE [NewMsg EXCEPT !.st = "cut"]]
      /\ del' = [d \in Enders |-> IF d = Sig \/ del[d].st = "new" THEN NewDel
                                  ELSE [NewDel EXCEPT !.st = "done"]]
  BY DEF Gone
<1>2. PICK S \in SUBSET {m \in Msg : At(m, "starting")} : running' = running \cup S
  BY DEF Gone
<1>3. running' \in SUBSET Msg /\ ((\A m \in Msg : msg[m].st # "starting") => running' = running)
  BY <1>2 DEF TypeOK, At
<1>4. [NewMsg EXCEPT !.st = "cut"] \in MsgRecord /\ [NewMsg EXCEPT !.st = "cut"].st = "cut"
  BY DEF NewMsg, MsgRecord, MsgStates
<1>5. /\ msg' \in [Msg -> MsgRecord]
      /\ \A m \in Msg : msg'[m] = msg[m] \/ msg'[m].st = "cut"
      /\ \A m \in Msg : msg'[m].st \in {"new", "done", "empty", "failed", "cut"}
  <2> DEFINE c == [NewMsg EXCEPT !.st = "cut"]
  <2>1. msg \in [Msg -> MsgRecord]
    BY DEF TypeOK, MsgRecord
  <2>2. msg' = [m \in Msg |-> IF MsgOver(m) \/ msg[m].st = "new" THEN msg[m] ELSE c]
    BY <1>1
  <2>3. c \in MsgRecord /\ c.st = "cut"
    BY <1>4
  <2> HIDE DEF c
  <2> QED BY <2>1, <2>2, <2>3 DEF MsgOver
<1>6. /\ del' \in [Enders -> DelRecord]
      /\ \A d \in Enders : del'[d].st \in {"new", "done"} /\ del'[d].box = None
  <2> DEFINE c == [NewDel EXCEPT !.st = "done"]
  <2>1. c \in DelRecord /\ NewDel \in DelRecord /\ c.st = "done" /\ NewDel.st = "new"
        /\ c.box = None /\ NewDel.box = None
    BY DEF DelRecord, NewDel
  <2>2. del' = [d \in Enders |-> IF d = Sig \/ del[d].st = "new" THEN NewDel ELSE c]
    BY <1>1
  <2> HIDE DEF c
  <2> QED BY <2>1, <2>2
<1>7. \A m \in Msg : ~Busy(m)'
  BY <1>5 DEF Busy
<1>8. \A d \in Enders : ~Deleting(d)'
  BY <1>6 DEF Deleting
<1>9. rough' \in BOOLEAN => TypeOK'
  BY <1>1, <1>3, <1>5, <1>6 DEF TypeOK, MsgRecord, DelRecord, db
<1>10. Handlers'
  BY <1>1, <1>5, <1>6, <1>7 DEF Handlers, Enders
<1>11. DoneIsStored'
  BY <1>5 DEF DoneIsStored, db
<1> QED BY <1>1, <1>3, <1>7, <1>8, <1>9, <1>10, <1>11

LEMMA SaveAnswerFailsStep == ASSUME IInv, NEW m \in Msg, SaveAnswerFails(m) PROVE IInv'
BY GoneEffect DEF IInv, SaveAnswerFails

(* A process that exits of itself has nothing under way and no container.  *)
LEMMA ExitStep == ASSUME IInv, Exit PROVE IInv'
<1> USE DEF IInv
<1>1. /\ Gone("exited") /\ UNCHANGED <<db, rough>> /\ up = "stopping" /\ executor = None
      /\ del[Sig].st = "new"
  BY DEF Exit
<1>2. TypeOK' /\ Handlers' /\ DoneIsStored'
  BY <1>1, GoneEffect DEF TypeOK
<1>3. ~rough' => Calm'
  <2> SUFFICES ASSUME ~rough' PROVE Calm' OBVIOUS
  <2>1. Calm
    BY <1>1
  <2>2. (\A n \in Msg : ~Busy(n)) /\ \A d \in Enders : ~Deleting(d)
    BY <1>1, <2>1 DEF Calm, Alone, Deleting
  <2>3. \A d \in Enders : del[d].box = None
    BY <2>2 DEF Handlers, Deleting
  <2>4. running = {}
    BY <1>1, <2>1, <2>3, AgentSessionAssumption DEF Calm, BoxesKnown, TypeOK
  <2>5. running' = {}
    BY <1>1, <2>2, <2>4, GoneEffect DEF Busy
  <2>6. /\ executor' = None /\ agent' = None /\ busy' = {}
        /\ (\A n \in Msg : ~Busy(n)') /\ \A d \in Enders : ~Deleting(d)'
    BY <1>1, GoneEffect
  <2>7. Alone'
    BY <2>6 DEF Alone
  <2>8. BoxesKnown'
    BY <2>5, <2>6 DEF BoxesKnown, Busy, Deleting
  <2>9. AgentKnows'
    BY <2>6 DEF AgentKnows
  <2> QED BY <2>7, <2>8, <2>9 DEF Calm
<1> QED BY <1>2, <1>3

(* The session leaves the maps.                                            *)
LEMMA EndedStep ==
  ASSUME IInv, NEW d \in Enders, Alive, Ended(d, After(d)),
         UNCHANGED <<up, db, knows, busy, msg>>,
         running' \in SUBSET Msg, box' \in [Msg -> Msg \cup {None}], rough' \in BOOLEAN,
         ~rough' => /\ Calm /\ up = (IF d = Sig THEN "stopping" ELSE "up")
                    /\ \A m \in Msg : ~Busy(m)
                    /\ \A e \in Enders \ {d} : ~Deleting(e)
                    /\ \A c \in running' : c \in running /\ c # del[d].box
                                           /\ (executor # None => box[executor] # c)
  PROVE  IInv'
<1> USE DEF IInv
<1>1. /\ executor' = None /\ agent' \in {agent, None} /\ (d # Sig => agent' = None)
      /\ del' \in [Enders -> DelRecord]
      /\ del'[d].st = After(d) /\ del'[d].box = None
      /\ \A e \in Enders \ {d} : del'[e] = del[e]
  BY EndedEffect DEF After
<1>2. TypeOK'
  BY <1>1 DEF TypeOK, DelRecord, db
<1>3. Handlers' /\ DoneIsStored'
  BY <1>1 DEF Handlers, DoneIsStored, Busy, Alive, db, After, Enders
<1>4. ~rough' => Calm'
  <2> SUFFICES ASSUME ~rough' PROVE Calm' OBVIOUS
  <2>1. /\ \A m \in Msg : ~Busy(m)'
        /\ \A e \in Enders : Deleting(e)' => e = d /\ d # Sig
        /\ \A e \in Enders : del'[e].st # "destroy"
    BY <1>1 DEF Busy, Deleting, After
  <2>2. Alone'
    BY <2>1 DEF Alone
  <2>3. running' = {}
    <3> SUFFICES ASSUME NEW c \in running' PROVE FALSE OBVIOUS
    <3>1. PICK e \in Enders : del[e].box = c
      BY DEF Calm, BoxesKnown
    <3>2. e # d
      BY <3>1
    <3>3. del[e].box = None
      BY <3>2 DEF Handlers, Deleting
    <3> QED BY <3>1, <3>3, AgentSessionAssumption
  <2>4. BoxesKnown'
    BY <1>1, <2>1, <2>3 DEF BoxesKnown, Busy
  <2>5. AgentKnows'
    BY <1>1, <2>1 DEF Calm, AgentKnows, db
  <2> QED BY <2>2, <2>4, <2>5 DEF Calm
<1> QED BY <1>2, <1>3, <1>4

LEMMA BeginStep == ASSUME IInv, NEW d \in Enders, Begin(d) PROVE IInv'
<1> USE DEF IInv
<1>1. /\ UNCHANGED <<up, db, boxes, knows, busy, msg>> /\ Alive /\ del[d].st = "new"
      /\ d = Sig => up = "stopping" /\ executor # None
      /\ rough' = (rough \/ (d # Sig /\ UnderWay))
  BY DEF Begin
<1>2. ~rough' => /\ Calm /\ up = (IF d = Sig THEN "stopping" ELSE "up")
                 /\ \A m \in Msg : ~Busy(m)
                 /\ \A e \in Enders : ~Deleting(e)
  <2> SUFFICES ASSUME ~rough'
               PROVE /\ up = (IF d = Sig THEN "stopping" ELSE "up")
                     /\ \A m \in Msg : ~Busy(m)
                     /\ \A e \in Enders : ~Deleting(e)
    BY <1>1
  <2>1. CASE d = Sig
    BY <1>1, <2>1 DEF Calm, Alone, Deleting
  <2>2. CASE d # Sig
    BY <1>1, <2>2 DEF UnderWay, Alive, Busy, MsgOver, Deleting
  <2> QED BY <2>1, <2>2
<1>3. CASE executor # None /\ box[executor] # None
  <2> DEFINE r == [st |-> "destroy", executor |-> executor, box |-> box[executor]]
  <2>1. del' = [del EXCEPT ![d] = r] /\ UNCHANGED maps
    BY <1>3 DEF Begin
  <2>2. r \in DelRecord /\ r.st = "destroy" /\ r.executor = executor /\ r.box = box[executor]
    BY <1>3 DEF DelRecord, TypeOK
  <2>3. /\ del' \in [Enders -> DelRecord] /\ del'[d] = r
        /\ \A e \in Enders \ {d} : del'[e] = del[e]
    <3> HIDE DEF r
    <3> QED BY <2>1, <2>2 DEF TypeOK, DelRecord
  <2> HIDE DEF r
  <2>4. TypeOK'
    BY <1>1, <2>1, <2>3 DEF TypeOK, DelRecord, db, boxes, maps
  <2>5. Handlers' /\ DoneIsStored'
    BY <1>1, <2>2, <2>3 DEF Handlers, DoneIsStored, Busy, Alive, db, Enders
  <2>6. ~rough' => Calm'
    <3> SUFFICES ASSUME ~rough' PROVE Calm' OBVIOUS
    <3>1. /\ \A m \in Msg : ~Busy(m)'
          /\ \A e \in Enders : Deleting(e)' => e = d
          /\ \A e \in Enders \ {d} : del[e].st # "destroy"
      BY <1>1, <1>2, <2>3 DEF Busy, Deleting
    <3>2. Alone'
      BY <1>1, <1>2, <3>1 DEF Alone
    <3>3. \A c \in running : box[executor] = c
      <4> SUFFICES ASSUME NEW c \in running PROVE box[executor] = c OBVIOUS
      <4>1. \A e \in Enders : del[e].box = None
        BY <1>1, <1>2 DEF Handlers, Deleting
      <4> QED BY <1>2, <4>1, AgentSessionAssumption DEF Calm, BoxesKnown, TypeOK
    <3>4. BoxesKnown'
      BY <1>1, <1>2, <1>3, <2>1, <2>2, <2>3, <3>1, <3>3 DEF Calm, BoxesKnown, Busy, boxes, maps
    <3>5. AgentKnows'
      BY <1>1, <1>2, <2>1, <3>1 DEF Calm, AgentKnows, maps, db
    <3> QED BY <3>2, <3>4, <3>5 DEF Calm
  <2> QED BY <2>4, <2>5, <2>6
<1>4. CASE executor = None \/ box[executor] = None
  <2>1. Ended(d, After(d))
    BY <1>4 DEF Begin
  <2>2. /\ running' \in SUBSET Msg /\ box' \in [Msg -> Msg \cup {None}] /\ rough' \in BOOLEAN
    BY <1>1 DEF TypeOK, boxes
  <2>3. del[d].box = None
    BY <1>1 DEF Handlers
  <2>4. \A c \in running' : c \in running /\ c # del[d].box
                            /\ (executor # None => box[executor] # c)
    BY <1>1, <1>4, <2>3, AgentSessionAssumption DEF TypeOK, boxes
  <2> QED BY <1>1, <1>2, <2>1, <2>2, <2>4, EndedStep
<1> QED BY <1>3, <1>4

LEMMA DestroyedStep == ASSUME IInv, NEW d \in Enders, Destroyed(d) PROVE IInv'
<1> USE DEF IInv
<1>1. /\ UNCHANGED <<up, db, knows, busy, msg, rough>> /\ Alive /\ del[d].st = "destroy"
      /\ running' = running \ {del[d].box} /\ box' = [box EXCEPT ![del[d].executor] = None]
      /\ Ended(d, After(d))
  BY DEF Destroyed
<1>2. /\ running' \in SUBSET Msg /\ box' \in [Msg -> Msg \cup {None}] /\ rough' \in BOOLEAN
  BY <1>1 DEF TypeOK
<1>3. ~rough' => /\ Calm /\ up = (IF d = Sig THEN "stopping" ELSE "up")
                 /\ \A m \in Msg : ~Busy(m)
                 /\ \A e \in Enders \ {d} : ~Deleting(e)
  BY <1>1 DEF Calm, Alone, Deleting
<1>4. ~rough' => \A c \in running' : c \in running /\ c # del[d].box
                                     /\ (executor # None => box[executor] # c)
  BY <1>1 DEF Calm, BoxesKnown
<1> QED BY <1>1, <1>2, <1>3, <1>4, EndedStep

LEMMA DeleteRowStep == ASSUME IInv, NEW d \in Enders, DeleteRow(d) PROVE IInv'
<1> USE DEF IInv
<1>1. /\ UNCHANGED <<up, maps, boxes, knows, busy, msg, rough>> /\ del[d].st = "row" /\ Alive
      /\ row' = FALSE /\ asked' = {} /\ answered' = {}
      /\ del' = [del EXCEPT ![d].st = "done"]
  BY DEF DeleteRow
<1>2. /\ del' \in [Enders -> DelRecord] /\ del'[d].st = "done" /\ del'[d].box = del[d].box
      /\ \A e \in Enders \ {d} : del'[e] = del[e]
  BY <1>1 DEF TypeOK, DelRecord
<1>3. TypeOK'
  BY <1>1, <1>2 DEF TypeOK, DelRecord, maps, boxes
<1>4. Handlers' /\ DoneIsStored'
  BY <1>1, <1>2 DEF Handlers, DoneIsStored, Busy, Alive, Enders
<1>5. ~rough' => Calm'
  <2> SUFFICES ASSUME ~rough' PROVE Calm' OBVIOUS
  <2>1. Calm
    BY <1>1
  <2>2. Alone'
    BY <1>1, <1>2, <2>1 DEF Calm, Alone, Busy, Deleting
  <2>3. BoxesKnown'
    BY <1>1, <1>2, <2>1 DEF Calm, BoxesKnown, Busy, maps, boxes
  <2>4. AgentKnows'
    BY <1>1, <2>1 DEF Calm, AgentKnows, Busy, maps
  <2> QED BY <2>2, <2>3, <2>4 DEF Calm
<1> QED BY <1>3, <1>4, <1>5

LEMMA SignalStep == ASSUME IInv, Signal PROVE IInv'
<1> USE DEF IInv
<1>1. /\ UNCHANGED <<db, maps, boxes, knows, busy, msg, del>>
      /\ up = "up" /\ up' = "stopping" /\ rough' = (rough \/ UnderWay)
  BY DEF Signal
<1>2. TypeOK'
  BY <1>1 DEF TypeOK, db, maps, boxes
<1>3. Handlers' /\ DoneIsStored'
  BY <1>1 DEF Handlers, DoneIsStored, Busy, Alive, db
<1>4. ~rough' => Calm'
  <2> SUFFICES ASSUME ~rough' PROVE Calm' OBVIOUS
  <2>1. Calm /\ (\A m \in Msg : ~Busy(m)) /\ \A d \in Enders : ~Deleting(d)
    BY <1>1 DEF UnderWay, Busy, MsgOver, Deleting
  <2>2. Alone'
    BY <1>1, <2>1 DEF Alone, Busy, Deleting
  <2>3. BoxesKnown'
    BY <1>1, <2>1 DEF Handlers, Calm, BoxesKnown, Busy, maps, boxes
  <2>4. AgentKnows'
    BY <1>1, <2>1 DEF Calm, AgentKnows, Busy, maps, db
  <2> QED BY <2>2, <2>3, <2>4 DEF Calm
<1> QED BY <1>2, <1>3, <1>4

LEMMA RestartStep == ASSUME IInv, Restart PROVE IInv'
<1> USE DEF IInv
<1>1. UNCHANGED <<db, maps, boxes, knows, busy, msg, del, rough>> /\ ~Alive /\ up' = "up"
  BY DEF Restart
<1>2. TypeOK'
  BY <1>1 DEF TypeOK, db, maps, boxes
<1>3. Handlers' /\ DoneIsStored'
  BY <1>1 DEF Handlers, DoneIsStored, Busy, Alive, db
<1>4. ~rough' => Calm'
  <2> SUFFICES ASSUME ~rough' PROVE Calm' OBVIOUS
  <2>1. Calm /\ (\A m \in Msg : ~Busy(m)) /\ \A d \in Enders : ~Deleting(d)
    BY <1>1 DEF Calm, Alone, Alive
  <2>2. Alone'
    BY <1>1, <2>1 DEF Alone, Busy, Deleting
  <2>3. BoxesKnown'
    BY <1>1, <2>1 DEF Handlers, Calm, BoxesKnown, Busy, maps, boxes
  <2>4. AgentKnows'
    BY <1>1, <2>1 DEF Calm, AgentKnows, Busy, maps, db
  <2> QED BY <2>2, <2>3, <2>4 DEF Calm
<1> QED BY <1>2, <1>3, <1>4

-----------------------------------------------------------------------------
(* Theorems.                                                               *)

LEMMA Invariance == Spec => []IInv
<1>1. Init => IInv
  <2> SUFFICES ASSUME Init PROVE IInv OBVIOUS
  <2>1. /\ msg = [m \in Msg |-> NewMsg] /\ del = [d \in Enders |-> NewDel] /\ up = "up"
        /\ running = {} /\ busy = {} /\ agent = None /\ executor = None
    BY DEF Init
  <2>2. NewMsg \in MsgRecord /\ NewMsg.st = "new" /\ NewDel \in DelRecord
        /\ NewDel.st = "new" /\ NewDel.box = None
    BY DEF NewMsg, NewDel, MsgRecord, DelRecord, MsgStates
  <2>3. TypeOK
    <3>1. msg \in [Msg -> MsgRecord] /\ del \in [Enders -> DelRecord]
      BY <2>1, <2>2
    <3> QED BY <3>1 DEF Init, TypeOK, MsgRecord, DelRecord
  <2>4. (\A m \in Msg : ~Busy(m)) /\ \A d \in Enders : ~Deleting(d)
    BY <2>1, <2>2 DEF Busy, Deleting
  <2>5. Handlers /\ DoneIsStored
    BY <2>1, <2>2, <2>4 DEF Handlers, DoneIsStored, Enders, Alive
  <2>6. Calm
    BY <2>1, <2>2, <2>4 DEF Calm, Alone, BoxesKnown, AgentKnows
  <2> QED BY <2>3, <2>5, <2>6 DEF IInv
<1>2. IInv /\ [Next]_vars => IInv'
  <2> SUFFICES ASSUME IInv, [Next]_vars PROVE IInv'
    OBVIOUS
  <2>1. CASE UNCHANGED vars
    BY <2>1 DEF vars, db, maps, boxes, IInv, TypeOK, Handlers, DoneIsStored, Calm, Alone,
                BoxesKnown, AgentKnows, Busy, Deleting, Alive
  <2>2. ASSUME NEW m \in Msg, Arrive(m) \/ StartBox(m) \/ Handle(m) PROVE IInv'
    BY <2>2, ArriveStep, StartBoxStep, LoadContextStep, SaveQuestionStep, PromptStep,
       BoxStartedStep, PromptEndsStep, SaveAnswerStep, SaveAnswerFailsStep DEF Handle
  <2>3. ASSUME NEW d \in Enders, Begin(d) \/ End(d) PROVE IInv'
    BY <2>3, BeginStep, DestroyedStep, DeleteRowStep DEF End
  <2>4. CASE Signal \/ Exit \/ Restart
    BY <2>4, SignalStep, ExitStep, RestartStep
  <2> QED BY <2>1, <2>2, <2>3, <2>4 DEF Next
<1> QED BY <1>1, <1>2, PTL DEF Spec

(* The maps, the handlers and the containers have their types.             *)
THEOREM TypeCorrect == Spec => []TypeOK
<1>1. IInv => TypeOK
  BY DEF IInv
<1> QED BY <1>1, Invariance, PTL

(* Requests that do not overlap, deletions, signals and restarts among     *)
(* them, leave no container that nobody will remove, however many there    *)
(* are (index.ts DELETE and shutdown, executors/docker.ts).                *)
THEOREM NoLeakAlone == Spec => []LeakNeedsOverlap
<1>1. IInv => LeakNeedsOverlap
  <2> SUFFICES ASSUME IInv, ~rough, NEW c \in Leaked PROVE FALSE
    BY DEF LeakNeedsOverlap
  <2>1. c \in running /\ (executor = None \/ box[executor] # c)
        /\ \A d \in Enders : del[d].box # c
    BY DEF Leaked
  <2> QED BY <2>1 DEF IInv, Calm, BoxesKnown
<1> QED BY <1>1, Invariance, PTL

(* The agent that answers knows all questions of the session unless        *)
(* requests overlapped, and an answer that was reported done is stored     *)
(* whether they did or not (agent.ts streamMessage, index.ts onDone).      *)
THEOREM ConversationIsWhole == Spec => []HistoryIsComplete
<1>1. IInv => HistoryIsComplete
  <2> SUFFICES ASSUME IInv PROVE HistoryIsComplete OBVIOUS
  <2>1. ASSUME ~rough, NEW m \in Msg, msg[m].st \in {"answering", "starting"}
        PROVE  asked \subseteq knows[msg[m].agent]
    <3>1. Busy(m) /\ Calm
      BY <2>1 DEF Busy, IInv
    <3>2. agent = msg[m].agent /\ agent # None
      BY <2>1, <3>1, AgentSessionAssumption DEF IInv, Handlers, Calm, AgentKnows
    <3>3. \A q \in Msg : msg[q].st # "prompt"
      BY <2>1, <3>1 DEF Calm, Alone, Busy
    <3> QED BY <3>1, <3>2, <3>3 DEF IInv, TypeOK, Calm, AgentKnows
  <2>2. ContextIsComplete
    BY <2>1 DEF ContextIsComplete
  <2> QED BY <2>2 DEF IInv, HistoryIsComplete
<1> QED BY <1>1, Invariance, PTL

LEMMA LeastSubset ==
  ASSUME NEW U, IsFiniteSet(U), NEW X \in SUBSET (SUBSET U), X # {}
  PROVE  \E T \in X : \A R \in X : R \subseteq T => R = T
<1>1. IsWellFoundedOn(StrictSubsetOrdering(U), FiniteSubsetsOf(U))
  BY FS_StrictSubsetOrderingWellFounded
<1>2. X \subseteq FiniteSubsetsOf(U)
  BY FS_Subset DEF FiniteSubsetsOf
<1>3. PICK T \in X : \A R \in X : <<R, T>> \notin StrictSubsetOrdering(U)
  BY <1>1, <1>2, WFMin
<1>4. ASSUME NEW R \in X, R \subseteq T, R # T PROVE FALSE
  BY <1>3, <1>4 DEF StrictSubsetOrdering
<1> QED BY <1>4

(* Each subset of a finite set is in F when those within it are.           *)
LEMMA SubsetInduction ==
  ASSUME NEW U, IsFiniteSet(U), NEW F,
         \A T \in SUBSET U : (\A R \in SUBSET T : R # T => R \in F) => T \in F
  PROVE  \A T \in SUBSET U : T \in F
<1> DEFINE X == {T \in SUBSET U : T \notin F}
<1> SUFFICES ASSUME X # {} PROVE FALSE
  OBVIOUS
<1>1. PICK T \in X : \A R \in X : R \subseteq T => R = T
  <2>1. X \in SUBSET (SUBSET U)
    OBVIOUS
  <2> HIDE DEF X
  <2> QED BY <2>1, LeastSubset
<1>2. ASSUME NEW R \in SUBSET T, R # T PROVE R \in F
  BY <1>1, <1>2
<1> QED BY <1>1, <1>2

LEMMA NaturalInduction ==
  ASSUME NEW S, 0 \in S, \A n \in Nat : n \in S => n + 1 \in S PROVE \A n \in Nat : n \in S
<1> SUFFICES ASSUME NEW n \in Nat PROVE n \in S
  OBVIOUS
<1> DEFINE F == {T \in SUBSET (1 .. n) : Cardinality(T) \in S}
<1>1. IsFiniteSet(1 .. n) /\ Cardinality(1 .. n) = n
  BY FS_Interval
<1>2. ASSUME NEW T \in SUBSET (1 .. n), \A R \in SUBSET T : R # T => R \in F PROVE T \in F
  <2>1. CASE T = {}
    BY <2>1, FS_EmptySet
  <2>2. CASE T # {}
    <3>1. PICK x \in T : TRUE
      BY <2>2
    <3>2. T \ {x} \in F
      BY <1>2, <3>1
    <3>3. IsFiniteSet(T) /\ IsFiniteSet(T \ {x})
      BY <1>1, FS_Subset
    <3>4. Cardinality(T \ {x}) = Cardinality(T) - 1 /\ Cardinality(T) \in Nat
          /\ Cardinality(T \ {x}) \in Nat
      BY <3>1, <3>3, FS_RemoveElement, FS_CardinalityType
    <3> QED BY <3>2, <3>4
  <2> QED BY <2>1, <2>2
<1>3. \A T \in SUBSET (1 .. n) : T \in F
  <2> HIDE DEF F
  <2> QED BY <1>1, <1>2, SubsetInduction
<1> QED BY <1>1, <1>3

-----------------------------------------------------------------------------
(* Walks through the numbers up to n: what a recursive function over a     *)
(* sequence computes from left to right.                                   *)
LEMMA UptoInduction ==
  ASSUME NEW n \in Nat, NEW S, 0 \in S, \A i \in 0 .. n : i < n /\ i \in S => i + 1 \in S
  PROVE  \A i \in 0 .. n : i \in S
<1> DEFINE T == {i \in Nat : i <= n => i \in S}
<1>1. 0 \in T
  OBVIOUS
<1>2. ASSUME NEW i \in Nat, i \in T PROVE i + 1 \in T
  <2>1. CASE i + 1 <= n
    <3>1. i \in 0 .. n /\ i < n
      BY <2>1
    <3> QED BY <1>2, <3>1
  <2>2. CASE ~(i + 1 <= n)
    BY <2>2
  <2> QED BY <2>1, <2>2
<1>3. \A i \in Nat : i \in T
  <2> HIDE DEF T
  <2> QED BY <1>1, <1>2, NaturalInduction
<1> QED BY <1>3

Walking(g, n, base, step) == g[0] = base /\ \A i \in 1 .. n : g[i] = step[i][g[i - 1]]

LEMMA WalkIsThere ==
  ASSUME NEW n \in Nat, NEW V, NEW base \in V, NEW step \in [1 .. n -> [V -> V]]
  PROVE  \E g \in [0 .. n -> V] : Walking(g, n, base, step)
<1> DEFINE S == {k \in 0 .. n : \E g \in [0 .. k -> V] : Walking(g, k, base, step)}
<1>1. 0 \in S
  <2>1. [i \in 0 .. 0 |-> base] \in [0 .. 0 -> V]
    OBVIOUS
  <2>2. Walking([i \in 0 .. 0 |-> base], 0, base, step)
    BY DEF Walking
  <2> QED BY <2>1, <2>2
<1>2. ASSUME NEW k \in 0 .. n, k < n, k \in S PROVE k + 1 \in S
  <2>1. PICK g \in [0 .. k -> V] : Walking(g, k, base, step)
    BY <1>2
  <2>2. k + 1 \in 1 .. n /\ k \in 0 .. k
    BY <1>2
  <2>3. PICK v \in V : v = step[k + 1][g[k]]
    <3>1. step[k + 1] \in [V -> V] /\ g[k] \in V
      BY <2>2
    <3> QED BY <3>1
  <2> DEFINE h == [i \in 0 .. k + 1 |-> IF i = k + 1 THEN v ELSE g[i]]
  <2>4. h \in [0 .. k + 1 -> V]
    OBVIOUS
  <2>5. h[0] = base
    BY <2>1 DEF Walking
  <2>6. ASSUME NEW i \in 1 .. k + 1 PROVE h[i] = step[i][h[i - 1]]
    <3>1. CASE i = k + 1
      <4>1. h[i] = v /\ h[i - 1] = g[k]
        BY <3>1
      <4> QED BY <2>3, <3>1, <4>1
    <3>2. CASE i # k + 1
      <4>1. i \in 1 .. k /\ h[i] = g[i] /\ h[i - 1] = g[i - 1]
        BY <3>2
      <4>2. g[i] = step[i][g[i - 1]]
        BY <2>1, <4>1 DEF Walking
      <4> QED BY <4>1, <4>2
    <3> QED BY <3>1, <3>2
  <2>7. Walking(h, k + 1, base, step)
    <3> HIDE DEF h
    <3> QED BY <2>5, <2>6 DEF Walking
  <2> QED BY <2>2, <2>4, <2>7
<1>3. n \in S
  <2> HIDE DEF S
  <2>1. \A i \in 0 .. n : i \in S
    BY <1>1, <1>2, UptoInduction
  <2> QED BY <2>1
<1> QED BY <1>3

-----------------------------------------------------------------------------
(* The tools of the agent.  First the bytes of lines, as sums of widths.   *)
Adding(g, s) == g = [i \in 0 .. Len(s) |-> IF i = 0 THEN 0 ELSE g[i - 1] + s[i]]
AddsUp(g, s) == g \in [0 .. Len(s) -> Nat] /\ g[0] = 0 /\ \A i \in 1 .. Len(s) : g[i] = g[i - 1] + s[i]

LEMMA AddUpIs == ASSUME NEW s PROVE Tools!AddUp(s) = (CHOOSE g : Adding(g, s))[Len(s)]
BY DEF Tools!AddUp, Adding

LEMMA AddUpIsThere ==
  ASSUME NEW s \in Seq(Nat) PROVE \E g : AddsUp(g, s) /\ Tools!AddUp(s) = g[Len(s)]
<1>0. PICK n \in Nat : n = Len(s)
  BY LenProperties
<1>1. \A i \in 1 .. n : s[i] \in Nat
  BY <1>0, ElementOfSeq
<1> DEFINE step == [i \in 1 .. n |-> [v \in Nat |-> v + s[i]]]
<1>2. step \in [1 .. n -> [Nat -> Nat]]
  BY <1>1
<1>3. PICK g \in [0 .. n -> Nat] : Walking(g, n, 0, step)
  <2> HIDE DEF step
  <2> QED BY <1>2, WalkIsThere
<1>4. ASSUME NEW i \in 1 .. n PROVE g[i] = g[i - 1] + s[i]
  <2>1. g[i] = step[i][g[i - 1]]
    <3> HIDE DEF step
    <3> QED BY <1>3 DEF Walking
  <2>2. g[i - 1] \in Nat
    OBVIOUS
  <2> QED BY <2>1, <2>2
<1>5. g[0] = 0
  BY <1>3 DEF Walking
<1> HIDE DEF step
<1>6. Adding(g, s)
  <2>1. g = [i \in 0 .. n |-> g[i]]
    OBVIOUS
  <2>2. \A i \in 0 .. n : g[i] = IF i = 0 THEN 0 ELSE g[i - 1] + s[i]
    BY <1>4, <1>5
  <2> QED BY <1>0, <2>1, <2>2 DEF Adding
<1>7. PICK h : h = CHOOSE f : Adding(f, s)
  OBVIOUS
<1>8. Adding(h, s)
  BY <1>6, <1>7
<1>9. /\ \A i \in 0 .. n : h[i] = IF i = 0 THEN 0 ELSE h[i - 1] + s[i]
      /\ DOMAIN h = 0 .. n /\ h = [i \in 0 .. n |-> h[i]]
  <2>1. h = [i \in 0 .. n |-> IF i = 0 THEN 0 ELSE h[i - 1] + s[i]]
    BY <1>0, <1>8 DEF Adding
  <2> QED BY <2>1
<1>10. \A i \in 0 .. n : h[i] \in Nat
  <2> DEFINE S == {i \in 0 .. n : h[i] \in Nat}
  <2>1. 0 \in S
    BY <1>9
  <2>2. ASSUME NEW i \in 0 .. n, i < n, i \in S PROVE i + 1 \in S
    <3>1. i + 1 \in 1 .. n /\ i + 1 \in 0 .. n /\ (i + 1) - 1 = i /\ i + 1 # 0
      BY <2>2
    <3>2. h[i + 1] = h[i] + s[i + 1]
      BY <1>9, <3>1
    <3>3. s[i + 1] \in Nat /\ h[i] \in Nat
      BY <1>1, <2>2, <3>1
    <3> QED BY <3>1, <3>2, <3>3
  <2> HIDE DEF S
  <2>3. \A i \in 0 .. n : i \in S
    BY <2>1, <2>2, UptoInduction
  <2> QED BY <2>3 DEF S
<1>11. AddsUp(h, s)
  <2>1. h \in [0 .. n -> Nat]
    BY <1>9, <1>10
  <2>2. 0 \in 0 .. n /\ \A i \in 1 .. n : i \in 0 .. n /\ i # 0
    OBVIOUS
  <2>3. h[0] = 0 /\ \A i \in 1 .. n : h[i] = h[i - 1] + s[i]
    BY <1>9, <2>2
  <2> QED BY <1>0, <2>1, <2>3 DEF AddsUp
<1> QED BY <1>7, <1>11, AddUpIs

(* What a part of a sequence adds up to.                                   *)
LEMMA AddUpOfPart ==
  ASSUME NEW s \in Seq(Nat), NEW g, AddsUp(g, s),
         NEW a \in 1 .. Len(s) + 1, NEW b \in a - 1 .. Len(s)
  PROVE  Tools!AddUp(SubSeq(s, a, b)) = g[b] - g[a - 1]
<1>0. PICK n \in Nat : n = Len(s)
  BY LenProperties
<1>1. PICK t : t = SubSeq(s, a, b)
  OBVIOUS
<1>2. PICK k \in Nat : k = b - a + 1
  BY <1>0
<1>3. /\ t \in Seq(Nat) /\ Len(t) = k
      /\ \A i \in 1 .. k : t[i] = s[a + i - 1]
  <2>1. a \in Int /\ b \in Int /\ \A i \in a .. b : s[i] \in Nat
    BY <1>0, ElementOfSeq
  <2>2. /\ t \in Seq(Nat) /\ Len(t) = IF a <= b THEN b - a + 1 ELSE 0
        /\ \A i \in 1 .. b - a + 1 : t[i] = s[a + i - 1]
    BY <1>1, <2>1, SubSeqProperties
  <2> QED BY <1>0, <1>2, <2>2
<1>4. PICK h : AddsUp(h, t) /\ Tools!AddUp(t) = h[k]
  BY <1>3, AddUpIsThere
<1> DEFINE S == {i \in 0 .. k : h[i] = g[a - 1 + i] - g[a - 1]}
<1>5. 0 \in S
  <2>1. a - 1 \in 0 .. n /\ a - 1 + 0 = a - 1
    BY <1>0
  <2>2. g[a - 1] \in Nat
    BY <1>0, <2>1 DEF AddsUp
  <2>3. h[0] = 0
    BY <1>4 DEF AddsUp
  <2> QED BY <2>1, <2>2, <2>3
<1>6. ASSUME NEW i \in 0 .. k, i < k, i \in S PROVE i + 1 \in S
  <2>1. PICK j \in 1 .. n : j = a + i
    BY <1>0, <1>2, <1>6
  <2>2. h[i + 1] = h[i] + t[i + 1]
    <3>1. i + 1 \in 1 .. k /\ (i + 1) - 1 = i
      BY <1>6
    <3> QED BY <1>3, <1>4, <3>1 DEF AddsUp
  <2>3. t[i + 1] = s[j]
    <3>1. i + 1 \in 1 .. k /\ a + (i + 1) - 1 = j
      BY <1>6, <2>1
    <3> QED BY <1>3, <3>1
  <2>4. g[j] = g[j - 1] + s[j] /\ j - 1 = a - 1 + i /\ j = a - 1 + (i + 1)
    BY <1>0, <2>1 DEF AddsUp
  <2>5. g[j - 1] \in Nat /\ g[a - 1] \in Nat /\ s[j] \in Nat /\ h[i] = g[j - 1] - g[a - 1]
    <3>1. j - 1 \in 0 .. n /\ a - 1 \in 0 .. n
      BY <1>0, <2>1
    <3>2. g[j - 1] \in Nat /\ g[a - 1] \in Nat
      BY <1>0, <3>1 DEF AddsUp
    <3>3. s[j] \in Nat
      BY <1>0, <2>1, ElementOfSeq
    <3> QED BY <1>6, <2>4, <3>2, <3>3
  <2>6. h[i + 1] = g[j] - g[a - 1]
    BY <2>2, <2>3, <2>4, <2>5
  <2> QED BY <1>6, <2>4, <2>6
<1>7. k \in S
  <2> HIDE DEF S
  <2>1. \A i \in 0 .. k : i \in S
    BY <1>5, <1>6, UptoInduction
  <2> QED BY <2>1
<1>8. a - 1 + k = b
  BY <1>0, <1>2
<1> QED BY <1>1, <1>4, <1>7, <1>8

-----------------------------------------------------------------------------
(* The size of some of a text's lines.                                     *)
Texts == Seq(Seq(Nat))
Widths(lines) == [i \in 1 .. Len(lines) |-> Tools!Bytes(lines[i])]

LEMMA BytesType == ASSUME NEW l \in Seq(Nat) PROVE Tools!Bytes(l) \in Nat
<1>1. PICK g : AddsUp(g, l) /\ Tools!AddUp(l) = g[Len(l)]
  BY AddUpIsThere
<1>2. Len(l) \in 0 .. Len(l)
  BY LenProperties
<1> QED BY <1>1, <1>2 DEF AddsUp, Tools!Bytes

LEMMA WidthsType ==
  ASSUME NEW lines \in Texts
  PROVE  /\ Widths(lines) \in Seq(Nat) /\ Len(Widths(lines)) = Len(lines)
         /\ \A i \in 1 .. Len(lines) : Widths(lines)[i] = Tools!Bytes(lines[i])
                                       /\ lines[i] \in Seq(Nat)
<1>1. PICK n \in Nat : n = Len(lines)
  BY LenProperties DEF Texts
<1>2. \A i \in 1 .. n : lines[i] \in Seq(Nat)
  BY <1>1, ElementOfSeq DEF Texts
<1>3. \A i \in 1 .. n : Tools!Bytes(lines[i]) \in Nat
  BY <1>2, BytesType
<1>4. Widths(lines) = [i \in 1 .. n |-> Tools!Bytes(lines[i])]
  BY <1>1 DEF Widths
<1>5. Widths(lines) \in [1 .. n -> Nat]
  BY <1>3, <1>4
<1>6. Widths(lines) \in Seq(Nat) /\ Len(Widths(lines)) = n
  BY <1>5
<1> QED BY <1>1, <1>2, <1>4, <1>6

LEMMA PartOfText ==
  ASSUME NEW S, NEW lines \in Seq(S), NEW a \in 1 .. Len(lines) + 1, NEW b \in a - 1 .. Len(lines)
  PROVE  /\ SubSeq(lines, a, b) \in Seq(S) /\ Len(SubSeq(lines, a, b)) = b - a + 1
         /\ \A i \in 1 .. b - a + 1 : SubSeq(lines, a, b)[i] = lines[a + i - 1]
<1>0. PICK n \in Nat : n = Len(lines)
  BY LenProperties
<1>1. a \in Int /\ b \in Int /\ \A i \in a .. b : lines[i] \in S
  BY <1>0, ElementOfSeq
<1>2. PICK t : t = SubSeq(lines, a, b)
  OBVIOUS
<1>3. /\ t \in Seq(S) /\ Len(t) = IF a <= b THEN b - a + 1 ELSE 0
      /\ \A i \in 1 .. b - a + 1 : t[i] = lines[a + i - 1]
  BY <1>1, <1>2, SubSeqProperties
<1>4. b - a + 1 = IF a <= b THEN b - a + 1 ELSE 0
  BY <1>0
<1> QED BY <1>2, <1>3, <1>4

LEMMA SizeOfPart ==
  ASSUME NEW lines \in Texts, NEW g, AddsUp(g, Widths(lines)),
         NEW a \in 1 .. Len(lines) + 1, NEW b \in a - 1 .. Len(lines)
  PROVE  Tools!Size(SubSeq(lines, a, b)) = IF b = a - 1 THEN 0 ELSE g[b] - g[a - 1] + (b - a)
<1>0. PICK n \in Nat : n = Len(lines)
  BY LenProperties DEF Texts
<1>1. PICK w \in Seq(Nat) : w = Widths(lines) /\ Len(w) = n
      /\ \A i \in 1 .. n : w[i] = Tools!Bytes(lines[i])
  BY <1>0, WidthsType
<1>2. PICK t \in Texts : t = SubSeq(lines, a, b) /\ Len(t) = b - a + 1
      /\ \A i \in 1 .. b - a + 1 : t[i] = lines[a + i - 1]
  <2>1. lines \in Seq(Seq(Nat))
    BY DEF Texts
  <2>2. /\ SubSeq(lines, a, b) \in Seq(Seq(Nat)) /\ Len(SubSeq(lines, a, b)) = b - a + 1
        /\ \A i \in 1 .. b - a + 1 : SubSeq(lines, a, b)[i] = lines[a + i - 1]
    BY <2>1, PartOfText
  <2> QED BY <2>2 DEF Texts
<1>3. CASE b = a - 1
  <2>1. Len(t) = 0
    BY <1>0, <1>2, <1>3
  <2>2. t = <<>>
    BY <2>1, EmptySeq DEF Texts
  <2> QED BY <1>2, <1>3, <2>2 DEF Tools!Size
<1>4. CASE b # a - 1
  <2>1. Len(t) \in Nat /\ Len(t) > 0
    BY <1>0, <1>2, <1>4
  <2>2. t # <<>>
    BY <2>1
  <2>3. Widths(t) = SubSeq(w, a, b)
    <3>1. PICK u \in Seq(Nat) : u = SubSeq(w, a, b) /\ Len(u) = b - a + 1
            /\ \A i \in 1 .. b - a + 1 : u[i] = w[a + i - 1]
      <4>1. a \in 1 .. Len(w) + 1 /\ b \in a - 1 .. Len(w)
        BY <1>0, <1>1
      <4>2. /\ SubSeq(w, a, b) \in Seq(Nat) /\ Len(SubSeq(w, a, b)) = b - a + 1
            /\ \A i \in 1 .. b - a + 1 : SubSeq(w, a, b)[i] = w[a + i - 1]
        BY <4>1, PartOfText
      <4> QED BY <4>2
    <3>2. PICK v \in Seq(Nat) : v = Widths(t) /\ Len(v) = b - a + 1
            /\ \A i \in 1 .. b - a + 1 : v[i] = Tools!Bytes(t[i])
      BY <1>2, WidthsType
    <3>3. ASSUME NEW i \in 1 .. b - a + 1 PROVE u[i] = v[i]
      <4>1. a + i - 1 \in 1 .. n
        BY <1>0
      <4> QED BY <1>1, <1>2, <3>1, <3>2, <4>1
    <3>4. u = v
      BY <3>1, <3>2, <3>3, SeqEqual
    <3> QED BY <3>1, <3>2, <3>4
  <2>4. Tools!AddUp(SubSeq(w, a, b)) = g[b] - g[a - 1]
    BY <1>0, <1>1, AddUpOfPart
  <2>5. Tools!Size(t) = Tools!AddUp(Widths(t)) + Len(t) - 1
    BY <2>2 DEF Tools!Size, Widths
  <2>6. g[b] \in Nat /\ g[a - 1] \in Nat
    <3>1. b \in 0 .. n /\ a - 1 \in 0 .. n
      BY <1>0
    <3> QED BY <1>1, <3>1 DEF AddsUp
  <2>7. Tools!Size(t) = (g[b] - g[a - 1]) + (b - a + 1) - 1
    BY <1>2, <2>3, <2>4, <2>5
  <2> QED BY <1>0, <1>2, <1>4, <2>6, <2>7
<1> QED BY <1>3, <1>4

LEMMA WholeIsPart ==
  ASSUME NEW S, NEW lines \in Seq(S) PROVE SubSeq(lines, 1, Len(lines)) = lines
<1>1. PICK n \in Nat : n = Len(lines)
  BY LenProperties
<1>2. PICK t \in Seq(S) : t = SubSeq(lines, 1, n) /\ Len(t) = n
      /\ \A i \in 1 .. n : t[i] = lines[i]
  <2>1. 1 \in 1 .. Len(lines) + 1 /\ n \in 1 - 1 .. Len(lines)
    BY <1>1
  <2>2. /\ SubSeq(lines, 1, n) \in Seq(S) /\ Len(SubSeq(lines, 1, n)) = n - 1 + 1
        /\ \A i \in 1 .. n - 1 + 1 : SubSeq(lines, 1, n)[i] = lines[1 + i - 1]
    BY <2>1, PartOfText
  <2>3. n - 1 + 1 = n /\ \A i \in 1 .. n : 1 + i - 1 = i
    OBVIOUS
  <2> QED BY <2>2, <2>3
<1>3. t = lines
  BY <1>1, <1>2, SeqEqual
<1> QED BY <1>1, <1>2, <1>3

-----------------------------------------------------------------------------
(* The loop that takes lines until a limit is reached.                     *)
TakenRecord == [n : Nat, bytes : Nat, full : BOOLEAN]
Nothing == [n |-> 0, bytes |-> 0, full |-> FALSE]
SizeTo(g, k) == IF k = 0 THEN 0 ELSE g[k] + k - 1

(* What was taken of the first i lines: all of them, as many as may be, or *)
(* as many as fit.                                                         *)
TakeSays(r, g, i) ==
  /\ r.n <= i /\ r.n <= MaxLines
  /\ r.bytes = SizeTo(g, r.n) /\ r.bytes <= MaxBytes
  /\ r.full => r.n < i /\ r.n < MaxLines /\ SizeTo(g, r.n + 1) > MaxBytes
  /\ ~r.full => r.n = i \/ r.n = MaxLines

LEMMA TakeIs ==
  ASSUME NEW r \in TakenRecord, NEW l \in Seq(Nat), NEW b \in Nat,
         b = r.bytes + Tools!Bytes(l) + IF r.n > 0 THEN 1 ELSE 0
  PROVE  /\ r.full \/ r.n >= MaxLines => Tools!Take(r, l) = r
         /\ ~(r.full \/ r.n >= MaxLines) /\ b > MaxBytes =>
              Tools!Take(r, l) = [r EXCEPT !.full = TRUE]
         /\ ~(r.full \/ r.n >= MaxLines) /\ ~(b > MaxBytes) =>
              Tools!Take(r, l) = [n |-> r.n + 1, bytes |-> b, full |-> FALSE]
<1>1. CASE r.full \/ r.n >= MaxLines
  BY <1>1 DEF Tools!Take
<1>2. CASE ~(r.full \/ r.n >= MaxLines) /\ b > MaxBytes
  BY <1>2 DEF Tools!Take
<1>3. CASE ~(r.full \/ r.n >= MaxLines) /\ ~(b > MaxBytes)
  BY <1>3 DEF Tools!Take
<1> QED BY <1>1, <1>2, <1>3

LEMMA TakeStep ==
  ASSUME Tools!ToolsAssumption, NEW lines \in Texts, NEW g, AddsUp(g, Widths(lines)),
         NEW i \in 1 .. Len(lines), NEW r \in TakenRecord
  PROVE  /\ Tools!Take(r, lines[i]) \in TakenRecord
         /\ TakeSays(r, g, i - 1) => TakeSays(Tools!Take(r, lines[i]), g, i)
<1>0. PICK m \in Nat : m = Len(lines)
  BY LenProperties DEF Texts
<1>1. PICK l \in Seq(Nat), w \in Nat : l = lines[i] /\ w = Tools!Bytes(l) /\ w = Widths(lines)[i]
  BY WidthsType, BytesType
<1>2. PICK b \in Nat : b = r.bytes + w + IF r.n > 0 THEN 1 ELSE 0
  BY DEF TakenRecord
<1>3. b = r.bytes + Tools!Bytes(l) + IF r.n > 0 THEN 1 ELSE 0
  BY <1>1, <1>2
<1>4. MaxLines \in Nat /\ MaxBytes \in Nat
  BY DEF Tools!ToolsAssumption
<1>5. r.n \in Nat /\ r.bytes \in Nat /\ r.full \in BOOLEAN
  BY DEF TakenRecord
<1>6. PICK c \in Nat, d \in Nat : c = g[i - 1] /\ d = g[i] /\ d = c + w
  <2>1. i - 1 \in 0 .. m /\ i \in 0 .. m /\ i \in 1 .. m
    BY <1>0
  <2>2. Len(Widths(lines)) = m
    BY <1>0, WidthsType
  <2>3. g[i] \in Nat /\ g[i - 1] \in Nat /\ g[i] = g[i - 1] + Widths(lines)[i]
    BY <2>1, <2>2 DEF AddsUp
  <2> QED BY <1>1, <2>3
<1>7. g[0] = 0
  BY DEF AddsUp
<1>8. CASE r.full \/ r.n >= MaxLines
  <2>1. Tools!Take(r, l) = r
    BY <1>3, <1>8, TakeIs
  <2>2. TakeSays(r, g, i - 1) => TakeSays(r, g, i)
    BY <1>4, <1>5, <1>8 DEF TakeSays
  <2> QED BY <1>1, <2>1, <2>2
<1>9. CASE ~(r.full \/ r.n >= MaxLines) /\ b > MaxBytes
  <2>1. PICK q : q = [r EXCEPT !.full = TRUE]
    OBVIOUS
  <2>2. Tools!Take(r, l) = q
    BY <1>3, <1>9, <2>1, TakeIs
  <2>3. q \in TakenRecord /\ q.n = r.n /\ q.bytes = r.bytes /\ q.full
    BY <2>1 DEF TakenRecord
  <2>4. ASSUME TakeSays(r, g, i - 1) PROVE TakeSays(q, g, i)
    <3>1. r.n = i - 1
      BY <1>4, <1>5, <1>9, <2>4 DEF TakeSays
    <3>2. SizeTo(g, r.n + 1) = d + i - 1
      <4>1. r.n + 1 = i /\ i # 0
        BY <1>0, <3>1
      <4>2. SizeTo(g, i) = g[i] + i - 1
        BY <4>1 DEF SizeTo
      <4> QED BY <1>6, <4>1, <4>2
    <3>3. b = d + i - 1
      <4>1. CASE r.n = 0
        <5>1. r.bytes = 0 /\ c = 0 /\ i = 1
          BY <1>6, <1>7, <2>4, <3>1, <4>1 DEF TakeSays, SizeTo
        <5> QED BY <1>2, <1>6, <4>1, <5>1
      <4>2. CASE r.n # 0
        <5>1. r.bytes = c + r.n - 1
          <6>1. r.bytes = g[r.n] + r.n - 1 /\ g[r.n] = c
            BY <1>6, <2>4, <3>1, <4>2 DEF TakeSays, SizeTo
          <6> QED BY <6>1
        <5>2. b = r.bytes + w + 1
          BY <1>2, <1>5, <4>2
        <5>3. PICK k \in Nat : k = r.n
          BY <1>5
        <5>4. b = (c + k - 1) + w + 1 /\ k = i - 1 /\ d = c + w
          BY <1>6, <3>1, <5>1, <5>2, <5>3
        <5>5. i \in Int
          BY <1>0
        <5> QED BY <5>4, <5>5
      <4> QED BY <4>1, <4>2
    <3> QED BY <1>4, <1>5, <1>9, <2>3, <2>4, <3>1, <3>2, <3>3 DEF TakeSays
  <2> QED BY <1>1, <2>2, <2>3, <2>4
<1>10. CASE ~(r.full \/ r.n >= MaxLines) /\ ~(b > MaxBytes)
  <2>1. PICK q : q = [n |-> r.n + 1, bytes |-> b, full |-> FALSE]
    OBVIOUS
  <2>2. Tools!Take(r, l) = q
    BY <1>3, <1>10, <2>1, TakeIs
  <2>3. q \in TakenRecord /\ q.n = r.n + 1 /\ q.bytes = b /\ ~q.full
    BY <1>5, <2>1 DEF TakenRecord
  <2>4. ASSUME TakeSays(r, g, i - 1) PROVE TakeSays(q, g, i)
    <3>1. r.n = i - 1
      BY <1>4, <1>5, <1>10, <2>4 DEF TakeSays
    <3>2. SizeTo(g, r.n + 1) = d + i - 1
      <4>1. r.n + 1 = i /\ i # 0
        BY <1>0, <3>1
      <4>2. SizeTo(g, i) = g[i] + i - 1
        BY <4>1 DEF SizeTo
      <4> QED BY <1>6, <4>1, <4>2
    <3>3. b = d + i - 1
      <4>1. CASE r.n = 0
        <5>1. r.bytes = 0 /\ c = 0 /\ i = 1
          BY <1>6, <1>7, <2>4, <3>1, <4>1 DEF TakeSays, SizeTo
        <5> QED BY <1>2, <1>6, <4>1, <5>1
      <4>2. CASE r.n # 0
        <5>1. r.bytes = c + r.n - 1
          <6>1. r.bytes = g[r.n] + r.n - 1 /\ g[r.n] = c
            BY <1>6, <2>4, <3>1, <4>2 DEF TakeSays, SizeTo
          <6> QED BY <6>1
        <5>2. b = r.bytes + w + 1
          BY <1>2, <1>5, <4>2
        <5>3. PICK k \in Nat : k = r.n
          BY <1>5
        <5>4. b = (c + k - 1) + w + 1 /\ k = i - 1 /\ d = c + w
          BY <1>6, <3>1, <5>1, <5>2, <5>3
        <5>5. i \in Int
          BY <1>0
        <5> QED BY <5>4, <5>5
      <4> QED BY <4>1, <4>2
    <3> QED BY <1>4, <1>5, <1>10, <2>3, <2>4, <3>1, <3>2, <3>3 DEF TakeSays
  <2> QED BY <1>1, <2>2, <2>3, <2>4
<1> QED BY <1>8, <1>9, <1>10

Taking(g, lines) ==
  g = [i \in 0 .. Len(lines) |-> IF i = 0 THEN Nothing ELSE Tools!Take(g[i - 1], lines[i])]

LEMMA TakenIs == ASSUME NEW lines PROVE Tools!Taken(lines) = (CHOOSE g : Taking(g, lines))[Len(lines)]
BY DEF Tools!Taken, Taking, Nothing

LEMMA TakenSays ==
  ASSUME Tools!ToolsAssumption, NEW lines \in Texts, NEW g, AddsUp(g, Widths(lines))
  PROVE  Tools!Taken(lines) \in TakenRecord /\ TakeSays(Tools!Taken(lines), g, Len(lines))
<1>0. PICK n \in Nat : n = Len(lines)
  BY LenProperties DEF Texts
<1>1. Nothing \in TakenRecord
  BY DEF Nothing, TakenRecord
<1> DEFINE step == [i \in 1 .. n |-> [v \in TakenRecord |-> Tools!Take(v, lines[i])]]
<1>2. step \in [1 .. n -> [TakenRecord -> TakenRecord]]
  BY <1>0, TakeStep
<1>3. PICK f \in [0 .. n -> TakenRecord] : Walking(f, n, Nothing, step)
  <2> HIDE DEF step
  <2> QED BY <1>1, <1>2, WalkIsThere
<1>4. ASSUME NEW i \in 1 .. n PROVE f[i] = Tools!Take(f[i - 1], lines[i])
  <2>1. f[i] = step[i][f[i - 1]]
    <3> HIDE DEF step
    <3> QED BY <1>3 DEF Walking
  <2>2. f[i - 1] \in TakenRecord
    OBVIOUS
  <2> QED BY <2>1, <2>2
<1>5. f[0] = Nothing
  BY <1>3 DEF Walking
<1> HIDE DEF step
<1>6. Taking(f, lines)
  <2>1. f = [i \in 0 .. n |-> f[i]]
    OBVIOUS
  <2>2. \A i \in 0 .. n : f[i] = IF i = 0 THEN Nothing ELSE Tools!Take(f[i - 1], lines[i])
    BY <1>4, <1>5
  <2> QED BY <1>0, <2>1, <2>2 DEF Taking
<1>7. PICK h : h = CHOOSE e : Taking(e, lines)
  OBVIOUS
<1>8. \A i \in 0 .. n : h[i] = IF i = 0 THEN Nothing ELSE Tools!Take(h[i - 1], lines[i])
  <2>1. Taking(h, lines)
    BY <1>6, <1>7
  <2>2. h = [i \in 0 .. n |-> IF i = 0 THEN Nothing ELSE Tools!Take(h[i - 1], lines[i])]
    BY <1>0, <2>1 DEF Taking
  <2> QED BY <2>2
<1> DEFINE S == {i \in 0 .. n : h[i] \in TakenRecord /\ TakeSays(h[i], g, i)}
<1>9. 0 \in S
  <2>1. h[0] = Nothing
    BY <1>8
  <2>2. TakeSays(Nothing, g, 0)
    BY DEF TakeSays, Nothing, SizeTo, Tools!ToolsAssumption
  <2> QED BY <1>1, <2>1, <2>2
<1>10. ASSUME NEW i \in 0 .. n, i < n, i \in S PROVE i + 1 \in S
  <2>1. i + 1 \in 1 .. n /\ (i + 1) - 1 = i /\ i + 1 # 0 /\ i + 1 \in 0 .. n
    BY <1>10
  <2>2. h[i + 1] = Tools!Take(h[i], lines[i + 1])
    BY <1>8, <2>1
  <2>3. h[i] \in TakenRecord /\ TakeSays(h[i], g, i)
    BY <1>10
  <2>4. Tools!Take(h[i], lines[i + 1]) \in TakenRecord
        /\ TakeSays(Tools!Take(h[i], lines[i + 1]), g, i + 1)
    BY <1>0, <2>1, <2>3, TakeStep
  <2> QED BY <2>1, <2>2, <2>4
<1>11. n \in S
  <2> HIDE DEF S
  <2>1. \A i \in 0 .. n : i \in S
    BY <1>9, <1>10, UptoInduction
  <2> QED BY <2>1
<1> QED BY <1>0, <1>7, <1>11, TakenIs

-----------------------------------------------------------------------------
(* What the loop took, in terms of sizes: one more line would not fit.     *)
LoopSays(lines, k, full) ==
  /\ k \in 0 .. Len(lines) /\ k <= MaxLines
  /\ Tools!Size(SubSeq(lines, 1, k)) <= MaxBytes
  /\ k < Len(lines) => ~Tools!Whole(SubSeq(lines, 1, k + 1))
  /\ k < Len(lines) /\ ~full => k = MaxLines
  /\ k = Len(lines) => Tools!Whole(lines)
  /\ Tools!Bytes(lines[1]) > MaxBytes <=> k = 0
  /\ k = 0 => ~Tools!Whole(SubSeq(lines, 1, 1))

LEMMA SizesOfTop ==
  ASSUME NEW lines \in Texts, NEW g, AddsUp(g, Widths(lines)), NEW j \in 0 .. Len(lines)
  PROVE  Tools!Size(SubSeq(lines, 1, j)) = SizeTo(g, j) /\ Len(SubSeq(lines, 1, j)) = j
<1>0. PICK n \in Nat : n = Len(lines)
  BY LenProperties DEF Texts
<1>1. 1 \in 1 .. Len(lines) + 1 /\ j \in 1 - 1 .. Len(lines)
  BY <1>0
<1>2. g[0] = 0 /\ g[j] \in Nat
  BY WidthsType DEF AddsUp
<1>3. Tools!Size(SubSeq(lines, 1, j)) = IF j = 1 - 1 THEN 0 ELSE g[j] - g[1 - 1] + (j - 1)
  BY <1>1, SizeOfPart
<1>4. Tools!Size(SubSeq(lines, 1, j)) = IF j = 0 THEN 0 ELSE g[j] - 0 + (j - 1)
  BY <1>2, <1>3
<1>5. Len(SubSeq(lines, 1, j)) = j - 1 + 1
  BY <1>1, PartOfText DEF Texts
<1> QED BY <1>0, <1>2, <1>4, <1>5 DEF SizeTo

LEMMA Looped ==
  ASSUME Tools!ToolsAssumption, NEW lines \in Texts, lines # <<>>
  PROVE  LoopSays(lines, Tools!Taken(lines).n, Tools!Taken(lines).full)
<1>0. PICK n \in Nat : n = Len(lines) /\ n > 0
  BY LenProperties, EmptySeq DEF Texts
<1>1. PICK g : AddsUp(g, Widths(lines))
  BY WidthsType, AddUpIsThere
<1>2. PICK r \in TakenRecord : r = Tools!Taken(lines) /\ TakeSays(r, g, n)
  BY <1>0, <1>1, TakenSays
<1>3. PICK k \in Nat : k = r.n
  BY DEF TakenRecord
<1>4. MaxLines \in Nat \ {0} /\ MaxBytes \in Nat
  BY DEF Tools!ToolsAssumption
<1>5. \A j \in 0 .. n : Tools!Size(SubSeq(lines, 1, j)) = SizeTo(g, j) /\ Len(SubSeq(lines, 1, j)) = j
  BY <1>0, <1>1, SizesOfTop
<1>6. SubSeq(lines, 1, n) = lines
  BY <1>0, WholeIsPart DEF Texts
<1>7. Tools!Bytes(lines[1]) = SizeTo(g, 1)
  <2>1. 1 \in 1 .. n /\ 1 - 1 = 0 /\ 1 \in 0 .. n
    BY <1>0
  <2>2. Len(Widths(lines)) = n /\ Widths(lines)[1] = Tools!Bytes(lines[1])
        /\ Tools!Bytes(lines[1]) \in Nat
    BY <1>0, <2>1, WidthsType, BytesType
  <2>3. g[1] = g[0] + Widths(lines)[1] /\ g[0] = 0 /\ g[1] \in Nat
    BY <1>1, <2>1, <2>2 DEF AddsUp
  <2> QED BY <2>2, <2>3 DEF SizeTo
<1>8. k <= n /\ k <= MaxLines /\ SizeTo(g, k) <= MaxBytes
  BY <1>2, <1>3 DEF TakeSays
<1>9. k < n => (r.full /\ SizeTo(g, k + 1) > MaxBytes) \/ k = MaxLines
  BY <1>2, <1>3, <1>4, <1>8 DEF TakeSays
<1>10. r.full => k < n /\ SizeTo(g, k + 1) > MaxBytes /\ k < MaxLines
  BY <1>2, <1>3 DEF TakeSays
<1>11. k < n => ~Tools!Whole(SubSeq(lines, 1, k + 1))
  <2> SUFFICES ASSUME k < n PROVE ~Tools!Whole(SubSeq(lines, 1, k + 1))
    OBVIOUS
  <2>1. k + 1 \in 0 .. n
    BY <1>0
  <2>2. Tools!Size(SubSeq(lines, 1, k + 1)) = SizeTo(g, k + 1) /\ Len(SubSeq(lines, 1, k + 1)) = k + 1
    BY <1>5, <2>1
  <2>3. CASE SizeTo(g, k + 1) > MaxBytes
    <3>1. PICK z : z = Tools!Size(SubSeq(lines, 1, k + 1))
      OBVIOUS
    <3>2. SizeTo(g, k + 1) \in Int
      <4>1. g[k + 1] \in Nat
        BY <1>0, <1>1, <2>1, WidthsType DEF AddsUp
      <4> QED BY <4>1 DEF SizeTo
    <3>3. ~(z <= MaxBytes)
      BY <1>4, <2>2, <2>3, <3>1, <3>2
    <3> QED BY <3>1, <3>3 DEF Tools!Whole
  <2>4. CASE k = MaxLines
    <3>1. ~(k + 1 <= MaxLines)
      BY <1>4, <2>4
    <3> QED BY <2>2, <3>1 DEF Tools!Whole
  <2> QED BY <1>9, <2>3, <2>4
<1>12. k < n /\ ~r.full => k = MaxLines
  BY <1>9
<1>13. k = n => Tools!Whole(lines)
  <2> SUFFICES ASSUME k = n PROVE Tools!Whole(lines)
    OBVIOUS
  <2>1. Tools!Size(lines) = SizeTo(g, n) /\ Len(lines) = n
    <3>1. n \in 0 .. n
      OBVIOUS
    <3> QED BY <1>0, <1>5, <1>6, <3>1
  <2> QED BY <1>8, <2>1 DEF Tools!Whole
<1>14. Tools!Bytes(lines[1]) > MaxBytes <=> k = 0
  <2>1. ASSUME k = 0 PROVE Tools!Bytes(lines[1]) > MaxBytes
    <3>1. k < n /\ k # MaxLines /\ k + 1 = 1
      BY <1>0, <1>4, <2>1
    <3> QED BY <1>7, <1>9, <3>1
  <2>2. ASSUME k # 0, SizeTo(g, 1) > MaxBytes PROVE FALSE
    <3>1. g[1] \in Nat /\ g[k] \in Nat /\ g[1] <= g[k]
      <4> DEFINE S == {j \in 0 .. n : j >= 1 => g[j] \in Nat /\ g[1] <= g[j]}
      <4>1. ASSUME NEW j \in 0 .. n, j < n, j \in S PROVE j + 1 \in S
        <5>1. j + 1 \in 1 .. n /\ (j + 1) - 1 = j /\ j + 1 \in 0 .. n
          BY <4>1
        <5>2. g[j + 1] = g[j] + Widths(lines)[j + 1] /\ g[j] \in Nat /\ g[j + 1] \in Nat
              /\ Widths(lines)[j + 1] \in Nat
          <6>1. Len(Widths(lines)) = n /\ Widths(lines) \in Seq(Nat)
            BY <1>0, WidthsType
          <6>2. Widths(lines)[j + 1] \in Nat
            BY <5>1, <6>1, ElementOfSeq
          <6> QED BY <1>1, <5>1, <6>1, <6>2 DEF AddsUp
        <5>3. CASE j = 0
          BY <5>1, <5>2, <5>3
        <5>4. CASE j # 0
          <6>1. j >= 1
            BY <5>4
          <6>2. g[1] <= g[j] /\ g[1] \in Nat
            <7>1. 1 \in 0 .. n
              BY <1>0
            <7>2. g[1] \in Nat
              BY <1>0, <1>1, <7>1, WidthsType DEF AddsUp
            <7> QED BY <4>1, <6>1, <7>2
          <6>3. g[1] <= g[j + 1]
            BY <5>2, <6>2
          <6> QED BY <5>1, <5>2, <6>3
        <5> QED BY <5>3, <5>4
      <4>2. 0 \in S
        OBVIOUS
      <4>3. \A j \in 0 .. n : j \in S
        <5> HIDE DEF S
        <5> QED BY <4>1, <4>2, UptoInduction
      <4>4. k \in S /\ 1 \in S
        BY <1>0, <1>8, <4>3
      <4> QED BY <2>2, <4>4
    <3>2. g[1] + 1 - 1 > MaxBytes /\ g[k] + k - 1 <= MaxBytes
      BY <1>8, <2>2 DEF SizeTo
    <3> QED BY <1>4, <2>2, <3>1, <3>2
  <2> QED BY <1>7, <2>1, <2>2
<1>15. k = 0 => ~Tools!Whole(SubSeq(lines, 1, 1))
  BY <1>0, <1>11
<1> QED BY <1>0, <1>2, <1>3, <1>5, <1>8, <1>11, <1>12, <1>13, <1>14, <1>15 DEF LoopSays

-----------------------------------------------------------------------------
(* What a read shows of the lines it selected.                             *)
HeadSays(lines, t) ==
  LET n == Len(t.content)
  IN  /\ n \in 0 .. Len(lines) /\ t.content = SubSeq(lines, 1, n)
      /\ n <= MaxLines /\ Tools!Size(t.content) <= MaxBytes
      /\ n < Len(lines) => ~Tools!Whole(SubSeq(lines, 1, n + 1))
      /\ t.by = "lines" => n = MaxLines
      /\ t.by = "none" <=> n = Len(lines)
      /\ t.tooLong <=> n = 0
      /\ ~t.partial

LEMMA LinesAreTexts ==
  ASSUME Tools!ToolsAssumption, NEW lines \in Seq(Line) PROVE lines \in Texts
<1>1. Line \subseteq Seq(Nat)
  <2>1. Seq(Nat \ {0}) \subseteq Seq(Nat)
    BY SeqMonotonic
  <2> QED BY <2>1 DEF Tools!ToolsAssumption
<1>2. Seq(Line) \subseteq Seq(Seq(Nat))
  BY <1>1, SeqMonotonic
<1> QED BY <1>2 DEF Texts

LEMMA NoLines == SubSeq(<<>>, 1, 0) = <<>> /\ Len(<<>>) = 0 /\ Tools!Size(<<>>) = 0
<1>1. <<>> \in Seq(Nat) /\ Len(<<>>) = 0
  OBVIOUS
<1>2. SubSeq(<<>>, 1, Len(<<>>)) = <<>>
  BY <1>1, WholeIsPart
<1> QED BY <1>1, <1>2 DEF Tools!Size

LEMMA HeadIs ==
  ASSUME Tools!ToolsAssumption, NEW lines \in Texts, lines # <<>>
  PROVE  HeadSays(lines, Tools!truncateHead(lines))
<1>0. PICK n \in Nat : n = Len(lines) /\ n > 0
  BY LenProperties, EmptySeq DEF Texts
<1>1. MaxLines \in Nat \ {0} /\ MaxBytes \in Nat \ {0}
  BY DEF Tools!ToolsAssumption
<1>2. PICK k, full : k = Tools!Taken(lines).n /\ full = Tools!Taken(lines).full
  OBVIOUS
<1>3. LoopSays(lines, k, full)
  BY <1>2, Looped
<1>4. k \in 0 .. n
  BY <1>0, <1>3 DEF LoopSays
<1>5. SubSeq(lines, 1, n) = lines
  BY <1>0, WholeIsPart DEF Texts
<1>6. PICK t : t = Tools!truncateHead(lines)
  OBVIOUS
<1>7. CASE Tools!Whole(lines)
  <2>1. t.content = lines /\ t.by = "none" /\ ~t.partial /\ ~t.tooLong
    BY <1>6, <1>7 DEF Tools!truncateHead, Tools!Result
  <2> QED BY <1>0, <1>5, <1>6, <1>7, <2>1 DEF HeadSays, Tools!Whole
<1>8. CASE ~Tools!Whole(lines) /\ Tools!Bytes(lines[1]) > MaxBytes
  <2>1. t = Tools!Result(<<>>, "bytes", FALSE, TRUE)
    BY <1>6, <1>8 DEF Tools!truncateHead
  <2>2. t.content = <<>> /\ t.by = "bytes" /\ ~t.partial /\ t.tooLong
    BY <2>1 DEF Tools!Result
  <2>3. Len(t.content) = 0 /\ Tools!Size(t.content) = 0
    BY <2>2, NoLines
  <2>4. SubSeq(lines, 1, 0) = <<>>
    <3>1. 1 \in 1 .. Len(lines) + 1 /\ 0 \in 1 - 1 .. Len(lines)
      BY <1>0
    <3>2. SubSeq(lines, 1, 0) \in Seq(Seq(Nat)) /\ Len(SubSeq(lines, 1, 0)) = 0 - 1 + 1
      BY <3>1, PartOfText DEF Texts
    <3> QED BY <3>2, EmptySeq
  <2>5. ~Tools!Whole(SubSeq(lines, 1, 0 + 1))
    <3>1. k = 0
      BY <1>3, <1>8 DEF LoopSays
    <3> QED BY <1>3, <3>1 DEF LoopSays
  <2> QED BY <1>0, <1>1, <1>6, <2>2, <2>3, <2>4, <2>5 DEF HeadSays
<1>9. CASE ~Tools!Whole(lines) /\ ~(Tools!Bytes(lines[1]) > MaxBytes)
  <2>1. t = Tools!Result(SubSeq(lines, 1, k), Tools!By(Tools!Taken(lines)), FALSE, FALSE)
    BY <1>2, <1>6, <1>9 DEF Tools!truncateHead
  <2>2. t.content = SubSeq(lines, 1, k) /\ t.by = (IF full THEN "bytes" ELSE "lines")
        /\ ~t.partial /\ ~t.tooLong
    BY <1>2, <2>1 DEF Tools!Result, Tools!By
  <2>3. Len(t.content) = k
    <3>1. 1 \in 1 .. Len(lines) + 1 /\ k \in 1 - 1 .. Len(lines)
      BY <1>0, <1>4
    <3>2. Len(SubSeq(lines, 1, k)) = k - 1 + 1
      BY <3>1, PartOfText DEF Texts
    <3> QED BY <1>4, <2>2, <3>2
  <2>4. k # 0 /\ k < n
    BY <1>0, <1>3, <1>4, <1>9 DEF LoopSays
  <2>5. k <= MaxLines /\ Tools!Size(SubSeq(lines, 1, k)) <= MaxBytes
        /\ ~Tools!Whole(SubSeq(lines, 1, k + 1)) /\ (~full => k = MaxLines)
    BY <1>0, <1>3, <2>4 DEF LoopSays
  <2> QED BY <1>0, <1>4, <1>6, <2>2, <2>3, <2>4, <2>5 DEF HeadSays
<1> QED BY <1>7, <1>8, <1>9

-----------------------------------------------------------------------------
(* What a command's output shows: the same loop over the lines in reverse. *)
LEMMA ReverseIs ==
  ASSUME NEW S, NEW s \in Seq(S)
  PROVE  /\ Tools!Reverse(s) \in Seq(S) /\ Len(Tools!Reverse(s)) = Len(s)
         /\ \A i \in 1 .. Len(s) : Tools!Reverse(s)[i] = s[Len(s) - i + 1]
<1>1. PICK n \in Nat : n = Len(s)
  BY LenProperties
<1>2. PICK r : r = Tools!Reverse(s)
  OBVIOUS
<1>3. r = [i \in 1 .. n |-> s[(n - i) + 1]]
  BY <1>1, <1>2 DEF Tools!Reverse
<1>4. \A i \in 1 .. n : s[(n - i) + 1] \in S
  <2>1. \A i \in 1 .. n : (n - i) + 1 \in 1 .. n
    OBVIOUS
  <2> QED BY <1>1, <2>1, ElementOfSeq
<1>5. r \in [1 .. n -> S]
  BY <1>3, <1>4
<1>6. r \in Seq(S) /\ Len(r) = n
  BY <1>5
<1> QED BY <1>1, <1>2, <1>3, <1>6

LEMMA EndIsSuffix ==
  ASSUME NEW S, NEW s \in Seq(S), NEW a \in 1 .. Len(s) + 1
  PROVE  Tools!IsSuffix(SubSeq(s, a, Len(s)), s)
<1>0. PICK n \in Nat, m \in Nat : n = Len(s) /\ m = n - a + 1 /\ m <= n
  BY LenProperties
<1>1. PICK u \in Seq(S) : u = SubSeq(s, a, n) /\ Len(u) = m
      /\ \A i \in 1 .. m : u[i] = s[a + i - 1]
  <2>1. n \in a - 1 .. Len(s)
    BY <1>0
  <2>2. /\ SubSeq(s, a, n) \in Seq(S) /\ Len(SubSeq(s, a, n)) = n - a + 1
        /\ \A i \in 1 .. n - a + 1 : SubSeq(s, a, n)[i] = s[a + i - 1]
    BY <2>1, PartOfText
  <2> QED BY <1>0, <2>2
<1>2. PICK v \in Seq(S) : v = Tools!Reverse(u) /\ Len(v) = m
      /\ \A i \in 1 .. m : v[i] = u[m - i + 1]
  <2>1. u \in Seq(S) /\ Len(u) = m
    BY <1>1
  <2>2. /\ Tools!Reverse(u) \in Seq(S) /\ Len(Tools!Reverse(u)) = Len(u)
        /\ \A i \in 1 .. Len(u) : Tools!Reverse(u)[i] = u[Len(u) - i + 1]
    BY <2>1, ReverseIs
  <2> QED BY <2>1, <2>2
<1>3. PICK r \in Seq(S) : r = Tools!Reverse(s) /\ Len(r) = n
      /\ \A i \in 1 .. n : r[i] = s[n - i + 1]
  BY <1>0, ReverseIs
<1>4. PICK q \in Seq(S) : q = SubSeq(r, 1, m) /\ Len(q) = m
      /\ \A i \in 1 .. m : q[i] = r[i]
  <2>1. 1 \in 1 .. Len(r) + 1 /\ m \in 1 - 1 .. Len(r)
    BY <1>0, <1>3
  <2>2. /\ SubSeq(r, 1, m) \in Seq(S) /\ Len(SubSeq(r, 1, m)) = m - 1 + 1
        /\ \A i \in 1 .. m - 1 + 1 : SubSeq(r, 1, m)[i] = r[1 + i - 1]
    BY <2>1, PartOfText
  <2>3. m - 1 + 1 = m /\ \A i \in 1 .. m : 1 + i - 1 = i
    OBVIOUS
  <2> QED BY <2>2, <2>3
<1>5. ASSUME NEW i \in 1 .. m PROVE q[i] = v[i]
  <2>1. PICK k \in 1 .. m : k = m - i + 1
    OBVIOUS
  <2>2. i \in 1 .. n /\ a + k - 1 = n - i + 1
    BY <1>0, <2>1
  <2>3. v[i] = u[k]
    BY <1>2, <2>1
  <2>4. u[k] = s[n - i + 1]
    BY <1>1, <2>2
  <2>5. q[i] = s[n - i + 1]
    BY <1>3, <1>4, <2>2
  <2> QED BY <2>3, <2>4, <2>5
<1>6. q = v
  BY <1>2, <1>4, <1>5, SeqEqual
<1>7. SubSeq(v, 1, Len(v)) = v
  BY <1>2, WholeIsPart
<1>8. Tools!IsPrefix(v, r)
  BY <1>0, <1>2, <1>3, <1>4, <1>6, <1>7 DEF Tools!IsPrefix
<1> QED BY <1>0, <1>1, <1>2, <1>3, <1>8 DEF Tools!IsSuffix

LEMMA SizesOfEnd ==
  ASSUME NEW lines \in Texts, NEW rev, rev = Tools!Reverse(lines), NEW j \in 0 .. Len(lines)
  PROVE  /\ Tools!Size(SubSeq(rev, 1, j)) = Tools!Size(SubSeq(lines, Len(lines) - j + 1, Len(lines)))
         /\ Len(SubSeq(rev, 1, j)) = j /\ Len(SubSeq(lines, Len(lines) - j + 1, Len(lines))) = j
<1>0. PICK n \in Nat : n = Len(lines)
  BY LenProperties DEF Texts
<1>1. rev \in Texts /\ Len(rev) = n /\ \A i \in 1 .. n : rev[i] = lines[n - i + 1]
  BY <1>0, ReverseIs DEF Texts
<1>2. PICK w \in Seq(Nat) : w = Widths(lines) /\ Len(w) = n
      /\ \A i \in 1 .. n : w[i] = Tools!Bytes(lines[i])
  BY <1>0, WidthsType
<1>3. PICK x \in Seq(Nat) : x = Widths(rev) /\ Len(x) = n
      /\ \A i \in 1 .. n : x[i] = Tools!Bytes(rev[i])
  BY <1>1, WidthsType
<1>4. PICK g : AddsUp(g, w)
  BY AddUpIsThere
<1>5. PICK h : AddsUp(h, x)
  BY AddUpIsThere
<1>6. /\ \A i \in 0 .. n : g[i] \in Nat /\ h[i] \in Nat
      /\ \A i \in 1 .. n : g[i] = g[i - 1] + w[i] /\ h[i] = h[i - 1] + x[i]
      /\ g[0] = 0 /\ h[0] = 0
  BY <1>2, <1>3, <1>4, <1>5 DEF AddsUp
<1>7. \A i \in 1 .. n : x[i] = w[n - i + 1] /\ w[i] \in Nat
  <2> TAKE i \in 1 .. n
  <2>1. n - i + 1 \in 1 .. n
    OBVIOUS
  <2>2. w[i] \in Nat
    BY <1>2, ElementOfSeq
  <2> QED BY <1>1, <1>2, <1>3, <2>1, <2>2
<1> DEFINE S == {i \in 0 .. n : h[i] = g[n] - g[n - i]}
<1>8. 0 \in S
  <2>1. n - 0 = n /\ n \in 0 .. n
    OBVIOUS
  <2>2. g[n] \in Nat
    BY <1>6, <2>1
  <2> QED BY <1>6, <2>1, <2>2
<1>9. ASSUME NEW i \in 0 .. n, i < n, i \in S PROVE i + 1 \in S
  <2>1. PICK k \in 1 .. n : k = n - i
    BY <1>9
  <2>2. h[i + 1] = h[i] + x[i + 1] /\ x[i + 1] = w[k]
    <3>1. i + 1 \in 1 .. n /\ (i + 1) - 1 = i /\ n - (i + 1) + 1 = k
      BY <1>9, <2>1
    <3> QED BY <1>6, <1>7, <3>1
  <2>3. g[k] = g[k - 1] + w[k] /\ w[k] \in Nat
    BY <1>6, <1>7
  <2>4. g[k] \in Nat /\ g[k - 1] \in Nat /\ g[n] \in Nat
    <3>1. k \in 0 .. n /\ k - 1 \in 0 .. n /\ n \in 0 .. n
      OBVIOUS
    <3> QED BY <1>6, <3>1
  <2>5. n - (i + 1) = k - 1
    BY <2>1
  <2>6. h[i] = g[n] - g[k]
    BY <1>9, <2>1
  <2>7. h[i + 1] = g[n] - g[k - 1]
    BY <2>2, <2>3, <2>4, <2>6
  <2> QED BY <1>9, <2>5, <2>7
<1>10. h[j] = g[n] - g[n - j]
  <2> HIDE DEF S
  <2>1. \A i \in 0 .. n : i \in S
    BY <1>8, <1>9, UptoInduction
  <2>2. j \in S
    BY <1>0, <2>1
  <2> QED BY <2>2 DEF S
<1>11. Tools!Size(SubSeq(rev, 1, j)) = SizeTo(h, j) /\ Len(SubSeq(rev, 1, j)) = j
  BY <1>0, <1>1, <1>3, <1>5, SizesOfTop
<1>12. PICK a \in 1 .. n + 1 : a = n - j + 1 /\ a - 1 = n - j
  <2>1. PICK k \in 0 .. n : k = j
    BY <1>0
  <2>2. n - k + 1 \in 1 .. n + 1 /\ (n - k + 1) - 1 = n - k
    OBVIOUS
  <2> QED BY <2>1, <2>2
<1>13. Tools!Size(SubSeq(lines, a, n)) = IF n = a - 1 THEN 0 ELSE g[n] - g[a - 1] + (n - a)
  <2>1. a \in 1 .. Len(lines) + 1 /\ n \in a - 1 .. Len(lines)
    BY <1>0
  <2> QED BY <1>2, <1>4, <2>1, SizeOfPart
<1>14. Len(SubSeq(lines, a, n)) = n - a + 1
  <2>1. a \in 1 .. Len(lines) + 1 /\ n \in a - 1 .. Len(lines)
    BY <1>0
  <2> QED BY <2>1, PartOfText DEF Texts
<1>15. SizeTo(h, j) = IF n = a - 1 THEN 0 ELSE g[n] - g[a - 1] + (n - a)
  <2>1. CASE j = 0
    BY <1>12, <2>1 DEF SizeTo
  <2>2. CASE j # 0
    <3>1. SizeTo(h, j) = h[j] + j - 1
      BY <2>2 DEF SizeTo
    <3>2. n # a - 1
      BY <1>0, <1>12, <2>2
    <3>3. g[n] \in Nat /\ g[a - 1] \in Nat
      <4>1. n \in 0 .. n /\ a - 1 \in 0 .. n
        OBVIOUS
      <4> QED BY <1>6, <4>1
    <3>4. h[j] = g[n] - g[a - 1] /\ n - a = j - 1
      BY <1>0, <1>10, <1>12
    <3> QED BY <1>0, <3>1, <3>2, <3>3, <3>4
  <2> QED BY <2>1, <2>2
<1> QED BY <1>0, <1>11, <1>12, <1>13, <1>14, <1>15

LEMMA LeastNumber ==
  ASSUME NEW T, T \subseteq Nat, T # {} PROVE \E i \in T : \A j \in T : i <= j
<1> SUFFICES ASSUME \A i \in T : \E j \in T : j < i PROVE FALSE
  OBVIOUS
<1> DEFINE S == {k \in Nat : \A j \in T : j > k}
<1>1. 0 \in S
  OBVIOUS
<1>2. ASSUME NEW k \in Nat, k \in S PROVE k + 1 \in S
  <2> SUFFICES ASSUME NEW j \in T, ~(j > k + 1) PROVE FALSE
    OBVIOUS
  <2>1. PICK i \in T : i < j
    OBVIOUS
  <2>2. i > k /\ i \in Nat /\ j \in Nat
    BY <1>2
  <2> QED BY <2>1, <2>2
<1>3. \A k \in Nat : k \in S
  <2> HIDE DEF S
  <2> QED BY <1>1, <1>2, NaturalInduction
<1>4. PICK i \in T : i \in Nat
  OBVIOUS
<1> QED BY <1>3, <1>4

LEMMA LineFromEnd ==
  ASSUME Tools!ToolsAssumption, NEW l \in Seq(Nat)
  PROVE  LET cut == Tools!truncateStringToBytesFromEnd(l)
         IN  cut \in Seq(Nat) /\ Tools!IsSuffix(cut, l) /\ Tools!Bytes(cut) <= MaxBytes
<1>0. PICK n \in Nat : n = Len(l)
  BY LenProperties
<1>1. \A j \in 1 .. n + 1 : SubSeq(l, j, n) \in Seq(Nat) /\ Len(SubSeq(l, j, n)) = n - j + 1
  <2> TAKE j \in 1 .. n + 1
  <2>1. j \in 1 .. Len(l) + 1 /\ n \in j - 1 .. Len(l)
    BY <1>0
  <2> QED BY <2>1, PartOfText
<1>2. MaxBytes \in Nat
  BY DEF Tools!ToolsAssumption
<1> DEFINE Fits(j) == Tools!Bytes(SubSeq(l, j, n)) <= MaxBytes
           T == {j \in Nat : j \in 1 .. n + 1 /\ Fits(j)}
<1>3. n + 1 \in T
  <2>1. n + 1 \in 1 .. n + 1
    OBVIOUS
  <2>2. SubSeq(l, n + 1, n) = <<>>
    <3>1. SubSeq(l, n + 1, n) \in Seq(Nat) /\ Len(SubSeq(l, n + 1, n)) = n - (n + 1) + 1
      BY <1>1, <2>1
    <3> QED BY <3>1, EmptySeq
  <2>3. <<>> \in Seq(Nat) /\ Len(<<>>) = 0
    OBVIOUS
  <2>4. PICK g : AddsUp(g, <<>>) /\ Tools!AddUp(<<>>) = g[Len(<<>>)]
    BY <2>3, AddUpIsThere
  <2>5. Tools!Bytes(<<>>) = 0
    BY <2>3, <2>4 DEF AddsUp, Tools!Bytes
  <2>6. Fits(n + 1)
    <3>1. Tools!Bytes(SubSeq(l, n + 1, n)) = 0
      BY <2>2, <2>5
    <3> QED BY <1>2, <3>1
  <2> QED BY <2>1, <2>6
<1>4. PICK i \in T : \A j \in T : i <= j
  <2> HIDE DEF T
  <2>1. T \subseteq Nat
    BY DEF T
  <2> QED BY <1>3, <2>1, LeastNumber
<1>5. i \in 1 .. n + 1 /\ Fits(i) /\ (i > 1 => Tools!Bytes(SubSeq(l, i - 1, n)) > MaxBytes)
  <2>1. ASSUME i > 1 PROVE Tools!Bytes(SubSeq(l, i - 1, n)) > MaxBytes
    <3>1. i - 1 \in 1 .. n + 1 /\ i - 1 < i /\ i - 1 \in Nat
      BY <1>4, <2>1
    <3>2. i - 1 \notin T
      <4> HIDE DEF T
      <4>1. i \in Nat
        BY <1>4 DEF T
      <4> QED BY <1>4, <3>1, <4>1
    <3>3. ~Fits(i - 1)
      BY <3>1, <3>2
    <3>4. Tools!Bytes(SubSeq(l, i - 1, n)) \in Nat
      BY <1>1, <3>1, BytesType
    <3> QED BY <1>2, <3>3, <3>4
  <2> QED BY <1>4, <2>1
<1>6. PICK c : c = CHOOSE j \in 1 .. n + 1 : Fits(j)
                 /\ (j > 1 => Tools!Bytes(SubSeq(l, j - 1, n)) > MaxBytes)
  OBVIOUS
<1>7. c \in 1 .. n + 1 /\ Fits(c)
  BY <1>5, <1>6
<1>8. Tools!truncateStringToBytesFromEnd(l) = SubSeq(l, c, n)
  BY <1>0, <1>6 DEF Tools!truncateStringToBytesFromEnd
<1>9. Tools!IsSuffix(SubSeq(l, c, n), l)
  BY <1>0, <1>7, EndIsSuffix
<1> QED BY <1>1, <1>7, <1>8, <1>9

(* What bash shows of its output.                                          *)
TailSays(lines, t) ==
  LET n == Len(t.content)
  IN  /\ n <= MaxLines /\ Tools!Size(t.content) <= MaxBytes
      /\ ~t.partial => Tools!IsSuffix(t.content, lines)
      /\ t.partial => /\ Tools!IsSuffix(t.content[1], Tools!Last(lines))
                      /\ Tools!Bytes(Tools!Last(lines)) > MaxBytes
      /\ n < Len(lines) /\ ~t.partial => ~Tools!Whole(SubSeq(lines, Len(lines) - n, Len(lines)))
      /\ t.by = "lines" => n = MaxLines

LEMMA OneLine == ASSUME NEW l \in Seq(Nat) PROVE Tools!Size(<<l>>) = Tools!Bytes(l)
<1>1. <<l>> \in Texts /\ Len(<<l>>) = 1 /\ <<l>>[1] = l
  BY DEF Texts
<1>2. PICK t \in Texts : t = <<l>>
  BY <1>1
<1>3. PICK w \in Seq(Nat) : w = Widths(t) /\ Len(w) = 1 /\ w[1] = Tools!Bytes(l)
  <2>1. 1 \in 1 .. Len(t)
    BY <1>1, <1>2
  <2> QED BY <1>1, <1>2, <2>1, WidthsType
<1>4. PICK g : AddsUp(g, w) /\ Tools!AddUp(w) = g[1]
  BY <1>3, AddUpIsThere
<1>5. g[1] = g[0] + w[1] /\ g[0] = 0 /\ w[1] \in Nat
  <2>1. 1 \in 1 .. Len(w) /\ 1 - 1 = 0
    BY <1>3
  <2>2. w[1] \in Nat
    BY <2>1, ElementOfSeq
  <2> QED BY <1>4, <2>1, <2>2 DEF AddsUp
<1>6. t # <<>>
  BY <1>1, <1>2
<1>7. Tools!Size(t) = Tools!AddUp(w) + 1 - 1
  BY <1>1, <1>2, <1>3, <1>6 DEF Tools!Size, Widths
<1> QED BY <1>2, <1>3, <1>4, <1>5, <1>7

LEMMA TailIs ==
  ASSUME Tools!ToolsAssumption, NEW lines \in Texts, lines # <<>>
  PROVE  TailSays(lines, Tools!truncateTail(lines))
<1>0. PICK n \in Nat : n = Len(lines) /\ n > 0
  BY LenProperties, EmptySeq DEF Texts
<1>1. MaxLines \in Nat \ {0} /\ MaxBytes \in Nat \ {0}
  BY DEF Tools!ToolsAssumption
<1>2. PICK rev \in Texts : rev = Tools!Reverse(lines) /\ Len(rev) = n
      /\ \A i \in 1 .. n : rev[i] = lines[n - i + 1]
  BY <1>0, ReverseIs DEF Texts
<1>3. rev # <<>>
  BY <1>0, <1>2
<1>4. PICK k, full : k = Tools!Taken(rev).n /\ full = Tools!Taken(rev).full
  OBVIOUS
<1>5. LoopSays(rev, k, full)
  BY <1>3, <1>4, Looped
<1>6. k \in 0 .. n /\ k <= MaxLines /\ Tools!Size(SubSeq(rev, 1, k)) <= MaxBytes
      /\ (k < n => ~Tools!Whole(SubSeq(rev, 1, k + 1))) /\ (k < n /\ ~full => k = MaxLines)
      /\ (k = n => Tools!Whole(rev)) /\ (Tools!Bytes(rev[1]) > MaxBytes <=> k = 0)
  BY <1>2, <1>5 DEF LoopSays
<1>7. \A j \in 0 .. n :
        /\ Tools!Size(SubSeq(rev, 1, j)) = Tools!Size(SubSeq(lines, n - j + 1, n))
        /\ Len(SubSeq(rev, 1, j)) = j /\ Len(SubSeq(lines, n - j + 1, n)) = j
  BY <1>0, <1>2, SizesOfEnd
<1>8. \A a \in 1 .. n + 1 : Tools!IsSuffix(SubSeq(lines, a, n), lines)
  BY <1>0, EndIsSuffix DEF Texts
<1>9. SubSeq(lines, 1, n) = lines /\ SubSeq(rev, 1, n) = rev
  <2>1. lines \in Seq(Seq(Nat)) /\ rev \in Seq(Seq(Nat))
    BY DEF Texts
  <2> QED BY <1>0, <1>2, <2>1, WholeIsPart
<1>10. PICK last \in Seq(Nat) : last = Tools!Last(lines) /\ last = rev[1]
  <2>1. n \in 1 .. n /\ 1 \in 1 .. n /\ n - 1 + 1 = n
    BY <1>0
  <2>2. lines[n] \in Seq(Nat)
    BY <1>0, <2>1, ElementOfSeq DEF Texts
  <2>3. rev[1] = lines[n]
    BY <1>2, <2>1
  <2> QED BY <1>0, <2>2, <2>3 DEF Tools!Last
<1>11. PICK t : t = Tools!truncateTail(lines)
  OBVIOUS
<1>12. CASE Tools!Whole(lines)
  <2>1. t.content = lines /\ t.by = "none" /\ ~t.partial
    BY <1>11, <1>12 DEF Tools!truncateTail, Tools!Result
  <2>2. Tools!IsSuffix(lines, lines)
    <3>1. 1 \in 1 .. n + 1
      BY <1>0
    <3> QED BY <1>8, <1>9, <3>1
  <2>3. Len(lines) <= MaxLines /\ Tools!Size(lines) <= MaxBytes /\ ~(Len(lines) < Len(lines))
    BY <1>0, <1>12 DEF Tools!Whole
  <2> QED BY <1>11, <2>1, <2>2, <2>3 DEF TailSays
<1>13. CASE ~Tools!Whole(lines) /\ k = 0
  <2>1. t = Tools!Result(<<Tools!truncateStringToBytesFromEnd(Tools!Last(lines))>>, "bytes", TRUE, FALSE)
    BY <1>2, <1>4, <1>11, <1>13 DEF Tools!truncateTail
  <2>2. PICK cut \in Seq(Nat) : cut = Tools!truncateStringToBytesFromEnd(last)
        /\ Tools!IsSuffix(cut, last) /\ Tools!Bytes(cut) <= MaxBytes
    BY LineFromEnd
  <2>3. t.content = <<cut>> /\ t.by = "bytes" /\ t.partial
    BY <1>10, <2>1, <2>2 DEF Tools!Result
  <2>4. Len(<<cut>>) = 1 /\ <<cut>>[1] = cut
    OBVIOUS
  <2>5. Tools!Size(<<cut>>) <= MaxBytes
    BY <2>2, OneLine
  <2>6. Tools!Bytes(last) > MaxBytes
    BY <1>6, <1>10, <1>13
  <2>7. 1 <= MaxLines
    BY <1>1
  <2> QED BY <1>10, <1>11, <2>2, <2>3, <2>4, <2>5, <2>6, <2>7 DEF TailSays
<1>14. CASE ~Tools!Whole(lines) /\ k # 0
  <2>1. t = Tools!Result(SubSeq(lines, n - k + 1, n), Tools!By(Tools!Taken(rev)), FALSE, FALSE)
    BY <1>0, <1>2, <1>4, <1>11, <1>14 DEF Tools!truncateTail
  <2>2. t.content = SubSeq(lines, n - k + 1, n) /\ t.by = (IF full THEN "bytes" ELSE "lines")
        /\ ~t.partial
    BY <1>4, <2>1 DEF Tools!Result, Tools!By
  <2>3. Len(t.content) = k /\ Tools!Size(t.content) <= MaxBytes
    BY <1>6, <1>7, <2>2
  <2>4. k < n
    <3> SUFFICES ASSUME k = n PROVE FALSE
      BY <1>0, <1>6
    <3>1. Tools!Size(lines) = Tools!Size(rev)
      <4>1. n \in 0 .. n /\ n - n + 1 = 1
        BY <1>0
      <4> QED BY <1>7, <1>9, <4>1
    <3>2. Tools!Whole(lines)
      BY <1>0, <1>2, <1>6, <3>1 DEF Tools!Whole
    <3> QED BY <1>14, <3>2
  <2>5. ~Tools!Whole(SubSeq(lines, n - k, n))
    <3>1. PICK j \in 0 .. n : j = k + 1 /\ n - j + 1 = n - k
      BY <1>6, <2>4
    <3>2. ~Tools!Whole(SubSeq(rev, 1, j))
      BY <1>6, <2>4, <3>1
    <3>3. Tools!Size(SubSeq(rev, 1, j)) = Tools!Size(SubSeq(lines, n - k, n))
          /\ Len(SubSeq(rev, 1, j)) = j /\ Len(SubSeq(lines, n - k, n)) = j
      BY <1>7, <3>1
    <3> QED BY <3>2, <3>3 DEF Tools!Whole
  <2>6. Tools!IsSuffix(SubSeq(lines, n - k + 1, n), lines)
    <3>1. n - k + 1 \in 1 .. n + 1
      BY <1>6
    <3> QED BY <1>8, <3>1
  <2> QED BY <1>0, <1>6, <1>11, <2>2, <2>3, <2>4, <2>5, <2>6 DEF TailSays
<1> QED BY <1>12, <1>13, <1>14

-----------------------------------------------------------------------------
(* The reading: what keeps it from losing a line is that the offset names  *)
(* the line after those the agent has, and that the line is there.         *)
LinesCounted(c) ==
  /\ c.at = "counted" /\ c.start \in 1 .. c.total /\ c.total \in 1 .. MaxFile
  /\ c.limit \in ReadLimits \union {NoLimit}

ToolInv ==
  /\ text \in Seq(Line) /\ Len(text) \in 1 .. MaxFile
  /\ got \in Seq(Line)
  /\ offset \in 1 .. MaxFile /\ fails \in 0 .. MaxFail
  /\ reading \in {"on", "end", "long"}
  /\ reading = "on" => offset = Len(got) + 1 /\ offset <= Len(text)
  /\ call = Tools!Idle \/ (/\ LinesCounted(call) /\ reading = "on"
                           /\ call.start = offset /\ call.total <= Len(text))
  /\ shown.tool \in {"none", "read", "bash"}
  /\ Tools!NoLineLost
  /\ Tools!AsMuchAsFits

LEMMA TextIs ==
  ASSUME NEW n \in Nat, NEW lines
  PROVE  lines \in Tools!Text(n) <=> lines \in Seq(Line) /\ Len(lines) \in 1 .. n
<1>1. ASSUME lines \in Tools!Text(n) PROVE lines \in Seq(Line) /\ Len(lines) \in 1 .. n
  <2>1. PICK k \in 1 .. n : lines \in [1 .. k -> Line]
    BY <1>1 DEF Tools!Text
  <2> QED BY <2>1
<1>2. ASSUME lines \in Seq(Line), Len(lines) \in 1 .. n PROVE lines \in Tools!Text(n)
  <2>1. lines \in [1 .. Len(lines) -> Line]
    BY <1>2, LenProperties
  <2> QED BY <1>2, <2>1 DEF Tools!Text
<1> QED BY <1>1, <1>2

LEMMA ToolInvTypes ==
  ASSUME Tools!ToolsAssumption, ToolInv PROVE Tools!TypeOK /\ Tools!OffsetExists
<1>1. text \in Tools!Text(MaxFile)
  BY TextIs DEF ToolInv, Tools!ToolsAssumption
<1>2. Len(got) <= MaxFile
  <2>1. Len(got) \in Nat /\ Len(text) \in Nat /\ MaxFile \in Nat
    BY LenProperties DEF ToolInv, Tools!ToolsAssumption
  <2>2. Len(got) <= Len(text) /\ Len(text) <= MaxFile
    BY DEF ToolInv, Tools!NoLineLost
  <2> QED BY <2>1, <2>2
<1>3. call = Tools!Idle \/ LinesCounted(call)
  BY DEF ToolInv
<1>4. reading # "beyond"
  BY DEF ToolInv
<1> QED BY <1>1, <1>2, <1>3, <1>4 DEF ToolInv, Tools!TypeOK, LinesCounted, Tools!OffsetExists

LEMMA ToolsBegin ==
  ASSUME Tools!ToolsAssumption, Tools!Init PROVE ToolInv
<1>1. MaxFile \in Nat \ {0} /\ MaxFail \in Nat
  BY DEF Tools!ToolsAssumption
<1>2. text \in Seq(Line) /\ Len(text) \in 1 .. MaxFile
  BY <1>1, TextIs DEF Tools!Init
<1>3. got \in Seq(Line) /\ Len(got) = 0
  BY DEF Tools!Init
<1>4. offset = 1 /\ reading = "on" /\ call = Tools!Idle /\ fails = 0 /\ shown.tool = "none"
  BY DEF Tools!Init
<1>5. Tools!NoLineLost
  BY <1>2, <1>3 DEF Tools!NoLineLost
<1>6. Tools!AsMuchAsFits
  BY <1>4 DEF Tools!AsMuchAsFits
<1> QED BY <1>1, <1>2, <1>3, <1>4, <1>5, <1>6 DEF ToolInv

LEMMA NotIdle == ASSUME NEW c, c.at = "counted" PROVE c # Tools!Idle
<1>1. Tools!Idle.at = "idle"
  BY DEF Tools!Idle
<1> QED BY <1>1

LEMMA CountKeeps ==
  ASSUME Tools!ToolsAssumption, ToolInv, Tools!Count
  PROVE  ToolInv' /\ Tools!EndIsReached /\ Tools!Advances
<1>1. call = Tools!Idle /\ reading = "on" /\ UNCHANGED <<text, offset, got, shown, fails>>
  BY DEF Tools!Count
<1>2. ~(offset > Len(text)) /\ offset \in 1 .. Len(text) /\ Len(text) \in 1 .. MaxFile
  BY <1>1 DEF ToolInv
<1>3. ~(offset > Tools!Total(text))
  BY <1>2 DEF Tools!Total
<1>4. /\ \E limit \in ReadLimits \union {NoLimit} :
           call' = [at |-> "counted", start |-> offset, limit |-> limit, total |-> Tools!Total(text)]
      /\ reading' = reading
  BY <1>3 DEF Tools!Count
<1>5. LinesCounted(call') /\ call'.start = offset' /\ call'.total <= Len(text')
  BY <1>1, <1>2, <1>4 DEF LinesCounted, Tools!Total
<1>6. Tools!NoLineLost' /\ Tools!AsMuchAsFits'
  BY <1>1, <1>4 DEF ToolInv, Tools!NoLineLost, Tools!AsMuchAsFits
<1>7. ToolInv'
  BY <1>1, <1>4, <1>5, <1>6 DEF ToolInv
<1> QED BY <1>1, <1>7 DEF Tools!EndIsReached, Tools!Advances

LEMMA FailKeeps ==
  ASSUME Tools!ToolsAssumption, ToolInv, Tools!Fail
  PROVE  ToolInv' /\ Tools!EndIsReached /\ Tools!Advances
<1>1. call.at = "counted" /\ fails < MaxFail /\ fails' = fails + 1 /\ call' = Tools!Idle
      /\ UNCHANGED <<text, offset, got, reading, shown>>
  BY DEF Tools!Fail
<1>2. reading = "on"
  BY <1>1, NotIdle DEF ToolInv
<1>3. Tools!NoLineLost' /\ Tools!AsMuchAsFits'
  BY <1>1 DEF ToolInv, Tools!NoLineLost, Tools!AsMuchAsFits
<1>4. fails' \in 0 .. MaxFail /\ fails' # fails
  BY <1>1 DEF ToolInv, Tools!ToolsAssumption
<1>5. ToolInv'
  BY <1>1, <1>3, <1>4 DEF ToolInv
<1> QED BY <1>1, <1>2, <1>4, <1>5 DEF Tools!EndIsReached, Tools!Advances

LEMMA BashKeeps ==
  ASSUME Tools!ToolsAssumption, ToolInv, Tools!Bash
  PROVE  ToolInv' /\ Tools!EndIsReached /\ Tools!Advances
<1>1. call = Tools!Idle /\ UNCHANGED <<text, call, offset, got, reading, fails>>
  BY DEF Tools!Bash
<1>2. PICK err \in Tools!Text(1) \union {text} :
        shown' = [tool |-> "bash", lines |-> Tools!Joined(text, err),
                  result |-> Tools!truncateTail(Tools!Joined(text, err))]
  BY DEF Tools!Bash
<1>3. text \in Seq(Line) /\ Len(text) \in Nat \ {0}
  BY DEF ToolInv, Tools!ToolsAssumption
<1>4. err \in Seq(Line) /\ Len(err) \in Nat \ {0}
  <2>1. CASE err \in Tools!Text(1)
    BY <2>1, TextIs
  <2> QED BY <1>2, <1>3, <2>1
<1>5. PICK output : output = Tools!Joined(text, err)
  OBVIOUS
<1>6. output \in Seq(Line) /\ Len(output) # 0
  <2>1. CASE output = err \/ output = text
    BY <1>3, <1>4, <2>1
  <2>2. CASE output = text \o err
    <3>1. text \o err \in Seq(Line) /\ Len(text \o err) = Len(text) + Len(err)
      BY <1>3, <1>4, ConcatProperties
    <3> QED BY <1>3, <1>4, <2>2, <3>1
  <2> QED BY <1>5, <2>1, <2>2 DEF Tools!Joined
<1>7. output \in Texts /\ output # <<>>
  BY <1>6, LinesAreTexts
<1>8. PICK t : t = Tools!truncateTail(output) /\ TailSays(output, t)
  BY <1>7, TailIs
<1>9. shown'.tool = "bash" /\ shown'.lines = output /\ shown'.result = t
  BY <1>2, <1>5, <1>8
<1>10. Tools!AsMuchAsFits'
  BY <1>8, <1>9 DEF TailSays, Tools!AsMuchAsFits
<1>11. Tools!NoLineLost'
  BY <1>1 DEF ToolInv, Tools!NoLineLost
<1>12. ToolInv'
  BY <1>1, <1>9, <1>10, <1>11 DEF ToolInv
<1> QED BY <1>1, <1>12 DEF Tools!EndIsReached, Tools!Advances

LEMMA PrefixGrows ==
  ASSUME NEW S, NEW a \in Seq(S), NEW b \in Seq(S), NEW c \in Seq(S), Tools!IsPrefix(a, b)
  PROVE  Tools!IsPrefix(a, b \o c)
<1>0. PICK m \in Nat, n \in Nat : m = Len(a) /\ n = Len(b) /\ m <= n
  BY LenProperties DEF Tools!IsPrefix
<1>1. PICK d \in Seq(S) : d = b \o c /\ Len(d) >= n /\ \A i \in 1 .. n : d[i] = b[i]
  <2>1. b \o c \in Seq(S) /\ Len(b \o c) = Len(b) + Len(c) /\ Len(c) \in Nat
        /\ \A i \in 1 .. Len(b) + Len(c) : (b \o c)[i] = IF i <= Len(b) THEN b[i] ELSE c[i - Len(b)]
    BY ConcatProperties, LenProperties
  <2>2. PICK k \in Nat : k = Len(c)
    BY <2>1
  <2>3. Len(b \o c) = n + k
    BY <1>0, <2>1, <2>2
  <2>4. ASSUME NEW i \in 1 .. n PROVE (b \o c)[i] = b[i]
    <3>1. i \in 1 .. Len(b) + Len(c) /\ i <= Len(b)
      BY <1>0, <2>2
    <3> QED BY <2>1, <3>1
  <2>5. n + k >= n
    OBVIOUS
  <2> QED BY <2>1, <2>3, <2>4, <2>5
<1>2. PICK u \in Seq(S) : u = SubSeq(b, 1, m) /\ Len(u) = m /\ \A i \in 1 .. m : u[i] = b[i]
  <2>1. 1 \in 1 .. Len(b) + 1 /\ m \in 1 - 1 .. Len(b)
    BY <1>0
  <2>2. /\ SubSeq(b, 1, m) \in Seq(S) /\ Len(SubSeq(b, 1, m)) = m - 1 + 1
        /\ \A i \in 1 .. m - 1 + 1 : SubSeq(b, 1, m)[i] = b[1 + i - 1]
    BY <2>1, PartOfText
  <2>3. m - 1 + 1 = m /\ \A i \in 1 .. m : 1 + i - 1 = i
    OBVIOUS
  <2> QED BY <2>2, <2>3
<1>3. PICK v \in Seq(S) : v = SubSeq(d, 1, m) /\ Len(v) = m /\ \A i \in 1 .. m : v[i] = d[i]
  <2>1. 1 \in 1 .. Len(d) + 1 /\ m \in 1 - 1 .. Len(d)
    BY <1>0, <1>1
  <2>2. /\ SubSeq(d, 1, m) \in Seq(S) /\ Len(SubSeq(d, 1, m)) = m - 1 + 1
        /\ \A i \in 1 .. m - 1 + 1 : SubSeq(d, 1, m)[i] = d[1 + i - 1]
    BY <2>1, PartOfText
  <2>3. m - 1 + 1 = m /\ \A i \in 1 .. m : 1 + i - 1 = i
    OBVIOUS
  <2> QED BY <2>2, <2>3
<1>4. u = v
  <2>1. \A i \in 1 .. m : u[i] = v[i]
    BY <1>0, <1>1, <1>2, <1>3
  <2> QED BY <1>2, <1>3, <2>1, SeqEqual
<1>5. m <= Len(d)
  <2>1. Len(d) \in Nat
    BY LenProperties
  <2> QED BY <1>0, <1>1, <2>1
<1>6. SubSeq(a, 1, Len(a)) = SubSeq(b, 1, Len(a))
  BY DEF Tools!IsPrefix
<1> QED BY <1>0, <1>1, <1>2, <1>3, <1>4, <1>5, <1>6 DEF Tools!IsPrefix

LEMMA IsOwnPrefix ==
  ASSUME NEW S, NEW a \in Seq(S) PROVE Tools!IsPrefix(a, a)
<1>1. Len(a) \in Nat
  BY LenProperties
<1> QED BY <1>1 DEF Tools!IsPrefix

LEMMA TopOfLines ==
  ASSUME NEW S, NEW s \in Seq(S), NEW k \in 0 .. Len(s)
  PROVE  /\ SubSeq(s, 1, k) \in Seq(S) /\ Len(SubSeq(s, 1, k)) = k
         /\ \A i \in 1 .. k : SubSeq(s, 1, k)[i] = s[i]
<1>1. 1 \in 1 .. Len(s) + 1 /\ k \in 1 - 1 .. Len(s) /\ k \in Nat
  BY LenProperties
<1>2. /\ SubSeq(s, 1, k) \in Seq(S) /\ Len(SubSeq(s, 1, k)) = k - 1 + 1
      /\ \A i \in 1 .. k - 1 + 1 : SubSeq(s, 1, k)[i] = s[1 + i - 1]
  BY <1>1, PartOfText
<1>3. k - 1 + 1 = k /\ \A i \in 1 .. k : 1 + i - 1 = i
  BY <1>1
<1> QED BY <1>2, <1>3

LEMMA PrefixsPrefix ==
  ASSUME NEW S, NEW a \in Seq(S), NEW b \in Seq(S), NEW c \in Seq(S),
         Tools!IsPrefix(a, b), Tools!IsPrefix(b, c)
  PROVE  Tools!IsPrefix(a, c)
<1>0. PICK l \in Nat, m \in Nat, n \in Nat : l = Len(a) /\ m = Len(b) /\ n = Len(c) /\ l <= m /\ m <= n
  BY LenProperties DEF Tools!IsPrefix
<1>1. a = SubSeq(b, 1, l) /\ b = SubSeq(c, 1, m)
  <2>1. SubSeq(a, 1, l) = a /\ SubSeq(b, 1, m) = b
    BY <1>0, WholeIsPart
  <2> QED BY <1>0, <2>1 DEF Tools!IsPrefix
<1>2. PICK v \in Seq(S) : v = SubSeq(c, 1, l) /\ Len(v) = l /\ \A i \in 1 .. l : v[i] = c[i]
  <2>1. l \in 0 .. Len(c)
    BY <1>0
  <2>2. /\ SubSeq(c, 1, l) \in Seq(S) /\ Len(SubSeq(c, 1, l)) = l
        /\ \A i \in 1 .. l : SubSeq(c, 1, l)[i] = c[i]
    BY <2>1, TopOfLines
  <2> QED BY <2>2
<1>3. Len(a) = l /\ \A i \in 1 .. l : a[i] = b[i]
  BY <1>0, <1>1, TopOfLines
<1>4. \A i \in 1 .. m : b[i] = c[i]
  BY <1>0, <1>1, TopOfLines
<1>5. a = v
  <2>1. \A i \in 1 .. l : a[i] = v[i]
    BY <1>0, <1>2, <1>3, <1>4
  <2> QED BY <1>2, <1>3, <2>1, SeqEqual
<1>6. SubSeq(a, 1, l) = a /\ l <= n
  BY <1>0, WholeIsPart
<1> QED BY <1>0, <1>2, <1>5, <1>6 DEF Tools!IsPrefix

(* Only the text's last line changes, which the agent does not have while  *)
(* it reads on.                                                            *)
LEMMA GrowsAtEnd ==
  ASSUME Tools!ToolsAssumption, ToolInv, Tools!Grow
  PROVE  /\ text' \in Seq(Line) /\ Len(text') \in Len(text) .. MaxFile
         /\ \A i \in 1 .. Len(text) : i < Len(text) => text'[i] = text[i]
         /\ Tools!IsPrefix(text[Len(text)], text'[Len(text)])
<1>0. PICK n \in Nat : n = Len(text) /\ n \in 1 .. MaxFile /\ text \in Seq(Line)
  BY DEF ToolInv
<1>1. MaxFile \in Nat /\ <<>> \in Line
  BY DEF Tools!ToolsAssumption
<1>2. text \in [1 .. n -> Line] /\ text[n] \in Line
  BY <1>0, LenProperties
<1>3. Line \subseteq Seq(Nat)
  <2>1. Seq(Nat \ {0}) \subseteq Seq(Nat)
    BY SeqMonotonic
  <2> QED BY <2>1 DEF Tools!ToolsAssumption
<1>4. CASE \E more \in Line \ {<<>>} :
             /\ Tools!Last(text) \o more \in Line
             /\ text' = [text EXCEPT ![Len(text)] = @ \o more]
  <2>1. PICK more \in Line : text[n] \o more \in Line /\ text' = [text EXCEPT ![n] = text[n] \o more]
    BY <1>0, <1>4 DEF Tools!Last
  <2>2. text' \in [1 .. n -> Line] /\ text'[n] = text[n] \o more
        /\ \A i \in 1 .. n : i # n => text'[i] = text[i]
    BY <1>0, <1>2, <2>1
  <2>3. Tools!IsPrefix(text[n], text[n] \o more)
    <3>1. text[n] \in Seq(Nat) /\ more \in Seq(Nat)
      BY <1>2, <1>3, <2>1
    <3>2. Tools!IsPrefix(text[n], text[n])
      BY <3>1, IsOwnPrefix
    <3> QED BY <3>1, <3>2, PrefixGrows
  <2>4. text' \in Seq(Line) /\ Len(text') = n
    BY <2>2
  <2> QED BY <1>0, <2>2, <2>3, <2>4
<1>5. CASE Len(text) < MaxFile /\ text' = Append(text, <<>>)
  <2>1. /\ Append(text, <<>>) \in Seq(Line) /\ Len(Append(text, <<>>)) = Len(text) + 1
        /\ \A i \in 1 .. Len(text) : Append(text, <<>>)[i] = text[i]
    BY <1>0, <1>1, AppendProperties
  <2>2. text'[n] = text[n]
    BY <1>0, <1>5, <2>1
  <2>3. Tools!IsPrefix(text[n], text[n])
    <3>1. text[n] \in Seq(Nat)
      BY <1>2, <1>3
    <3> QED BY <3>1, IsOwnPrefix
  <2>4. Len(text') \in Len(text) .. MaxFile
    BY <1>0, <1>1, <1>5, <2>1
  <2> QED BY <1>0, <1>5, <2>1, <2>2, <2>3, <2>4
<1> QED BY <1>4, <1>5 DEF Tools!Grow

LEMMA GrowKeeps ==
  ASSUME Tools!ToolsAssumption, ToolInv, Tools!Grow
  PROVE  ToolInv' /\ Tools!EndIsReached /\ Tools!Advances
<1>1. UNCHANGED <<call, offset, got, reading, shown, fails>>
  BY DEF Tools!Grow
<1>2. PICK n \in Nat, m \in Nat, k \in Nat : n = Len(text) /\ m = Len(text') /\ k = Len(got)
  <2>1. text \in Seq(Line) /\ text' \in Seq(Line) /\ got \in Seq(Line)
    BY GrowsAtEnd DEF ToolInv
  <2> QED BY <2>1, LenProperties
<1>3. /\ text' \in Seq(Line) /\ m >= n /\ m <= MaxFile
      /\ \A i \in 1 .. n : i < n => text'[i] = text[i]
      /\ Tools!IsPrefix(text[n], text'[n])
  <2>1. MaxFile \in Nat
    BY DEF Tools!ToolsAssumption
  <2> QED BY <1>2, <2>1, GrowsAtEnd
<1>5. m \in 1 .. MaxFile
  <2>1. n \in 1 .. MaxFile /\ MaxFile \in Nat
    BY <1>2 DEF ToolInv, Tools!ToolsAssumption
  <2> QED BY <1>3, <2>1
<1>6. Tools!AsMuchAsFits'
  BY <1>1 DEF ToolInv, Tools!AsMuchAsFits
<1>7. k <= n /\ \A i \in 1 .. k :
        text[i] = got[i] \/ (i = k /\ reading # "on" /\ Tools!IsPrefix(got[i], text[i]))
  BY <1>2 DEF ToolInv, Tools!NoLineLost
<1>8. ASSUME NEW i \in 1 .. k
      PROVE  text'[i] = got[i] \/ (i = k /\ reading # "on" /\ Tools!IsPrefix(got[i], text'[i]))
  <2>1. CASE i < n
    <3>1. text'[i] = text[i]
      BY <1>3, <1>7, <2>1
    <3> QED BY <1>7, <3>1
  <2>2. CASE i = n
    <3>1. i = k /\ reading # "on"
      <4>1. k = n
        BY <1>7, <2>2
      <4>2. reading = "on" => k + 1 <= n
        BY <1>2 DEF ToolInv
      <4> QED BY <2>2, <4>1, <4>2
    <3>2. text[n] \in Seq(Nat) /\ text'[n] \in Seq(Nat) /\ got[i] \in Seq(Nat)
      <4>1. text \in Texts /\ text' \in Texts /\ got \in Texts
        BY <1>3, LinesAreTexts DEF ToolInv
      <4>2. n \in 1 .. n /\ n \in 1 .. m /\ i \in 1 .. k
        BY <1>3, <2>2, <1>7
      <4> QED BY <1>2, <4>1, <4>2, ElementOfSeq DEF Texts
    <3>3. Tools!IsPrefix(got[i], text[n])
      <4>1. Tools!IsPrefix(text[n], text[n])
        BY <3>2, IsOwnPrefix
      <4> QED BY <1>7, <2>2, <4>1
    <3>4. Tools!IsPrefix(got[i], text'[n])
      BY <1>3, <3>2, <3>3, PrefixsPrefix
    <3> QED BY <2>2, <3>1, <3>4
  <2>3. i < n \/ i = n
    BY <1>7
  <2> QED BY <2>1, <2>2, <2>3
<1>9. Tools!NoLineLost'
  <2>1. k <= m
    BY <1>3, <1>7
  <2> QED BY <1>1, <1>2, <1>8, <2>1 DEF Tools!NoLineLost
<1>10. reading = "on" => offset <= m
  <2>1. reading = "on" => offset <= n /\ offset \in Nat
    BY <1>2 DEF ToolInv
  <2> QED BY <1>3, <2>1
<1>11. call = Tools!Idle \/ (/\ LinesCounted(call) /\ reading = "on"
                             /\ call.start = offset /\ call.total <= m)
  <2>1. call = Tools!Idle \/ (/\ LinesCounted(call) /\ reading = "on"
                              /\ call.start = offset /\ call.total <= n)
    BY <1>2 DEF ToolInv
  <2>2. ASSUME LinesCounted(call), call.total <= n PROVE call.total <= m
    <3>1. call.total \in Nat
      BY <2>2 DEF LinesCounted
    <3> QED BY <1>3, <2>2, <3>1
  <2> QED BY <2>1, <2>2
<1>12. ToolInv'
  <2>1. /\ got \in Seq(Line) /\ offset \in 1 .. MaxFile /\ fails \in 0 .. MaxFail
        /\ reading \in {"on", "end", "long"} /\ (reading = "on" => offset = Len(got) + 1)
        /\ shown.tool \in {"none", "read", "bash"}
    BY DEF ToolInv
  <2> QED BY <1>1, <1>2, <1>3, <1>5, <1>6, <1>9, <1>10, <1>11, <2>1 DEF ToolInv, LinesCounted
<1>13. Tools!EndIsReached
  <2>1. ASSUME call # Tools!Idle, reading' = "end" PROVE FALSE
    BY <1>1, <2>1 DEF ToolInv
  <2> QED BY <2>1 DEF Tools!EndIsReached
<1>14. Tools!Advances
  BY <1>1 DEF Tools!Advances
<1> QED BY <1>12, <1>13, <1>14

(* A call that goes from the offset shows some of the lines from there.    *)
LEMMA FromText ==
  ASSUME Tools!ToolsAssumption, ToolInv, call.at = "counted", NEW limited,
         limited = (call.limit # NoLimit /\ call.limit < Len(Tools!From(call.start))),
         NEW selected, selected = IF limited THEN SubSeq(Tools!From(call.start), 1, call.limit)
                                  ELSE Tools!From(call.start)
  PROVE  /\ selected \in Seq(Line) /\ Len(selected) \in 1 .. Len(text) - call.start + 1
         /\ \A i \in 1 .. Len(selected) : selected[i] = text[call.start + i - 1]
         /\ call.limit = NoLimit => Len(selected) = Len(text) - call.start + 1
         /\ ~limited => Len(selected) = Len(text) - call.start + 1
<1>1. LinesCounted(call) /\ call.total <= Len(text)
  BY NotIdle DEF ToolInv
<1>2. PICK n \in Nat, start \in Nat, total \in Nat :
        n = Len(text) /\ start = call.start /\ total = call.total
  BY <1>1, LenProperties DEF ToolInv, LinesCounted
<1>3. start \in 1 .. total /\ total <= n
  BY <1>1, <1>2 DEF LinesCounted
<1>4. PICK all \in Seq(Line) : all = Tools!From(start) /\ Len(all) = n - start + 1
      /\ \A i \in 1 .. n - start + 1 : all[i] = text[start + i - 1]
  <2>1. ~(start > Len(text)) /\ start \in 1 .. Len(text) + 1 /\ n \in start - 1 .. Len(text)
    BY <1>2, <1>3
  <2>2. Tools!From(start) = SubSeq(text, start, n)
    BY <1>2, <2>1 DEF Tools!From
  <2>3. text \in Seq(Line)
    BY DEF ToolInv
  <2>4. /\ SubSeq(text, start, n) \in Seq(Line) /\ Len(SubSeq(text, start, n)) = n - start + 1
        /\ \A i \in 1 .. n - start + 1 : SubSeq(text, start, n)[i] = text[start + i - 1]
    BY <2>1, <2>3, PartOfText
  <2> QED BY <2>2, <2>4
<1>5. CASE ~limited
  <2>1. selected = all
    BY <1>2, <1>4, <1>5
  <2>2. n - start + 1 \in 1 .. n - start + 1
    BY <1>3
  <2> QED BY <1>2, <1>4, <1>5, <2>1, <2>2
<1>6. CASE limited
  <2>1. call.limit # NoLimit /\ call.limit < Len(all)
    BY <1>2, <1>4, <1>6
  <2>2. PICK k \in Nat : k = call.limit /\ k # 0
    BY <1>1, <2>1 DEF LinesCounted, Tools!ToolsAssumption
  <2>3. k \in 0 .. Len(all) /\ k \in 1 .. n - start + 1
    BY <1>4, <2>1, <2>2
  <2>4. selected = SubSeq(all, 1, k)
    BY <1>2, <1>4, <1>6, <2>2
  <2>5. selected \in Seq(Line) /\ Len(selected) = k /\ \A i \in 1 .. k : selected[i] = all[i]
    BY <2>3, <2>4, TopOfLines
  <2>6. \A i \in 1 .. k : selected[i] = text[start + i - 1]
    <3>1. \A i \in 1 .. k : i \in 1 .. n - start + 1
      BY <2>3
    <3> QED BY <1>4, <2>5, <3>1
  <2> QED BY <1>2, <1>6, <2>1, <2>3, <2>5, <2>6
<1> QED BY <1>5, <1>6

(* The lines shown go on where those the agent has end.                    *)
LEMMA GotMore ==
  ASSUME Tools!ToolsAssumption, ToolInv, reading = "on", NEW more \in Seq(Line),
         NEW k \in Nat, k = Len(more), NEW n \in Nat, n = Len(text), offset + k <= n + 1,
         \A i \in 1 .. k : more[i] = text[offset + i - 1]
  PROVE  /\ got \o more \in Seq(Line) /\ Len(got \o more) = offset - 1 + k
         /\ \A i \in 1 .. offset - 1 + k : (got \o more)[i] = text[i]
<1>1. PICK m \in Nat : m = Len(got) /\ offset = m + 1 /\ got \in Seq(Line)
  BY LenProperties DEF ToolInv
<1>2. \A i \in 1 .. m : got[i] = text[i]
  BY <1>1 DEF ToolInv, Tools!NoLineLost
<1>3. /\ got \o more \in Seq(Line) /\ Len(got \o more) = m + k
      /\ \A i \in 1 .. m + k : (got \o more)[i] = IF i <= m THEN got[i] ELSE more[i - m]
  BY <1>1, ConcatProperties
<1>4. ASSUME NEW i \in 1 .. m + k PROVE (got \o more)[i] = text[i]
  <2>1. CASE i <= m
    <3>1. i \in 1 .. m
      BY <2>1
    <3> QED BY <1>2, <1>3, <2>1, <3>1
  <2>2. CASE ~(i <= m)
    <3>1. PICK j \in 1 .. k : j = i - m
      BY <2>2
    <3>2. (got \o more)[i] = more[j]
      BY <1>3, <2>2, <3>1
    <3>3. offset + j - 1 = i
      BY <1>1, <3>1
    <3> QED BY <3>1, <3>2, <3>3
  <2> QED BY <2>1, <2>2
<1>5. offset - 1 + k = m + k
  BY <1>1
<1> QED BY <1>3, <1>4, <1>5

LEMMA ShowKeeps ==
  ASSUME Tools!ToolsAssumption, ToolInv, Tools!Show
  PROVE  ToolInv' /\ Tools!EndIsReached /\ Tools!Advances
<1>1. call.at = "counted" /\ call' = Tools!Idle /\ UNCHANGED <<text, fails>>
  BY DEF Tools!Show
<1>2. reading = "on" /\ LinesCounted(call) /\ call.start = offset /\ call.total <= Len(text)
  BY <1>1, NotIdle DEF ToolInv
<1>3. PICK limited : limited = (call.limit # NoLimit /\ call.limit < Len(Tools!From(call.start)))
  OBVIOUS
<1>4. PICK selected : selected = IF limited THEN SubSeq(Tools!From(call.start), 1, call.limit)
                                 ELSE Tools!From(call.start)
  OBVIOUS
<1>5. PICK t : t = Tools!truncateHead(selected)
  OBVIOUS
<1>6. PICK goesOn : goesOn = (t.by # "none"
                              \/ (call.limit # NoLimit /\ Tools!Remain(call, Len(selected))))
  OBVIOUS
<1>7. /\ shown' = [tool |-> "read", lines |-> selected, result |-> t]
      /\ got' = got \o t.content
      /\ reading' = Tools!Outcome(t, goesOn)
      /\ offset' = IF reading' = "on" THEN Tools!NextOffset(call.start, Len(t.content)) ELSE offset
  BY <1>3, <1>4, <1>5, <1>6 DEF Tools!Show
<1>8. PICK n \in Nat, start \in Nat, total \in Nat :
        n = Len(text) /\ start = offset /\ start = call.start /\ total = call.total
        /\ start \in 1 .. total /\ total <= n /\ n \in 1 .. MaxFile
  BY <1>2, LenProperties DEF ToolInv, LinesCounted
<1>9. PICK m \in Nat : m = Len(selected) /\ m \in 1 .. n - start + 1 /\ selected \in Seq(Line)
        /\ (\A i \in 1 .. m : selected[i] = text[start + i - 1])
        /\ (call.limit = NoLimit => m = n - start + 1)
  <2>1. /\ selected \in Seq(Line) /\ Len(selected) \in 1 .. Len(text) - call.start + 1
        /\ \A i \in 1 .. Len(selected) : selected[i] = text[call.start + i - 1]
        /\ call.limit = NoLimit => Len(selected) = Len(text) - call.start + 1
    BY <1>1, <1>3, <1>4, FromText
  <2>2. Len(selected) \in Nat
    BY <2>1, LenProperties
  <2> QED BY <1>8, <2>1, <2>2
<1>10. HeadSays(selected, t)
  <2>1. selected \in Texts /\ selected # <<>>
    BY <1>9, LinesAreTexts
  <2> QED BY <1>5, <2>1, HeadIs
<1>11. PICK k \in Nat : k = Len(t.content) /\ k <= m /\ t.content = SubSeq(selected, 1, k)
        /\ (t.by = "none" <=> k = m) /\ (t.tooLong <=> k = 0)
  BY <1>9, <1>10 DEF HeadSays
<1>12. t.content \in Seq(Line) /\ \A i \in 1 .. k : t.content[i] = text[start + i - 1]
  <2>1. k \in 0 .. Len(selected)
    BY <1>9, <1>11
  <2>2. t.content \in Seq(Line) /\ \A i \in 1 .. k : t.content[i] = selected[i]
    BY <1>9, <1>11, <2>1, TopOfLines
  <2>3. \A i \in 1 .. k : i \in 1 .. m
    BY <1>11
  <2> QED BY <1>9, <2>2, <2>3
<1>13. got' \in Seq(Line) /\ Len(got') = start - 1 + k /\ \A i \in 1 .. start - 1 + k : got'[i] = text[i]
  <2>1. offset + k <= n + 1
    BY <1>8, <1>9, <1>11
  <2>2. k = Len(t.content) /\ \A i \in 1 .. k : t.content[i] = text[offset + i - 1]
    BY <1>8, <1>11, <1>12
  <2>3. PICK more \in Seq(Line) : more = t.content
    BY <1>12
  <2>4. /\ got \o more \in Seq(Line) /\ Len(got \o more) = offset - 1 + k
        /\ \A i \in 1 .. offset - 1 + k : (got \o more)[i] = text[i]
    BY <1>2, <1>8, <2>1, <2>2, <2>3, GotMore
  <2> QED BY <1>7, <1>8, <2>3, <2>4
<1>14. reading' = (IF k = 0 THEN "long" ELSE IF goesOn THEN "on" ELSE "end")
  BY <1>7, <1>11 DEF Tools!Outcome
<1>15. goesOn <=> k # m \/ (call.limit # NoLimit /\ start - 1 + m < total)
  BY <1>6, <1>8, <1>9, <1>11 DEF Tools!Remain
<1>16. reading' = "on" => offset' = start + k /\ k # 0 /\ start + k <= n
  <2> SUFFICES ASSUME reading' = "on" PROVE offset' = start + k /\ k # 0 /\ start + k <= n
    OBVIOUS
  <2>1. offset' = start + k /\ k # 0
    BY <1>7, <1>8, <1>11, <1>14 DEF Tools!NextOffset
  <2>2. CASE k # m
    BY <1>8, <1>9, <1>11, <2>1, <2>2
  <2>3. CASE k = m /\ start - 1 + m < total
    BY <1>8, <2>1, <2>3
  <2> QED BY <1>14, <1>15, <2>1, <2>2, <2>3
<1>17. reading' = "end" => start - 1 + k >= total
  <2> SUFFICES ASSUME reading' = "end" PROVE start - 1 + k >= total
    OBVIOUS
  <2>1. k = m /\ (call.limit = NoLimit \/ ~(start - 1 + m < total))
    BY <1>14, <1>15
  <2> QED BY <1>8, <1>9, <2>1
<1>18. Tools!NoLineLost'
  <2>1. start - 1 + k <= n
    BY <1>8, <1>9, <1>11
  <2> QED BY <1>1, <1>8, <1>13, <2>1 DEF Tools!NoLineLost
<1>19. Tools!AsMuchAsFits'
  <2>1. shown'.tool = "read" /\ shown'.lines = selected /\ shown'.result = t
    BY <1>7
  <2>2. Tools!IsPrefix(t.content, selected)
    <3>1. SubSeq(t.content, 1, k) = t.content
      BY <1>11, <1>12, WholeIsPart
    <3> QED BY <1>9, <1>11, <3>1 DEF Tools!IsPrefix
  <2> QED BY <1>10, <2>1, <2>2 DEF HeadSays, Tools!AsMuchAsFits
<1>20. offset' \in 1 .. MaxFile
  <2>1. CASE reading' = "on"
    <3>1. MaxFile \in Nat
      BY DEF Tools!ToolsAssumption
    <3> QED BY <1>8, <1>16, <2>1, <3>1
  <2>2. CASE reading' # "on"
    BY <1>7, <2>2 DEF ToolInv
  <2> QED BY <2>1, <2>2
<1>21. reading' = "on" => offset' = Len(got') + 1 /\ offset' <= Len(text')
  BY <1>1, <1>8, <1>13, <1>16
<1>22. ToolInv'
  <2>1. text \in Seq(Line) /\ fails \in 0 .. MaxFail
    BY DEF ToolInv
  <2>2. reading' \in {"on", "end", "long"} /\ shown'.tool = "read"
    BY <1>7, <1>14
  <2> QED BY <1>1, <1>8, <1>13, <1>18, <1>19, <1>20, <1>21, <2>1, <2>2 DEF ToolInv
<1>23. Tools!EndIsReached
  BY <1>8, <1>13, <1>17 DEF Tools!EndIsReached
<1>24. Tools!Advances
  <2>1. reading' = "on" => offset' > offset
    BY <1>8, <1>16
  <2> QED BY <2>1 DEF Tools!Advances
<1> QED BY <1>22, <1>23, <1>24

(* A step of the tools keeps all of it, and gets on.                       *)
LEMMA ToolsStep ==
  ASSUME Tools!ToolsAssumption, ToolInv, Tools!Next
  PROVE  ToolInv' /\ Tools!ReadsOn
<1>1. ToolInv' /\ Tools!EndIsReached /\ Tools!Advances
  BY CountKeeps, ShowKeeps, FailKeeps, GrowKeeps, BashKeeps DEF Tools!Next
<1>2. (Tools!NoLineLost /\ Tools!OffsetExists /\ Tools!AsMuchAsFits)'
  BY <1>1 DEF ToolInv, Tools!OffsetExists
<1> QED BY <1>1, <1>2 DEF Tools!ReadsOn

LEMMA ToolsStutter == ASSUME ToolInv, UNCHANGED toolVars PROVE ToolInv'
BY DEF ToolInv, toolVars, LinesCounted, Tools!NoLineLost, Tools!AsMuchAsFits

-----------------------------------------------------------------------------
(* The viewer's tree.  First the sequences of spans it is made from.       *)
Among(V) == Tree!ToSet(V)

Sorted(V) == V \in Seq(Tree!Span) /\ \A i, j \in 1 .. Len(V) : i < j => Tree!Earlier(V[i], V[j])

LEMMA AmongIs ==
  ASSUME NEW S, NEW V \in Seq(S)
  PROVE  /\ Among(V) \subseteq S /\ \A x : x \in Among(V) <=> \E i \in 1 .. Len(V) : V[i] = x
         /\ Len(V) \in Nat /\ \A i \in 1 .. Len(V) : V[i] \in Among(V) /\ V[i] \in S
<1>1. V \in [1 .. Len(V) -> S] /\ Len(V) \in Nat
  BY LenProperties
<1>2. DOMAIN V = 1 .. Len(V)
  BY <1>1
<1>3. Among(V) = {V[i] : i \in 1 .. Len(V)}
  BY <1>2 DEF Among, Tree!ToSet
<1>4. \A i \in 1 .. Len(V) : V[i] \in S
  BY <1>1
<1> QED BY <1>1, <1>3, <1>4

LEMMA EarlierOnce ==
  ASSUME Tree!TreeAssumption, NEW s, Tree!Earlier(s, s) PROVE FALSE
<1>1. PICK i, j \in DOMAIN SpanOrder : i < j /\ SpanOrder[i] = s /\ SpanOrder[j] = s
  BY DEF Tree!Earlier
<1>2. i = j
  BY <1>1 DEF Tree!TreeAssumption
<1>3. i \in Nat
  <2>1. SpanOrder \in Seq(Tree!Span)
    BY DEF Tree!TreeAssumption
  <2>2. DOMAIN SpanOrder = 1 .. Len(SpanOrder) /\ Len(SpanOrder) \in Nat
    BY <2>1, LenProperties
  <2> QED BY <2>2
<1> QED BY <1>1, <1>2, <1>3

LEMMA SortedOnce ==
  ASSUME Tree!TreeAssumption, NEW V, Sorted(V)
  PROVE  \A i, j \in 1 .. Len(V) : V[i] = V[j] => i = j
<1> SUFFICES ASSUME NEW i \in 1 .. Len(V), NEW j \in 1 .. Len(V), V[i] = V[j], i # j PROVE FALSE
  OBVIOUS
<1>1. Len(V) \in Nat
  BY LenProperties DEF Sorted
<1>2. i < j \/ j < i
  BY <1>1
<1>3. Tree!Earlier(V[i], V[i])
  BY <1>2 DEF Sorted
<1> QED BY <1>3, EarlierOnce

LEMMA OrderIsSorted == ASSUME Tree!TreeAssumption PROVE Sorted(SpanOrder)
<1>1. SpanOrder \in Seq(Tree!Span)
  BY DEF Tree!TreeAssumption
<1>2. DOMAIN SpanOrder = 1 .. Len(SpanOrder)
  BY <1>1, LenProperties
<1> QED BY <1>1, <1>2 DEF Sorted, Tree!Earlier

(* Filter keeps what is asked for, in its order.                           *)
Picking(g, V, T) ==
  g = [i \in 0 .. Len(V) |->
         IF i = 0 THEN <<>> ELSE IF V[i] \in T THEN Append(g[i - 1], V[i]) ELSE g[i - 1]]

LEMMA FilterIs ==
  ASSUME NEW V, NEW T PROVE Tree!Filter(V, T) = (CHOOSE g : Picking(g, V, T))[Len(V)]
BY DEF Tree!Filter, Picking

Picked(V, T, k, f) ==
  /\ f \in Seq(Tree!Span)
  /\ \A i \in 1 .. Len(f) : f[i] \in T /\ \E a \in 1 .. k : V[a] = f[i]
  /\ \A a \in 1 .. k : V[a] \in T => \E i \in 1 .. Len(f) : f[i] = V[a]
  /\ \A i, j \in 1 .. Len(f) : i < j => Tree!Earlier(f[i], f[j])

LEMMA PickedStep ==
  ASSUME NEW V, Sorted(V), NEW T, NEW k \in 0 .. Len(V), k < Len(V), NEW f, Picked(V, T, k, f)
  PROVE  Picked(V, T, k + 1, IF V[k + 1] \in T THEN Append(f, V[k + 1]) ELSE f)
<1>0. PICK n \in Nat : n = Len(V)
  BY LenProperties DEF Sorted
<1>1. k + 1 \in 1 .. n /\ k \in Nat
  BY <1>0
<1>2. PICK s \in Tree!Span : s = V[k + 1]
  BY <1>0, <1>1, ElementOfSeq DEF Sorted
<1>3. PICK m \in Nat : m = Len(f) /\ f \in Seq(Tree!Span)
  BY LenProperties DEF Picked
<1>4. CASE s \notin T
  <2>1. \A i \in 1 .. m : f[i] \in T /\ \E a \in 1 .. k + 1 : V[a] = f[i]
    <3>1. 1 .. k \subseteq 1 .. k + 1
      BY <1>1
    <3> QED BY <1>3, <3>1 DEF Picked
  <2>2. \A a \in 1 .. k + 1 : V[a] \in T => \E i \in 1 .. m : f[i] = V[a]
    <3> TAKE a \in 1 .. k + 1
    <3>1. a = k + 1 \/ a \in 1 .. k
      BY <1>1
    <3> QED BY <1>2, <1>3, <1>4, <3>1 DEF Picked
  <2> QED BY <1>2, <1>3, <1>4, <2>1, <2>2 DEF Picked
<1>5. CASE s \in T
  <2>1. PICK e \in Seq(Tree!Span) : e = Append(f, s) /\ Len(e) = m + 1 /\ e[m + 1] = s
        /\ \A i \in 1 .. m : e[i] = f[i]
    <3>1. /\ Append(f, s) \in Seq(Tree!Span) /\ Len(Append(f, s)) = Len(f) + 1
          /\ \A i \in 1 .. Len(f) : Append(f, s)[i] = f[i]
          /\ Append(f, s)[Len(f) + 1] = s
      BY <1>3, AppendProperties
    <3> QED BY <1>3, <3>1
  <2>2. ASSUME NEW i \in 1 .. m + 1 PROVE e[i] \in T /\ \E a \in 1 .. k + 1 : V[a] = e[i]
    <3>1. CASE i = m + 1
      BY <1>1, <1>2, <1>5, <2>1, <3>1
    <3>2. CASE i \in 1 .. m
      <4>1. e[i] = f[i] /\ f[i] \in T
        BY <1>3, <2>1, <3>2 DEF Picked
      <4>2. PICK a \in 1 .. k : V[a] = f[i]
        BY <1>3, <3>2 DEF Picked
      <4>3. a \in 1 .. k + 1
        BY <1>1
      <4> QED BY <4>1, <4>2, <4>3
    <3> QED BY <3>1, <3>2
  <2>3. ASSUME NEW a \in 1 .. k + 1, V[a] \in T PROVE \E i \in 1 .. m + 1 : e[i] = V[a]
    <3>1. CASE a = k + 1
      <4>1. m + 1 \in 1 .. m + 1
        OBVIOUS
      <4> QED BY <1>2, <2>1, <3>1, <4>1
    <3>2. CASE a \in 1 .. k
      <4>1. PICK i \in 1 .. m : f[i] = V[a]
        BY <1>3, <2>3, <3>2 DEF Picked
      <4>2. i \in 1 .. m + 1
        OBVIOUS
      <4> QED BY <2>1, <4>1, <4>2
    <3>3. a = k + 1 \/ a \in 1 .. k
      BY <1>1
    <3> QED BY <3>1, <3>2, <3>3
  <2>4. ASSUME NEW i \in 1 .. m + 1, NEW j \in 1 .. m + 1, i < j PROVE Tree!Earlier(e[i], e[j])
    <3>1. i \in 1 .. m /\ (j = m + 1 \/ j \in 1 .. m)
      BY <2>4
    <3>2. CASE j = m + 1
      <4>1. PICK a \in 1 .. k : V[a] = f[i]
        BY <1>3, <3>1 DEF Picked
      <4>2. a < k + 1 /\ a \in 1 .. n
        BY <1>0, <1>1
      <4>3. Tree!Earlier(V[a], V[k + 1])
        BY <1>0, <1>1, <4>2 DEF Sorted
      <4> QED BY <1>2, <2>1, <3>1, <3>2, <4>1, <4>3
    <3>3. CASE j \in 1 .. m
      BY <1>3, <2>1, <2>4, <3>1, <3>3 DEF Picked
    <3> QED BY <3>1, <3>2, <3>3
  <2>5. Picked(V, T, k + 1, e)
    BY <2>1, <2>2, <2>3, <2>4 DEF Picked
  <2> QED BY <1>2, <1>5, <2>1, <2>5
<1> QED BY <1>4, <1>5

LEMMA FilterKeeps ==
  ASSUME NEW V, Sorted(V), NEW T
  PROVE  /\ Sorted(Tree!Filter(V, T)) /\ Tree!Filter(V, T) \in Seq(Tree!Span)
         /\ \A x : x \in Among(Tree!Filter(V, T)) <=> x \in Among(V) /\ x \in T
<1>0. PICK n \in Nat : n = Len(V) /\ V \in Seq(Tree!Span)
  BY LenProperties DEF Sorted
<1> DEFINE W == Seq(Tree!Span)
           step == [i \in 1 .. n |-> [v \in W |-> IF V[i] \in T THEN Append(v, V[i]) ELSE v]]
<1>1. step \in [1 .. n -> [W -> W]]
  <2>1. ASSUME NEW i \in 1 .. n, NEW v \in W PROVE Append(v, V[i]) \in W
    <3>1. V[i] \in Tree!Span
      BY <1>0, ElementOfSeq
    <3> QED BY <3>1, AppendProperties
  <2> QED BY <2>1
<1>2. <<>> \in W
  OBVIOUS
<1>3. PICK g \in [0 .. n -> W] : Walking(g, n, <<>>, step)
  <2> HIDE DEF step, W
  <2> QED BY <1>1, <1>2, WalkIsThere
<1>4. ASSUME NEW i \in 1 .. n PROVE g[i] = IF V[i] \in T THEN Append(g[i - 1], V[i]) ELSE g[i - 1]
  <2>1. g[i] = step[i][g[i - 1]]
    <3> HIDE DEF step
    <3> QED BY <1>3 DEF Walking
  <2>2. g[i - 1] \in W
    <3> HIDE DEF W
    <3> QED BY <1>3
  <2> QED BY <2>1, <2>2
<1>5. g[0] = <<>>
  BY <1>3 DEF Walking
<1> HIDE DEF step, W
<1>6. Picking(g, V, T)
  <2>1. g = [i \in 0 .. n |-> g[i]]
    BY <1>3
  <2>2. \A i \in 0 .. n :
          g[i] = IF i = 0 THEN <<>> ELSE IF V[i] \in T THEN Append(g[i - 1], V[i]) ELSE g[i - 1]
    <3> TAKE i \in 0 .. n
    <3>1. CASE i = 0
      BY <1>5, <3>1
    <3>2. CASE i # 0
      <4>1. i \in 1 .. n
        BY <3>2
      <4>2. g[i] = IF V[i] \in T THEN Append(g[i - 1], V[i]) ELSE g[i - 1]
        BY <1>4, <4>1
      <4> QED BY <3>2, <4>2
    <3> QED BY <3>1, <3>2
  <2> QED BY <1>0, <2>1, <2>2 DEF Picking
<1>7. PICK h : h = CHOOSE e : Picking(e, V, T)
  OBVIOUS
<1>8. \A i \in 0 .. n :
        h[i] = IF i = 0 THEN <<>> ELSE IF V[i] \in T THEN Append(h[i - 1], V[i]) ELSE h[i - 1]
  <2>1. Picking(h, V, T)
    BY <1>6, <1>7
  <2>2. h = [i \in 0 .. n |->
              IF i = 0 THEN <<>> ELSE IF V[i] \in T THEN Append(h[i - 1], V[i]) ELSE h[i - 1]]
    BY <1>0, <2>1 DEF Picking
  <2> QED BY <2>2
<1> DEFINE S == {i \in 0 .. n : Picked(V, T, i, h[i])}
<1>9. 0 \in S
  <2>1. h[0] = <<>>
    BY <1>8
  <2>2. Picked(V, T, 0, <<>>)
    BY DEF Picked
  <2> QED BY <2>1, <2>2
<1>10. ASSUME NEW i \in 0 .. n, i < n, i \in S PROVE i + 1 \in S
  <2>1. i + 1 \in 0 .. n /\ i + 1 # 0 /\ (i + 1) - 1 = i
    BY <1>10
  <2>2. h[i + 1] = IF V[i + 1] \in T THEN Append(h[i], V[i + 1]) ELSE h[i]
    BY <1>8, <2>1
  <2>3. Picked(V, T, i, h[i])
    BY <1>10
  <2>4. Picked(V, T, i + 1, h[i + 1])
    BY <1>0, <1>10, <2>2, <2>3, PickedStep
  <2> QED BY <2>1, <2>4
<1>11. Picked(V, T, n, h[n])
  <2> HIDE DEF S
  <2>1. \A i \in 0 .. n : i \in S
    BY <1>9, <1>10, UptoInduction
  <2>2. n \in S
    BY <2>1
  <2> QED BY <2>2 DEF S
<1>12. PICK f \in Seq(Tree!Span) : f = Tree!Filter(V, T) /\ Picked(V, T, n, f)
  <2>1. Tree!Filter(V, T) = h[n]
    BY <1>0, <1>7, FilterIs
  <2> QED BY <1>11, <2>1 DEF Picked
<1>13. Sorted(f)
  BY <1>12 DEF Picked, Sorted
<1>14. ASSUME NEW x PROVE x \in Among(f) <=> x \in Among(V) /\ x \in T
  <2>1. x \in Among(f) <=> \E i \in 1 .. Len(f) : f[i] = x
    BY AmongIs
  <2>2. x \in Among(V) <=> \E i \in 1 .. n : V[i] = x
    BY <1>0, AmongIs
  <2> QED BY <1>12, <2>1, <2>2 DEF Picked
<1> QED BY <1>12, <1>13, <1>14

(* A span's children, and the roots, are those whose parent it is.         *)
LEMMA ChildrenAre ==
  ASSUME NEW V, Sorted(V), NEW p
  PROVE  /\ Sorted(Tree!Children(V, p)) /\ Tree!Children(V, p) \in Seq(Tree!Span)
         /\ \A x : x \in Among(Tree!Children(V, p)) <=> x \in Among(V) /\ parent[x] = p
<1>1. PICK T : T = {s \in Tree!ToSet(V) : parent[s] = p}
  OBVIOUS
<1>2. Tree!Children(V, p) = Tree!Filter(V, T)
  BY <1>1 DEF Tree!Children
<1>3. \A x : x \in T <=> x \in Among(V) /\ parent[x] = p
  BY <1>1 DEF Among
<1> QED BY <1>2, <1>3, FilterKeeps

-----------------------------------------------------------------------------
(* What a sequence of sequences is when it is flattened: each keeps its    *)
(* order, after those before it.                                           *)
LEMMA SumsRise ==
  ASSUME NEW s \in Seq(Nat), NEW o, AddsUp(o, s)
  PROVE  \A i, j \in 0 .. Len(s) : i <= j => o[i] <= o[j]
<1>0. PICK n \in Nat : n = Len(s)
  BY LenProperties
<1>1. \A i \in 0 .. n : o[i] \in Nat
  BY <1>0 DEF AddsUp
<1> SUFFICES ASSUME NEW i \in 0 .. n PROVE \A j \in 0 .. n : i <= j => o[i] <= o[j]
  BY <1>0
<1> DEFINE S == {j \in 0 .. n : i <= j => o[i] <= o[j]}
<1>2. 0 \in S
  <2>1. CASE i = 0
    BY <1>1, <2>1
  <2>2. CASE i # 0
    BY <2>2
  <2> QED BY <2>1, <2>2
<1>3. ASSUME NEW j \in 0 .. n, j < n, j \in S PROVE j + 1 \in S
  <2>1. j + 1 \in 1 .. n /\ j + 1 \in 0 .. n /\ (j + 1) - 1 = j
    BY <1>3
  <2>2. s[j + 1] \in Nat
    BY <1>0, <2>1, ElementOfSeq
  <2>3. o[j + 1] = o[j] + s[j + 1]
    BY <1>0, <2>1 DEF AddsUp
  <2>4. o[i] \in Nat /\ o[j] \in Nat /\ o[j + 1] \in Nat
    BY <1>1, <2>1
  <2>5. CASE i <= j
    <3>1. o[i] <= o[j]
      BY <1>3, <2>5
    <3>2. o[i] <= o[j + 1]
      BY <2>2, <2>3, <2>4, <3>1
    <3> QED BY <2>1, <3>2
  <2>6. CASE ~(i <= j)
    <3>1. i <= j + 1 => i = j + 1
      BY <2>6
    <3>2. i <= j + 1 => o[i] <= o[j + 1]
      BY <2>4, <3>1
    <3> QED BY <2>1, <3>2
  <2> QED BY <2>5, <2>6
<1>4. \A j \in 0 .. n : j \in S
  <2> HIDE DEF S
  <2> QED BY <1>2, <1>3, UptoInduction
<1> QED BY <1>4

LEMMA SumsCover ==
  ASSUME NEW s \in Seq(Nat), NEW o, AddsUp(o, s), NEW x \in 1 .. o[Len(s)]
  PROVE  \E c \in 1 .. Len(s) : x > o[c - 1] /\ x <= o[c]
<1>0. PICK n \in Nat : n = Len(s)
  BY LenProperties
<1>1. o[0] = 0 /\ \A i \in 0 .. n : o[i] \in Nat
  BY <1>0 DEF AddsUp
<1>2. SUFFICES ASSUME \A c \in 1 .. n : ~(x > o[c - 1] /\ x <= o[c]) PROVE FALSE
  BY <1>0
<1> DEFINE S == {j \in 0 .. n : x > o[j]}
<1>3. x \in Nat /\ x > 0
  <2>1. n \in 0 .. n
    OBVIOUS
  <2>2. o[n] \in Nat
    BY <1>1, <2>1
  <2> QED BY <1>0, <2>2
<1>4. 0 \in S
  BY <1>1, <1>3
<1>5. ASSUME NEW j \in 0 .. n, j < n, j \in S PROVE j + 1 \in S
  <2>1. j + 1 \in 1 .. n /\ j + 1 \in 0 .. n /\ (j + 1) - 1 = j
    BY <1>5
  <2>2. ~(x <= o[j + 1])
    BY <1>2, <1>5, <2>1
  <2>3. o[j + 1] \in Nat
    BY <1>1, <2>1
  <2> QED BY <1>3, <2>1, <2>2, <2>3
<1>6. n \in S
  <2> HIDE DEF S
  <2>1. \A j \in 0 .. n : j \in S
    BY <1>4, <1>5, UptoInduction
  <2> QED BY <2>1
<1>7. x > o[n] /\ x <= o[n] /\ o[n] \in Nat
  <2>1. n \in 0 .. n
    OBVIOUS
  <2>2. o[n] \in Nat
    BY <1>1, <2>1
  <2> QED BY <1>0, <1>6, <2>2
<1> QED BY <1>3, <1>7

Lengths(B) == [c \in 1 .. Len(B) |-> Len(B[c])]

LaidUpTo(o, B, k, f) ==
  Len(f) = o[k] /\ \A c \in 1 .. k : \A i \in 1 .. Len(B[c]) : f[o[c - 1] + i] = B[c][i]

Flattening(g, B) == g = [i \in 1 .. Len(B) |-> IF i = 1 THEN B[i] ELSE g[i - 1] \o B[i]]

LEMMA FlattenSeqIs ==
  ASSUME NEW B
  PROVE  Tree!FlattenSeq(B) = IF Len(B) = 0 THEN B ELSE (CHOOSE g : Flattening(g, B))[Len(B)]
BY DEF Tree!FlattenSeq, Flattening

LEMMA LengthsType ==
  ASSUME NEW S, NEW B \in Seq(Seq(S))
  PROVE  /\ Lengths(B) \in Seq(Nat) /\ Len(Lengths(B)) = Len(B) /\ Len(B) \in Nat
         /\ \A c \in 1 .. Len(B) : /\ Lengths(B)[c] = Len(B[c])
                                   /\ B[c] \in Seq(S) /\ Len(B[c]) \in Nat
<1>1. PICK n \in Nat : n = Len(B)
  BY LenProperties
<1>2. \A c \in 1 .. n : B[c] \in Seq(S) /\ Len(B[c]) \in Nat
  <2> TAKE c \in 1 .. n
  <2>1. B[c] \in Seq(S)
    BY <1>1, ElementOfSeq
  <2> QED BY <2>1, LenProperties
<1>3. Lengths(B) = [c \in 1 .. n |-> Len(B[c])]
  BY <1>1 DEF Lengths
<1>4. Lengths(B) \in [1 .. n -> Nat]
  BY <1>2, <1>3
<1>5. Lengths(B) \in Seq(Nat) /\ Len(Lengths(B)) = n
  BY <1>4
<1> QED BY <1>1, <1>2, <1>3, <1>5

LEMMA LaidStep ==
  ASSUME NEW S, NEW B \in Seq(Seq(S)), NEW o, AddsUp(o, Lengths(B)),
         NEW k \in 0 .. Len(B), k < Len(B), NEW f \in Seq(S), LaidUpTo(o, B, k, f)
  PROVE  f \o B[k + 1] \in Seq(S) /\ LaidUpTo(o, B, k + 1, f \o B[k + 1])
<1>0. PICK n \in Nat : n = Len(B) /\ Len(Lengths(B)) = n
  BY LengthsType
<1>1. k + 1 \in 1 .. n /\ k \in 0 .. n /\ (k + 1) - 1 = k /\ k \in Nat
  BY <1>0
<1>2. PICK b \in Seq(S) : b = B[k + 1] /\ Len(b) \in Nat /\ Lengths(B)[k + 1] = Len(b)
  BY <1>0, <1>1, LengthsType
<1>3. PICK p \in Nat, q \in Nat : p = o[k] /\ q = Len(b) /\ o[k + 1] = p + q /\ Len(f) = p
  <2>1. o[k] \in Nat
    BY <1>0, <1>1 DEF AddsUp
  <2>2. o[k + 1] = o[k] + Lengths(B)[k + 1]
    BY <1>0, <1>1 DEF AddsUp
  <2>3. Len(f) = o[k]
    BY DEF LaidUpTo
  <2> QED BY <1>2, <2>1, <2>2, <2>3
<1>4. PICK e \in Seq(S) : e = f \o b /\ Len(e) = p + q
      /\ \A i \in 1 .. p + q : e[i] = IF i <= p THEN f[i] ELSE b[i - p]
  <2>1. /\ f \o b \in Seq(S) /\ Len(f \o b) = Len(f) + Len(b)
        /\ \A i \in 1 .. Len(f) + Len(b) : (f \o b)[i] = IF i <= Len(f) THEN f[i] ELSE b[i - Len(f)]
    BY ConcatProperties
  <2> QED BY <1>3, <2>1
<1>5. ASSUME NEW c \in 1 .. k + 1, NEW i \in 1 .. Len(B[c]) PROVE e[o[c - 1] + i] = B[c][i]
  <2>1. CASE c = k + 1
    <3>1. i \in 1 .. q /\ o[c - 1] = p /\ B[c] = b
      BY <1>2, <1>3, <1>1, <1>5, <2>1
    <3>2. p + i \in 1 .. p + q /\ ~(p + i <= p) /\ (p + i) - p = i
      BY <3>1
    <3> QED BY <1>4, <3>1, <3>2
  <2>2. CASE c # k + 1
    <3>1. c \in 1 .. k /\ c \in 0 .. n /\ c - 1 \in 0 .. n /\ c \in 1 .. n /\ c <= k
      BY <1>0, <1>1, <2>2
    <3>2. f[o[c - 1] + i] = B[c][i]
      BY <1>5, <3>1 DEF LaidUpTo
    <3>3. PICK l \in Nat : l = Len(B[c]) /\ Lengths(B)[c] = l
      BY <1>0, <3>1, LengthsType
    <3>4. o[c] = o[c - 1] + l /\ o[c - 1] \in Nat
      BY <1>0, <3>1, <3>3 DEF AddsUp
    <3>5. o[c] <= p
      <4>1. Lengths(B) \in Seq(Nat)
        BY LengthsType
      <4> QED BY <1>0, <1>1, <1>3, <3>1, <4>1, SumsRise
    <3>6. o[c - 1] + i \in 1 .. p
      BY <1>5, <3>3, <3>4, <3>5
    <3>7. o[c - 1] + i \in 1 .. p + q /\ o[c - 1] + i <= p
      BY <3>6
    <3> QED BY <1>4, <3>2, <3>7
  <2> QED BY <2>1, <2>2
<1> QED BY <1>2, <1>3, <1>4, <1>5 DEF LaidUpTo

Laid(o, B, F) ==
  /\ AddsUp(o, Lengths(B)) /\ LaidUpTo(o, B, Len(B), F)
  /\ \A x \in 1 .. Len(F) : \E c \in 1 .. Len(B) : \E i \in 1 .. Len(B[c]) : x = o[c - 1] + i

LEMMA FlattenIs ==
  ASSUME NEW S, NEW B \in Seq(Seq(S))
  PROVE  Tree!FlattenSeq(B) \in Seq(S) /\ \E o : Laid(o, B, Tree!FlattenSeq(B))
<1>0. PICK n \in Nat : n = Len(B) /\ Len(Lengths(B)) = n /\ Lengths(B) \in Seq(Nat)
  BY LengthsType
<1>1. PICK o : AddsUp(o, Lengths(B))
  BY <1>0, AddUpIsThere
<1>2. o[0] = 0
  BY <1>1 DEF AddsUp
<1>3. \A c \in 1 .. n : B[c] \in Seq(S) /\ Len(B[c]) \in Nat /\ Lengths(B)[c] = Len(B[c])
  BY <1>0, LengthsType
<1>4. ASSUME NEW F \in Seq(S), LaidUpTo(o, B, n, F) PROVE Laid(o, B, F)
  <2>1. ASSUME NEW x \in 1 .. Len(F)
        PROVE  \E c \in 1 .. n : \E i \in 1 .. Len(B[c]) : x = o[c - 1] + i
    <3>1. x \in 1 .. o[Len(Lengths(B))]
      BY <1>0, <1>4 DEF LaidUpTo
    <3>2. PICK c \in 1 .. n : x > o[c - 1] /\ x <= o[c]
      BY <1>0, <1>1, <3>1, SumsCover
    <3>3. c - 1 \in 0 .. n /\ c \in 1 .. n
      OBVIOUS
    <3>4. o[c] = o[c - 1] + Len(B[c]) /\ o[c - 1] \in Nat /\ Len(B[c]) \in Nat
      BY <1>0, <1>1, <1>3, <3>3 DEF AddsUp
    <3>5. x - o[c - 1] \in 1 .. Len(B[c]) /\ x = o[c - 1] + (x - o[c - 1])
      <4>1. x \in Int
        OBVIOUS
      <4> QED BY <3>2, <3>4, <4>1
    <3> QED BY <3>5
  <2> QED BY <1>0, <1>1, <1>4, <2>1 DEF Laid
<1>5. CASE n = 0
  <2>1. Tree!FlattenSeq(B) = <<>>
    BY <1>0, <1>5, FlattenSeqIs, EmptySeq
  <2>2. <<>> \in Seq(S) /\ Len(<<>>) = 0
    OBVIOUS
  <2>3. LaidUpTo(o, B, n, <<>>)
    BY <1>2, <1>5, <2>2 DEF LaidUpTo
  <2> QED BY <1>4, <2>1, <2>2, <2>3
<1>6. CASE n # 0
  <2> DEFINE W == Seq(S)
             step == [i \in 1 .. n |-> [v \in W |-> v \o B[i]]]
  <2>1. step \in [1 .. n -> [W -> W]]
    <3>1. ASSUME NEW i \in 1 .. n, NEW v \in W PROVE v \o B[i] \in W
      BY <1>3, ConcatProperties
    <3> QED BY <3>1
  <2>2. <<>> \in W
    OBVIOUS
  <2>3. PICK g \in [0 .. n -> W] : Walking(g, n, <<>>, step)
    <3> HIDE DEF step, W
    <3> QED BY <2>1, <2>2, WalkIsThere
  <2>4. ASSUME NEW i \in 1 .. n PROVE g[i] = g[i - 1] \o B[i]
    <3>1. g[i] = step[i][g[i - 1]]
      <4> HIDE DEF step
      <4> QED BY <2>3 DEF Walking
    <3>2. g[i - 1] \in W
      <4> HIDE DEF W
      <4> QED BY <2>3
    <3> QED BY <3>1, <3>2
  <2>5. g[0] = <<>>
    BY <2>3 DEF Walking
  <2> HIDE DEF step, W
  <2> DEFINE e == [i \in 1 .. n |-> g[i]]
  <2>6. Flattening(e, B)
    <3>1. ASSUME NEW i \in 1 .. n PROVE e[i] = IF i = 1 THEN B[i] ELSE e[i - 1] \o B[i]
      <4>1. CASE i = 1
        <5>1. g[1] = g[0] \o B[1]
          <6>1. 1 \in 1 .. n /\ 1 - 1 = 0
            BY <4>1
          <6> QED BY <2>4, <6>1
        <5>2. B[1] \in Seq(S)
          BY <1>3, <4>1
        <5>3. <<>> \o B[1] = B[1]
          BY <5>2, ConcatEmptySeq
        <5> QED BY <2>5, <4>1, <5>1, <5>3
      <4>2. CASE i # 1
        <5>1. i - 1 \in 1 .. n
          BY <4>2
        <5> QED BY <2>4, <4>2, <5>1
      <4> QED BY <4>1, <4>2
    <3> HIDE DEF e
    <3>2. e = [i \in 1 .. n |-> e[i]]
      BY DEF e
    <3>3. e = [i \in 1 .. n |-> IF i = 1 THEN B[i] ELSE e[i - 1] \o B[i]]
      BY <3>1, <3>2
    <3> QED BY <1>0, <3>3 DEF Flattening
  <2>7. PICK h : h = CHOOSE f : Flattening(f, B)
    OBVIOUS
  <2>8. \A i \in 1 .. n : h[i] = IF i = 1 THEN B[i] ELSE h[i - 1] \o B[i]
    <3> HIDE DEF e
    <3>1. Flattening(h, B)
      BY <2>6, <2>7
    <3>2. h = [i \in 1 .. n |-> IF i = 1 THEN B[i] ELSE h[i - 1] \o B[i]]
      BY <1>0, <3>1 DEF Flattening
    <3> QED BY <3>2
  <2> DEFINE T == {i \in 0 .. n : i >= 1 => h[i] \in Seq(S) /\ LaidUpTo(o, B, i, h[i])}
  <2>9. 0 \in T
    OBVIOUS
  <2>10. ASSUME NEW i \in 0 .. n, i < n, i \in T PROVE i + 1 \in T
    <3>1. i + 1 \in 0 .. n /\ i + 1 \in 1 .. n /\ (i + 1) - 1 = i
      BY <2>10
    <3>2. CASE i = 0
      <4>1. h[1] = B[1] /\ B[1] \in Seq(S)
        BY <1>3, <2>8, <3>1, <3>2
      <4>2. <<>> \in Seq(S) /\ Len(<<>>) = 0
        OBVIOUS
      <4>3. LaidUpTo(o, B, 0, <<>>)
        BY <1>2, <4>2 DEF LaidUpTo
      <4>4. <<>> \o B[1] = B[1]
        BY <4>1, ConcatEmptySeq
      <4>5. LaidUpTo(o, B, 0 + 1, <<>> \o B[0 + 1])
        <5>1. 0 \in 0 .. Len(B) /\ 0 < Len(B)
          BY <1>0, <2>10, <3>2
        <5> QED BY <1>1, <4>2, <4>3, <5>1, LaidStep
      <4>6. LaidUpTo(o, B, 1, h[1])
        BY <4>1, <4>4, <4>5
      <4> QED BY <3>1, <3>2, <4>1, <4>6
    <3>3. CASE i # 0
      <4>1. h[i] \in Seq(S) /\ LaidUpTo(o, B, i, h[i])
        BY <2>10, <3>3
      <4>2. h[i + 1] = h[i] \o B[i + 1]
        <5>1. i + 1 # 1
          BY <3>3
        <5> QED BY <2>8, <3>1, <5>1
      <4>3. h[i] \o B[i + 1] \in Seq(S) /\ LaidUpTo(o, B, i + 1, h[i] \o B[i + 1])
        BY <1>0, <1>1, <2>10, <4>1, LaidStep
      <4> QED BY <3>1, <4>2, <4>3
    <3> QED BY <3>2, <3>3
  <2>11. n \in T
    <3> HIDE DEF T
    <3>1. \A i \in 0 .. n : i \in T
      BY <2>9, <2>10, UptoInduction
    <3> QED BY <3>1
  <2>12. h[n] \in Seq(S) /\ LaidUpTo(o, B, n, h[n])
    BY <1>6, <2>11
  <2>13. Tree!FlattenSeq(B) = h[n]
    BY <1>0, <1>6, <2>7, FlattenSeqIs
  <2> QED BY <1>4, <2>12, <2>13
<1> QED BY <1>5, <1>6

-----------------------------------------------------------------------------
(* A stem is a chain of spans from a root down, each the parent of the     *)
(* next: the path to its last span.                                        *)
Over(p, i) == IF i = 1 THEN Null ELSE p[i - 1]
Stem(V, p) == p \in Seq(Among(V)) /\ \A i \in 1 .. Len(p) : parent[p[i]] = Over(p, i)

Viewed(V) == Sorted(V) /\ \A s \in Among(V) : parent[s] \in Tree!Span \union {Null}

LEMMA StemIs ==
  ASSUME Tree!TreeAssumption, NEW V, Viewed(V), NEW p, Stem(V, p)
  PROVE  /\ Len(p) \in Nat /\ p \in Seq(Among(V)) /\ p \in Seq(Tree!Span)
         /\ \A i \in 1 .. Len(p) : p[i] \in Among(V) /\ p[i] \in Tree!Span /\ p[i] # Null
<1>1. Among(V) \subseteq Tree!Span
  BY AmongIs DEF Viewed, Sorted
<1>2. p \in Seq(Among(V)) /\ Len(p) \in Nat
  BY LenProperties DEF Stem
<1>3. \A i \in 1 .. Len(p) : p[i] \in Among(V)
  BY <1>2, ElementOfSeq
<1>4. Null \notin Tree!Span
  BY DEF Tree!TreeAssumption
<1>5. Seq(Among(V)) \subseteq Seq(Tree!Span)
  BY <1>1, SeqMonotonic
<1> QED BY <1>1, <1>2, <1>3, <1>4, <1>5

LEMMA NoStem == ASSUME NEW V PROVE Stem(V, <<>>)
BY DEF Stem

LEMMA StemAppend ==
  ASSUME NEW V, NEW p, Stem(V, p), NEW s \in Among(V), parent[s] = Over(p, Len(p) + 1)
  PROVE  /\ Stem(V, Append(p, s)) /\ Len(Append(p, s)) = Len(p) + 1
         /\ Append(p, s)[Len(p) + 1] = s /\ SubSeq(Append(p, s), 1, Len(p)) = p
         /\ \A i \in 1 .. Len(p) : Append(p, s)[i] = p[i]
<1>1. PICK n \in Nat : n = Len(p) /\ p \in Seq(Among(V))
  BY LenProperties DEF Stem
<1>2. PICK e \in Seq(Among(V)) : e = Append(p, s) /\ Len(e) = n + 1 /\ e[n + 1] = s
        /\ \A i \in 1 .. n : e[i] = p[i]
  <2>1. /\ Append(p, s) \in Seq(Among(V)) /\ Len(Append(p, s)) = Len(p) + 1
        /\ \A i \in 1 .. Len(p) : Append(p, s)[i] = p[i]
        /\ Append(p, s)[Len(p) + 1] = s
    BY <1>1, AppendProperties
  <2> QED BY <1>1, <2>1
<1>3. ASSUME NEW i \in 1 .. n + 1 PROVE parent[e[i]] = Over(e, i)
  <2>1. Over(e, i) = Over(p, i)
    <3>1. i # 1 => i - 1 \in 1 .. n
      OBVIOUS
    <3> QED BY <1>2, <3>1 DEF Over
  <2>2. CASE i = n + 1
    BY <1>1, <1>2, <2>1, <2>2
  <2>3. CASE i \in 1 .. n
    BY <1>1, <1>2, <2>1, <2>3 DEF Stem
  <2> QED BY <2>2, <2>3
<1>4. Stem(V, e)
  BY <1>2, <1>3 DEF Stem
<1>5. SubSeq(e, 1, n) = p
  <2>1. n \in 0 .. Len(e)
    BY <1>2
  <2>2. PICK u \in Seq(Among(V)) : u = SubSeq(e, 1, n) /\ Len(u) = n /\ \A i \in 1 .. n : u[i] = e[i]
    BY <1>2, <2>1, TopOfLines
  <2>3. u = p
    <3>1. \A i \in 1 .. n : u[i] = p[i]
      BY <1>2, <2>2
    <3> QED BY <1>1, <2>2, <3>1, SeqEqual
  <2> QED BY <2>2, <2>3
<1> QED BY <1>1, <1>2, <1>4, <1>5

LEMMA StemTop ==
  ASSUME NEW V, NEW p, Stem(V, p), NEW k \in 0 .. Len(p)
  PROVE  /\ Stem(V, SubSeq(p, 1, k)) /\ Len(SubSeq(p, 1, k)) = k
         /\ \A i \in 1 .. k : SubSeq(p, 1, k)[i] = p[i]
<1>1. PICK n \in Nat : n = Len(p) /\ p \in Seq(Among(V))
  BY LenProperties DEF Stem
<1>2. PICK u \in Seq(Among(V)) : u = SubSeq(p, 1, k) /\ Len(u) = k /\ \A i \in 1 .. k : u[i] = p[i]
  BY <1>1, TopOfLines
<1>3. ASSUME NEW i \in 1 .. k PROVE parent[u[i]] = Over(u, i)
  <2>1. i \in 1 .. n /\ (i # 1 => i - 1 \in 1 .. k)
    BY <1>1
  <2>2. Over(u, i) = Over(p, i)
    BY <1>2, <2>1 DEF Over
  <2> QED BY <1>1, <1>2, <2>1, <2>2 DEF Stem
<1> QED BY <1>2, <1>3 DEF Stem

(* A span is on one stem only, and once.                                   *)
LEMMA Climb ==
  ASSUME Tree!TreeAssumption, NEW V, Viewed(V), NEW p, Stem(V, p), NEW e, Stem(V, e)
  PROVE  \A i \in 1 .. Len(p) : \A j \in 1 .. Len(e) :
           p[i] = e[j] => i = j /\ \A k \in 1 .. i : p[k] = e[k]
<1>1. PICK n \in Nat, m \in Nat : n = Len(p) /\ m = Len(e)
  BY StemIs
<1>2. /\ \A i \in 1 .. n : p[i] # Null /\ parent[p[i]] = Over(p, i)
      /\ \A i \in 1 .. m : e[i] # Null /\ parent[e[i]] = Over(e, i)
  BY <1>1, StemIs DEF Stem
<1> DEFINE Same(i) == \A j \in 1 .. m : p[i] = e[j] => i = j /\ \A k \in 1 .. i : p[k] = e[k]
           S == {i \in 0 .. n : i >= 1 => Same(i)}
<1>3. 0 \in S
  OBVIOUS
<1>4. ASSUME NEW i \in 0 .. n, i < n, i \in S PROVE i + 1 \in S
  <2>1. i + 1 \in 1 .. n /\ i + 1 \in 0 .. n /\ (i + 1) - 1 = i /\ i \in Nat
    BY <1>4
  <2>2. ASSUME NEW j \in 1 .. m, p[i + 1] = e[j]
        PROVE  i + 1 = j /\ \A k \in 1 .. i + 1 : p[k] = e[k]
    <3>1. Over(p, i + 1) = Over(e, j)
      BY <1>2, <2>1, <2>2
    <3>2. CASE i = 0
      <4>1. j = 1
        <5> SUFFICES ASSUME j # 1 PROVE FALSE
          OBVIOUS
        <5>1. j - 1 \in 1 .. m
          OBVIOUS
        <5>2. e[j - 1] # Null
          BY <1>2, <5>1
        <5> QED BY <3>1, <3>2, <5>2 DEF Over
      <4> QED BY <2>2, <3>2, <4>1
    <3>3. CASE i # 0
      <4>1. i \in 1 .. n /\ i + 1 # 1
        BY <3>3
      <4>2. Over(p, i + 1) = p[i] /\ p[i] # Null
        BY <1>2, <2>1, <4>1 DEF Over
      <4>3. j # 1 /\ e[j - 1] = p[i]
        BY <3>1, <4>2 DEF Over
      <4>4. j - 1 \in 1 .. m
        BY <4>3
      <4>5. Same(i)
        BY <1>4, <4>1
      <4>6. i = j - 1 /\ \A k \in 1 .. i : p[k] = e[k]
        BY <4>3, <4>4, <4>5
      <4>7. ASSUME NEW k \in 1 .. i + 1 PROVE p[k] = e[k]
        <5>1. k = i + 1 \/ k \in 1 .. i
          BY <2>1
        <5> QED BY <2>2, <4>6, <5>1
      <4> QED BY <4>6, <4>7
    <3> QED BY <3>2, <3>3
  <2>3. Same(i + 1)
    BY <2>2
  <2> QED BY <2>1, <2>3
<1>5. \A i \in 0 .. n : i \in S
  <2> HIDE DEF S
  <2> QED BY <1>3, <1>4, UptoInduction
<1>6. \A i \in 1 .. n : Same(i)
  <2> TAKE i \in 1 .. n
  <2>1. i \in S
    <3>1. i \in 0 .. n
      OBVIOUS
    <3> HIDE DEF S
    <3> QED BY <1>5, <3>1
  <2> QED BY <2>1
<1> QED BY <1>1, <1>6

LEMMA StemFits ==
  ASSUME Tree!TreeAssumption, NEW V, Viewed(V), NEW p, Stem(V, p) PROVE Len(p) <= Len(V)
<1>1. PICK m \in Nat, n \in Nat : m = Len(p) /\ n = Len(V)
  BY StemIs, LenProperties DEF Viewed, Sorted
<1>2. SUFFICES ASSUME n < m PROVE FALSE
  BY <1>1
<1>3. \A k \in 1 .. m : \E a \in 1 .. n : V[a] = p[k]
  <2> TAKE k \in 1 .. m
  <2>1. p[k] \in Among(V)
    BY <1>1, StemIs
  <2> QED BY <1>1, <2>1, AmongIs DEF Viewed, Sorted
<1> DEFINE f == [k \in 1 .. m |-> CHOOSE a \in 1 .. n : V[a] = p[k]]
<1>4. \A k \in 1 .. m : f[k] \in 1 .. n /\ V[f[k]] = p[k]
  BY <1>3
<1>5. f \in [1 .. m -> 1 .. n]
  BY <1>4
<1> HIDE DEF f
<1>6. IsFiniteSet(1 .. m) /\ Cardinality(1 .. m) = m /\ IsFiniteSet(1 .. n) /\ Cardinality(1 .. n) = n
  BY FS_Interval
<1>7. PICK x \in 1 .. m, y \in 1 .. m : x # y /\ f[x] = f[y]
  BY <1>2, <1>5, <1>6, FS_PigeonHole
<1>8. p[x] = p[y]
  BY <1>4, <1>7
<1> QED BY <1>1, <1>7, <1>8, Climb

(* What Ancestry climbs.                                                   *)
Rising(g, V) ==
  g = [n \in 0 .. Len(V) |->
         [t \in Tree!Span \union {Null} |->
            IF t = Null THEN <<>>
            ELSE IF n = 0 \/ t \notin Tree!ToSet(V) THEN <<Null>>
            ELSE Append(g[n - 1][parent[t]], t)]]

LEMMA AncestryIs ==
  ASSUME NEW s PROVE Tree!Ancestry(s) = (CHOOSE g : Rising(g, Tree!View))[Len(Tree!View)][s]
BY DEF Tree!Ancestry, Rising

Rises(h, V) ==
  \A n \in 0 .. Len(V) : \A t \in Tree!Span \union {Null} :
    h[n][t] = IF t = Null THEN <<>>
              ELSE IF n = 0 \/ t \notin Among(V) THEN <<Null>>
              ELSE Append(h[n - 1][parent[t]], t)

LEMMA RisingIsThere ==
  ASSUME NEW V, Viewed(V) PROVE \E h : h = (CHOOSE g : Rising(g, V)) /\ Rises(h, V)
<1>0. PICK n \in Nat : n = Len(V)
  BY LenProperties DEF Viewed, Sorted
<1>1. PICK D : D = Tree!Span \union {Null}
  OBVIOUS
<1>2. Among(V) \subseteq D /\ \A s \in Among(V) : parent[s] \in D
  BY <1>1, AmongIs DEF Viewed, Sorted
<1> DEFINE W == [D -> Seq(D)]
           step == [i \in 1 .. n |-> [v \in W |->
                      [t \in D |-> IF t = Null THEN <<>>
                                   ELSE IF t \notin Among(V) THEN <<Null>>
                                   ELSE Append(v[parent[t]], t)]]]
           base == [t \in D |-> IF t = Null THEN <<>> ELSE <<Null>>]
<1>3. Null \in D /\ <<>> \in Seq(D) /\ <<Null>> \in Seq(D)
  BY <1>1
<1>4. base \in W
  BY <1>3
<1>5. ASSUME NEW v \in W, NEW t \in Among(V) PROVE Append(v[parent[t]], t) \in Seq(D)
  <2>1. v[parent[t]] \in Seq(D) /\ t \in D
    BY <1>2
  <2> QED BY <2>1, AppendProperties
<1>6. step \in [1 .. n -> [W -> W]]
  <2>1. ASSUME NEW v \in W
        PROVE  [t \in D |-> IF t = Null THEN <<>>
                            ELSE IF t \notin Among(V) THEN <<Null>>
                            ELSE Append(v[parent[t]], t)] \in W
    BY <1>3, <1>5
  <2> HIDE DEF W
  <2> QED BY <2>1
<1>7. PICK g \in [0 .. n -> W] : Walking(g, n, base, step)
  <2> HIDE DEF step, W, base
  <2> QED BY <1>4, <1>6, WalkIsThere
<1>8. ASSUME NEW i \in 1 .. n
      PROVE  g[i] = [t \in D |-> IF t = Null THEN <<>>
                                 ELSE IF t \notin Among(V) THEN <<Null>>
                                 ELSE Append(g[i - 1][parent[t]], t)]
  <2>1. g[i] = step[i][g[i - 1]]
    <3> HIDE DEF step, base
    <3> QED BY <1>7 DEF Walking
  <2>2. g[i - 1] \in W
    <3> HIDE DEF W
    <3> QED BY <1>7
  <2> HIDE DEF W
  <2> QED BY <2>1, <2>2
<1>9. g[0] = [t \in D |-> IF t = Null THEN <<>> ELSE <<Null>>]
  <2>1. g[0] = base
    <3> HIDE DEF base, step
    <3> QED BY <1>7 DEF Walking
  <2> QED BY <2>1
<1> HIDE DEF step, W, base
<1>10. Rising(g, V)
  <2> DEFINE nth(i) == [t \in D |-> IF t = Null THEN <<>>
                                   ELSE IF i = 0 \/ t \notin Among(V) THEN <<Null>>
                                   ELSE Append(g[i - 1][parent[t]], t)]
  <2>1. ASSUME NEW i \in 0 .. n PROVE g[i] = nth(i)
    <3>1. CASE i = 0
      BY <1>9, <3>1
    <3>2. CASE i # 0
      <4>1. i \in 1 .. n
        BY <3>2
      <4>2. g[i] = [t \in D |-> IF t = Null THEN <<>>
                                ELSE IF t \notin Among(V) THEN <<Null>>
                                ELSE Append(g[i - 1][parent[t]], t)]
        BY <1>8, <4>1
      <4> QED BY <3>2, <4>2
    <3> QED BY <3>1, <3>2
  <2>2. g = [i \in 0 .. n |-> g[i]]
    BY <1>7
  <2>3. g = [i \in 0 .. n |-> nth(i)]
    <3> HIDE DEF nth
    <3> QED BY <2>1, <2>2
  <2> QED BY <1>0, <1>1, <2>3 DEF Rising, Among
<1>11. PICK h : h = CHOOSE f : Rising(f, V)
  OBVIOUS
<1>12. Rising(h, V)
  BY <1>10, <1>11
<1>13. Rises(h, V)
  <2> SUFFICES ASSUME NEW i \in 0 .. n, NEW t \in D
               PROVE  h[i][t] = IF t = Null THEN <<>>
                                ELSE IF i = 0 \/ t \notin Among(V) THEN <<Null>>
                                ELSE Append(h[i - 1][parent[t]], t)
    BY <1>0, <1>1 DEF Rises
  <2>1. h[i] = [u \in D |-> IF u = Null THEN <<>>
                            ELSE IF i = 0 \/ u \notin Tree!ToSet(V) THEN <<Null>>
                            ELSE Append(h[i - 1][parent[u]], u)]
    BY <1>0, <1>1, <1>12 DEF Rising
  <2> QED BY <2>1 DEF Among
<1> QED BY <1>11, <1>13

(* A stem is the ancestry of its last span, and the spans whose ancestors  *)
(* are all there are those at the end of a stem.                           *)
LEMMA StemRises ==
  ASSUME Tree!TreeAssumption, NEW V, Viewed(V), NEW h, Rises(h, V), NEW p, Stem(V, p)
  PROVE  \A i \in 1 .. Len(p) : h[Len(V)][p[i]] = SubSeq(p, 1, i)
<1>0. PICK n \in Nat, m \in Nat : n = Len(V) /\ m = Len(p) /\ m <= n
  BY StemIs, StemFits, LenProperties DEF Viewed, Sorted
<1>1. \A i \in 1 .. m : /\ p[i] \in Among(V) /\ p[i] \in Tree!Span /\ p[i] # Null
                        /\ parent[p[i]] = Over(p, i)
  BY <1>0, StemIs DEF Stem
<1>2. \A k \in 0 .. n : h[k][Null] = <<>>
  BY <1>0 DEF Rises
<1>3. p \in Seq(Among(V))
  BY DEF Stem
<1> DEFINE S == {k \in 0 .. n : \A i \in 1 .. m : i <= k => h[k][p[i]] = SubSeq(p, 1, i)}
<1>4. 0 \in S
  OBVIOUS
<1>5. ASSUME NEW k \in 0 .. n, k < n, k \in S PROVE k + 1 \in S
  <2>1. k + 1 \in 0 .. n /\ k + 1 # 0 /\ (k + 1) - 1 = k
    BY <1>5
  <2>2. ASSUME NEW i \in 1 .. m, i <= k + 1 PROVE h[k + 1][p[i]] = SubSeq(p, 1, i)
    <3>1. h[k + 1][p[i]] = Append(h[k][parent[p[i]]], p[i])
      BY <1>0, <1>1, <2>1 DEF Rises
    <3>2. CASE i = 1
      <4>1. h[k + 1][p[i]] = Append(<<>>, p[1])
        BY <1>1, <1>2, <3>1, <3>2 DEF Over
      <4>2. SubSeq(p, 1, 1) \in Seq(Among(V)) /\ Len(SubSeq(p, 1, 1)) = 1 /\ SubSeq(p, 1, 1)[1] = p[1]
        <5>1. 1 \in 0 .. Len(p) /\ 1 \in 1 .. 1
          BY <1>0, <3>2
        <5> QED BY <1>3, <5>1, TopOfLines
      <4>3. Append(<<>>, p[1]) = SubSeq(p, 1, 1)
        BY <4>2
      <4> QED BY <3>2, <4>1, <4>3
    <3>3. CASE i # 1
      <4>1. i - 1 \in 1 .. m /\ i - 1 <= k /\ i - 1 \in 0 .. m
        BY <2>2, <3>3
      <4>2. h[k][p[i - 1]] = SubSeq(p, 1, i - 1)
        BY <1>5, <4>1
      <4>3. h[k + 1][p[i]] = Append(SubSeq(p, 1, i - 1), p[i])
        BY <1>1, <3>1, <3>3, <4>2 DEF Over
      <4>4. Append(SubSeq(p, 1, i - 1), p[i]) = SubSeq(p, 1, i)
        <5>1. PICK u \in Seq(Among(V)) : u = SubSeq(p, 1, i - 1) /\ Len(u) = i - 1
                /\ \A j \in 1 .. i - 1 : u[j] = p[j]
          BY <1>0, <1>3, <4>1, TopOfLines
        <5>2. PICK w \in Seq(Among(V)) : w = SubSeq(p, 1, i) /\ Len(w) = i
                /\ \A j \in 1 .. i : w[j] = p[j]
          <6>1. i \in 0 .. Len(p)
            BY <1>0
          <6>2. SubSeq(p, 1, i) \in Seq(Among(V)) /\ Len(SubSeq(p, 1, i)) = i
                /\ \A j \in 1 .. i : SubSeq(p, 1, i)[j] = p[j]
            BY <1>3, <6>1, TopOfLines
          <6> QED BY <6>2
        <5>3. p[i] \in Among(V)
          BY <1>1
        <5>4. /\ Append(u, p[i]) \in Seq(Among(V)) /\ Len(Append(u, p[i])) = (i - 1) + 1
              /\ \A j \in 1 .. i - 1 : Append(u, p[i])[j] = u[j]
              /\ Append(u, p[i])[(i - 1) + 1] = p[i]
          BY <5>1, <5>3, AppendProperties
        <5>5. (i - 1) + 1 = i
          OBVIOUS
        <5>6. \A j \in 1 .. i : Append(u, p[i])[j] = w[j]
          <6> TAKE j \in 1 .. i
          <6>1. j = i \/ j \in 1 .. i - 1
            OBVIOUS
          <6> QED BY <5>1, <5>2, <5>4, <5>5, <6>1
        <5>7. Append(u, p[i]) = w
          BY <5>2, <5>4, <5>5, <5>6, SeqEqual
        <5> QED BY <5>1, <5>2, <5>7
      <4> QED BY <4>3, <4>4
    <3> QED BY <3>2, <3>3
  <2> QED BY <2>1, <2>2
<1>6. n \in S
  <2> HIDE DEF S
  <2>1. \A k \in 0 .. n : k \in S
    BY <1>4, <1>5, UptoInduction
  <2> QED BY <2>1
<1>7. \A i \in 1 .. m : i <= n
  BY <1>0
<1> QED BY <1>0, <1>6, <1>7

EndsStem(V, s) == \E p : Stem(V, p) /\ Len(p) >= 1 /\ p[Len(p)] = s

LEMMA RisesFromRoot ==
  ASSUME Tree!TreeAssumption, NEW V, Viewed(V), NEW h, Rises(h, V), NEW s \in Among(V),
         Head(h[Len(V)][s]) # Null
  PROVE  EndsStem(V, s)
<1>0. PICK n \in Nat : n = Len(V)
  BY LenProperties DEF Viewed, Sorted
<1>1. PICK D : D = Tree!Span \union {Null}
  OBVIOUS
<1>2. Null \in D /\ Null \notin Tree!Span /\ Among(V) \subseteq D /\ Null \notin Among(V)
      /\ \A t \in Among(V) : parent[t] \in D
  BY <1>1, AmongIs DEF Viewed, Sorted, Tree!TreeAssumption
<1> DEFINE Climbs(x, t) == x \in Seq(D) /\ Len(x) >= 1 /\ (x[1] # Null => EndsStem(V, t))
           S == {k \in 0 .. n : \A t \in D \ {Null} : Climbs(h[k][t], t)}
<1>3. Climbs(<<Null>>, s)
  BY <1>2
<1>4. 0 \in S
  <2>1. \A t \in D \ {Null} : h[0][t] = <<Null>>
    BY <1>0, <1>1 DEF Rises
  <2>2. <<Null>> \in Seq(D) /\ Len(<<Null>>) >= 1 /\ <<Null>>[1] = Null
    BY <1>2
  <2>3. \A t \in D : Climbs(<<Null>>, t)
    BY <2>2
  <2>4. 0 \in 0 .. n
    OBVIOUS
  <2> HIDE DEF Climbs
  <2> QED BY <2>1, <2>3, <2>4
<1>5. ASSUME NEW k \in 0 .. n, k < n, k \in S PROVE k + 1 \in S
  <2>1. k + 1 \in 0 .. n /\ k + 1 # 0 /\ (k + 1) - 1 = k
    BY <1>5
  <2>2. ASSUME NEW t \in D \ {Null} PROVE Climbs(h[k + 1][t], t)
    <3>1. CASE t \notin Among(V)
      <4>1. h[k + 1][t] = <<Null>>
        BY <1>0, <1>1, <2>1, <2>2, <3>1 DEF Rises
      <4>2. <<Null>> \in Seq(D) /\ Len(<<Null>>) >= 1 /\ <<Null>>[1] = Null
        BY <1>2
      <4> QED BY <4>1, <4>2
    <3>2. CASE t \in Among(V)
      <4>1. PICK u \in D : u = parent[t]
        BY <1>2, <3>2
      <4>2. h[k + 1][t] = Append(h[k][u], t)
        BY <1>0, <1>1, <1>2, <2>1, <2>2, <3>2, <4>1 DEF Rises
      <4>3. CASE u = Null
        <5>1. h[k][u] = <<>>
          BY <1>0, <1>1, <4>3 DEF Rises
        <5>2. Append(<<>>, t) \in Seq(D) /\ Len(Append(<<>>, t)) = 1
          OBVIOUS
        <5>3. EndsStem(V, t)
          <6>1. PICK p : p = <<>>
            OBVIOUS
          <6>2. PICK m \in Nat : m = Len(p) /\ Stem(V, p)
            BY <6>1, NoStem
          <6>3. parent[t] = Over(p, m + 1)
            <7>1. m = 0
              BY <6>1, <6>2
            <7> QED BY <4>1, <4>3, <7>1 DEF Over
          <6>4. Stem(V, Append(p, t)) /\ Len(Append(p, t)) = m + 1 /\ Append(p, t)[m + 1] = t
            BY <3>2, <6>2, <6>3, StemAppend
          <6>5. m + 1 >= 1
            OBVIOUS
          <6> QED BY <6>4, <6>5 DEF EndsStem
        <5> QED BY <4>2, <5>1, <5>2, <5>3
      <4>4. CASE u # Null
        <5>1. PICK x \in Seq(D) : x = h[k][u] /\ Len(x) >= 1 /\ (x[1] # Null => EndsStem(V, u))
          BY <1>5, <4>1, <4>4
        <5>2. /\ Append(x, t) \in Seq(D) /\ Len(Append(x, t)) = Len(x) + 1
              /\ Append(x, t)[1] = x[1]
          <6>1. 1 \in 1 .. Len(x) /\ t \in D
            BY <2>2, <5>1, LenProperties
          <6> QED BY <6>1, AppendProperties
        <5>3. Len(x) + 1 >= 1
          BY <5>1, LenProperties
        <5>4. ASSUME x[1] # Null PROVE EndsStem(V, t)
          <6>1. PICK p : Stem(V, p) /\ Len(p) >= 1 /\ p[Len(p)] = u
            BY <5>1, <5>4 DEF EndsStem
          <6>2. Len(p) \in Nat
            BY <6>1, StemIs
          <6>3. PICK m \in Nat : m = Len(p) /\ m >= 1
            BY <6>1, <6>2
          <6>4. parent[t] = Over(p, m + 1)
            BY <4>1, <6>1, <6>3 DEF Over
          <6>5. Stem(V, Append(p, t)) /\ Len(Append(p, t)) = m + 1 /\ Append(p, t)[m + 1] = t
            BY <3>2, <6>1, <6>3, <6>4, StemAppend
          <6>6. m + 1 >= 1
            BY <6>3
          <6> QED BY <6>5, <6>6 DEF EndsStem
        <5> QED BY <4>2, <5>1, <5>2, <5>3, <5>4
      <4> QED BY <4>3, <4>4
    <3> QED BY <3>1, <3>2
  <2> HIDE DEF Climbs
  <2> QED BY <2>1, <2>2
<1>6. Climbs(h[n][s], s)
  <2>1. s \in D \ {Null}
    BY <1>2
  <2> HIDE DEF S, Climbs
  <2>2. \A k \in 0 .. n : k \in S
    BY <1>4, <1>5, UptoInduction
  <2>3. n \in S
    BY <2>2
  <2> QED BY <2>1, <2>3 DEF S
<1>7. h[n][s] \in Seq(D) /\ Len(h[n][s]) >= 1 /\ (h[n][s][1] # Null => EndsStem(V, s))
  BY <1>6
<1> HIDE DEF S, Climbs
<1>8. Head(h[n][s]) = h[n][s][1]
  BY <1>7
<1> QED BY <1>0, <1>7, <1>8

PathsOf(V, A) == \A p : Stem(V, p) /\ Len(p) >= 1 => A[p[Len(p)]] = p

LEMMA PathsFrom ==
  ASSUME Tree!TreeAssumption, NEW V, Viewed(V), NEW h, Rises(h, V), NEW A,
         \A s \in Among(V) : A[s] = h[Len(V)][s]
  PROVE  /\ PathsOf(V, A)
         /\ \A s \in Among(V) : Head(A[s]) # Null <=> EndsStem(V, s)
<1>1. ASSUME NEW p, Stem(V, p), Len(p) >= 1 PROVE p[Len(p)] \in Among(V) /\ A[p[Len(p)]] = p
  <2>1. PICK m \in Nat : m = Len(p) /\ m \in 1 .. m /\ p \in Seq(Among(V))
    BY <1>1, StemIs
  <2>2. p[m] \in Among(V)
    BY <1>1, <2>1, StemIs
  <2>3. h[Len(V)][p[m]] = SubSeq(p, 1, m)
    <3>1. \A i \in 1 .. Len(p) : h[Len(V)][p[i]] = SubSeq(p, 1, i)
      BY <1>1, StemRises
    <3> QED BY <2>1, <3>1
  <2>4. SubSeq(p, 1, m) = p
    BY <2>1, WholeIsPart
  <2> QED BY <2>1, <2>2, <2>3, <2>4
<1>2. PathsOf(V, A)
  BY <1>1 DEF PathsOf
<1>3. ASSUME NEW s \in Among(V), Head(A[s]) # Null PROVE EndsStem(V, s)
  BY <1>3, RisesFromRoot
<1>4. ASSUME NEW s \in Among(V), EndsStem(V, s) PROVE Head(A[s]) # Null
  <2>1. PICK p : Stem(V, p) /\ Len(p) >= 1 /\ p[Len(p)] = s
    BY <1>4 DEF EndsStem
  <2>2. A[s] = p
    BY <1>1, <2>1
  <2>3. p \in Seq(Among(V)) /\ p[1] # Null
    <3>1. 1 \in 1 .. Len(p)
      BY <2>1, StemIs
    <3> QED BY <2>1, <3>1, StemIs
  <2>4. Head(p) = p[1]
    BY <2>1, <2>3
  <2> QED BY <2>2, <2>3, <2>4
<1> QED BY <1>2, <1>3, <1>4

LEMMA PathsAre ==
  ASSUME Tree!TreeAssumption, NEW V, Viewed(V), V = Tree!View, NEW A,
         \A s \in Among(V) : A[s] = Tree!Ancestry(s)
  PROVE  /\ PathsOf(V, A)
         /\ \A s \in Among(V) : Head(A[s]) # Null <=> EndsStem(V, s)
<1>1. PICK h : h = (CHOOSE g : Rising(g, V)) /\ Rises(h, V)
  BY RisingIsThere
<1>2. \A s \in Among(V) : A[s] = h[Len(V)][s]
  BY <1>1, AncestryIs
<1> QED BY <1>1, <1>2, PathsFrom

-----------------------------------------------------------------------------
(* What some of the rows are, which stand for the stems that extend a stem *)
(* p: those of a length from lo up to top.  A gives the stem of a span.    *)
Extends(e, p) == Len(p) <= Len(e) /\ SubSeq(e, 1, Len(p)) = p

(* The parent's levels say whether the row's ancestors are last.           *)
Lined(x) ==
  /\ x.parentLevels \subseteq 0 .. x.level - 1
  /\ x.level >= 1 => (x.isTerminal <=> x.level - 1 \notin x.parentLevels)

Fits(V, q, p) ==
  /\ q \in Tree!Row /\ Lined(q) /\ Stem(V, p)
  /\ Len(p) = q.level + 1 /\ q.span = p[q.level + 1]

OnTree(V, A, x) ==
  /\ x.span \in Among(V) /\ Lined(x) /\ Stem(V, A[x.span])
  /\ Len(A[x.span]) = x.level + 1 /\ A[x.span][x.level + 1] = x.span

Above(V, A, F, p, lo) ==
  \A i \in 1 .. Len(F) : OnTree(V, A, F[i]) /\ Extends(A[F[i].span], p) /\ F[i].level + 1 >= lo

AllThere(V, F, p, lo, top) ==
  \A e : Stem(V, e) /\ Extends(e, p) /\ lo <= Len(e) /\ Len(e) < top =>
    \E i \in 1 .. Len(F) : F[i].span = e[Len(e)]

Once(F) == \A i, j \in 1 .. Len(F) : F[i].span = F[j].span => i = j

InTurn(A, F) == \A i \in 1 .. Len(F) : i + 1 <= Len(F) => Tree!Follows(A[F[i + 1].span], A[F[i].span])

Joins(F, i, l) ==
  \E j \in 1 .. Len(F) : i < j /\ F[j].level = l /\ \A k \in 1 .. Len(F) : i < k /\ k <= j => F[k].level >= l

Joined(F, p) ==
  \A i \in 1 .. Len(F) : \A l \in Nat :
    l >= 1 /\ l >= Len(p) /\ l <= F[i].level => (l - 1 \in F[i].parentLevels <=> Joins(F, i, l))

Inherit(F, p, P) ==
  \A i \in 1 .. Len(F) : \A l \in Nat : l >= 1 /\ l < Len(p) => (l - 1 \in F[i].parentLevels <=> l - 1 \in P)

Bunch(V, A, F, p, P, lo, top) ==
  /\ F \in Seq(Tree!Row) /\ Above(V, A, F, p, lo) /\ AllThere(V, F, p, lo, top)
  /\ Once(F) /\ InTurn(A, F) /\ Joined(F, p) /\ Inherit(F, p, P)

(* The rows of a span and of what is below it begin with its own.          *)
Begins(F, q) == Len(F) >= 1 /\ F[1] = q /\ \A i \in 1 .. Len(F) : i > 1 => F[i].level > q.level

(* Siblings, with a row for each of them, and the rows of each.            *)
Siblings(V, p, P, ch, R) ==
  /\ Stem(V, p) /\ ch = Tree!Children(V, Over(p, Len(p) + 1))
  /\ Len(R) = Len(ch)
  /\ \A c \in 1 .. Len(ch) :
       /\ Fits(V, R[c], Append(p, ch[c]))
       /\ \A l \in Nat : l >= 1 /\ l < Len(p) => (l - 1 \in R[c].parentLevels <=> l - 1 \in P)
       /\ Len(p) >= 1 => (Len(p) - 1 \in R[c].parentLevels <=> c # Len(ch))

Branches(V, A, p, ch, R, B, top) ==
  /\ B \in Seq(Seq(Tree!Row)) /\ Len(B) = Len(ch)
  /\ \A c \in 1 .. Len(ch) :
       Bunch(V, A, B[c], Append(p, ch[c]), R[c].parentLevels, Len(p) + 1, top)
  /\ \/ \A c \in 1 .. Len(ch) : B[c] = <<>>
     \/ \A c \in 1 .. Len(ch) : Begins(B[c], R[c])

LEMMA ExtendsMore ==
  ASSUME Tree!TreeAssumption, NEW V, Viewed(V), NEW p, Stem(V, p), NEW s \in Among(V),
         parent[s] = Over(p, Len(p) + 1), NEW e, Stem(V, e)
  PROVE  Extends(e, Append(p, s)) <=> Extends(e, p) /\ Len(e) >= Len(p) + 1 /\ e[Len(p) + 1] = s
<1>0. PICK n \in Nat, m \in Nat : n = Len(p) /\ m = Len(e)
  BY StemIs
<1>1. PICK q : q = Append(p, s) /\ Len(q) = n + 1 /\ q[n + 1] = s /\ \A i \in 1 .. n : q[i] = p[i]
  <2>1. /\ Len(Append(p, s)) = Len(p) + 1 /\ Append(p, s)[Len(p) + 1] = s
        /\ \A i \in 1 .. Len(p) : Append(p, s)[i] = p[i]
    BY StemAppend
  <2> QED BY <1>0, <2>1
<1>2. q \in Seq(Among(V)) /\ p \in Seq(Among(V)) /\ e \in Seq(Among(V))
  BY <1>1, StemAppend DEF Stem
<1>3. \A k \in 0 .. m : SubSeq(e, 1, k) \in Seq(Among(V)) /\ Len(SubSeq(e, 1, k)) = k
                        /\ \A i \in 1 .. k : SubSeq(e, 1, k)[i] = e[i]
  BY <1>0, <1>2, TopOfLines
<1>4. ASSUME Extends(e, q) PROVE Extends(e, p) /\ m >= n + 1 /\ e[n + 1] = s
  <2>1. n + 1 <= m /\ SubSeq(e, 1, n + 1) = q
    BY <1>0, <1>1, <1>4 DEF Extends
  <2>2. n \in 0 .. m /\ n + 1 \in 0 .. m
    BY <2>1
  <2>3. \A i \in 1 .. n + 1 : q[i] = e[i]
    BY <1>3, <2>1, <2>2
  <2>4. SubSeq(e, 1, n) = p
    <3>1. PICK u \in Seq(Among(V)) : u = SubSeq(e, 1, n) /\ Len(u) = n /\ \A i \in 1 .. n : u[i] = e[i]
      BY <1>3, <2>2
    <3>2. \A i \in 1 .. n : i \in 1 .. n + 1
      OBVIOUS
    <3>3. \A i \in 1 .. n : u[i] = p[i]
      BY <1>1, <2>3, <3>1, <3>2
    <3>4. u = p
      BY <1>0, <1>2, <3>1, <3>3, SeqEqual
    <3> QED BY <3>1, <3>4
  <2>5. e[n + 1] = s
    <3>1. n + 1 \in 1 .. n + 1
      OBVIOUS
    <3> QED BY <1>1, <2>3, <3>1
  <2> QED BY <1>0, <2>1, <2>4, <2>5 DEF Extends
<1>5. ASSUME Extends(e, p), m >= n + 1, e[n + 1] = s PROVE Extends(e, q)
  <2>1. SubSeq(e, 1, n) = p /\ n \in 0 .. m /\ n + 1 \in 0 .. m
    BY <1>0, <1>5 DEF Extends
  <2>2. PICK u \in Seq(Among(V)) : u = SubSeq(e, 1, n + 1) /\ Len(u) = n + 1
          /\ \A i \in 1 .. n + 1 : u[i] = e[i]
    BY <1>3, <2>1
  <2>3. \A i \in 1 .. n : p[i] = e[i]
    BY <1>3, <2>1
  <2>4. ASSUME NEW i \in 1 .. n + 1 PROVE u[i] = q[i]
    <3>1. i = n + 1 \/ i \in 1 .. n
      OBVIOUS
    <3> QED BY <1>1, <1>5, <2>2, <2>3, <3>1
  <2>5. u = q
    BY <1>1, <1>2, <2>2, <2>4, SeqEqual
  <2> QED BY <1>0, <1>1, <1>5, <2>2, <2>5 DEF Extends
<1> QED BY <1>0, <1>1, <1>4, <1>5

(* The children of a stem's end, and what they make of it.                 *)
LEMMA SiblingsAre ==
  ASSUME Tree!TreeAssumption, NEW V, Viewed(V), NEW p, NEW P, NEW ch, NEW R, Siblings(V, p, P, ch, R)
  PROVE  /\ Len(p) \in Nat /\ Len(ch) \in Nat /\ Sorted(ch)
         /\ \A c \in 1 .. Len(ch) : /\ ch[c] \in Among(V) /\ parent[ch[c]] = Over(p, Len(p) + 1)
                                    /\ Stem(V, Append(p, ch[c]))
                                    /\ Len(Append(p, ch[c])) = Len(p) + 1
                                    /\ R[c].level = Len(p) /\ R[c].span = ch[c]
         /\ \A s \in Among(V) : parent[s] = Over(p, Len(p) + 1) => \E c \in 1 .. Len(ch) : ch[c] = s
         /\ \A c, d \in 1 .. Len(ch) : ch[c] = ch[d] => c = d
<1>0. PICK u : u = Over(p, Len(p) + 1)
  OBVIOUS
<1>1. Stem(V, p) /\ ch = Tree!Children(V, u)
  BY <1>0 DEF Siblings
<1>2. PICK n \in Nat : n = Len(p)
  BY <1>1, StemIs
<1>3. /\ Sorted(ch) /\ ch \in Seq(Tree!Span)
      /\ \A x : x \in Among(ch) <=> x \in Among(V) /\ parent[x] = u
  BY <1>1, ChildrenAre DEF Viewed
<1>4. PICK k \in Nat : k = Len(ch)
  BY <1>3, LenProperties
<1>5. /\ \A x : x \in Among(ch) <=> \E i \in 1 .. k : ch[i] = x
      /\ \A i \in 1 .. k : ch[i] \in Among(ch)
  BY <1>3, <1>4, AmongIs
<1>6. ASSUME NEW c \in 1 .. k
      PROVE  /\ ch[c] \in Among(V) /\ parent[ch[c]] = u
             /\ Stem(V, Append(p, ch[c])) /\ Len(Append(p, ch[c])) = n + 1
             /\ R[c].level = n /\ R[c].span = ch[c]
  <2>1. PICK s : s = ch[c] /\ s \in Among(V) /\ parent[s] = u
    BY <1>3, <1>5
  <2>2. Stem(V, Append(p, s)) /\ Len(Append(p, s)) = n + 1 /\ Append(p, s)[n + 1] = s
    BY <1>0, <1>1, <1>2, <2>1, StemAppend
  <2>3. Fits(V, R[c], Append(p, s))
    BY <1>4, <2>1 DEF Siblings
  <2>4. PICK l \in Nat : l = R[c].level
    BY <2>3 DEF Fits, Tree!Row
  <2>5. n + 1 = l + 1 /\ R[c].span = Append(p, s)[l + 1]
    BY <2>2, <2>3, <2>4 DEF Fits
  <2>6. l = n
    BY <2>5
  <2> QED BY <2>1, <2>2, <2>4, <2>5, <2>6
<1>7. \A c, d \in 1 .. k : ch[c] = ch[d] => c = d
  BY <1>3, <1>4, SortedOnce
<1> QED BY <1>0, <1>2, <1>3, <1>4, <1>5, <1>6, <1>7

LEMMA LaidIs ==
  ASSUME NEW S, NEW B \in Seq(Seq(S)), NEW F, NEW o, Laid(o, B, F)
  PROVE  /\ Len(F) \in Nat /\ Len(B) \in Nat /\ \A c \in 0 .. Len(B) : o[c] \in Nat
         /\ \A c \in 1 .. Len(B) : o[c] = o[c - 1] + Len(B[c]) /\ o[c] <= Len(F) /\ Len(B[c]) \in Nat
         /\ \A c, d \in 1 .. Len(B) : c < d => o[c] <= o[d - 1]
         /\ \A c \in 1 .. Len(B) : \A i \in 1 .. Len(B[c]) :
              o[c - 1] + i \in 1 .. Len(F) /\ F[o[c - 1] + i] = B[c][i]
         /\ \A x \in 1 .. Len(F) : \E c \in 1 .. Len(B) : \E i \in 1 .. Len(B[c]) :
              x = o[c - 1] + i /\ F[x] = B[c][i]
<1>0. PICK n \in Nat : n = Len(B) /\ Len(Lengths(B)) = n /\ Lengths(B) \in Seq(Nat)
  BY LengthsType
<1>1. AddsUp(o, Lengths(B)) /\ LaidUpTo(o, B, n, F)
      /\ \A x \in 1 .. Len(F) : \E c \in 1 .. n : \E i \in 1 .. Len(B[c]) : x = o[c - 1] + i
  BY <1>0 DEF Laid
<1>2. \A c \in 1 .. n : Len(B[c]) \in Nat /\ Lengths(B)[c] = Len(B[c])
  BY <1>0, LengthsType
<1>3. \A c \in 0 .. n : o[c] \in Nat
  BY <1>0, <1>1 DEF AddsUp
<1>4. \A i, j \in 0 .. n : i <= j => o[i] <= o[j]
  BY <1>0, <1>1, SumsRise
<1>5. Len(F) = o[n] /\ Len(F) \in Nat
  <2>1. n \in 0 .. n
    OBVIOUS
  <2>2. o[n] \in Nat
    BY <1>3, <2>1
  <2> QED BY <1>1, <2>2 DEF LaidUpTo
<1>6. ASSUME NEW c \in 1 .. n PROVE o[c] = o[c - 1] + Len(B[c]) /\ o[c] <= Len(F)
  <2>1. o[c] = o[c - 1] + Lengths(B)[c]
    BY <1>0, <1>1 DEF AddsUp
  <2>2. c \in 0 .. n /\ n \in 0 .. n /\ c <= n
    OBVIOUS
  <2>3. o[c] <= o[n]
    BY <1>4, <2>2
  <2> QED BY <1>2, <1>5, <2>1, <2>3
<1>7. ASSUME NEW c \in 1 .. n, NEW d \in 1 .. n, c < d PROVE o[c] <= o[d - 1]
  <2>1. c \in 0 .. n /\ d - 1 \in 0 .. n /\ c <= d - 1
    BY <1>7
  <2> QED BY <1>4, <2>1
<1>8. ASSUME NEW c \in 1 .. n, NEW i \in 1 .. Len(B[c])
      PROVE  o[c - 1] + i \in 1 .. Len(F) /\ F[o[c - 1] + i] = B[c][i]
  <2>1. F[o[c - 1] + i] = B[c][i]
    BY <1>1 DEF LaidUpTo
  <2>2. PICK k \in Nat, m \in Nat, f \in Nat : k = Len(B[c]) /\ m = o[c - 1] /\ f = Len(F)
    <3>1. c - 1 \in 0 .. n /\ Len(B[c]) \in Nat
      BY <1>2
    <3> QED BY <1>3, <1>5, <3>1
  <2>3. m + k <= f
    BY <1>6, <2>2
  <2>4. m + i \in 1 .. f
    BY <2>2, <2>3
  <2> QED BY <2>1, <2>2, <2>4
<1>9. ASSUME NEW x \in 1 .. Len(F)
      PROVE  \E c \in 1 .. n : \E i \in 1 .. Len(B[c]) : x = o[c - 1] + i /\ F[x] = B[c][i]
  <2>1. PICK c \in 1 .. n : \E i \in 1 .. Len(B[c]) : x = o[c - 1] + i
    BY <1>1
  <2>2. PICK i \in 1 .. Len(B[c]) : x = o[c - 1] + i
    BY <2>1
  <2>3. F[o[c - 1] + i] = B[c][i]
    BY <1>8
  <2> QED BY <2>2, <2>3
<1> QED BY <1>0, <1>2, <1>3, <1>5, <1>6, <1>7, <1>8, <1>9

Grove(V, A, p, P, ch, R, B, top, F, o) ==
  /\ Tree!TreeAssumption /\ Viewed(V) /\ PathsOf(V, A)
  /\ Siblings(V, p, P, ch, R) /\ Branches(V, A, p, ch, R, B, top)
  /\ F \in Seq(Tree!Row) /\ Laid(o, B, F)

Placed(V, A, p, ch, R, B, F, o, x, c, i) ==
  /\ x = o[c - 1] + i /\ F[x] = B[c][i]
  /\ OnTree(V, A, F[x]) /\ Extends(A[F[x].span], Append(p, ch[c]))
  /\ Extends(A[F[x].span], p) /\ A[F[x].span][Len(p) + 1] = ch[c]
  /\ F[x].level \in Nat /\ F[x].level >= Len(p)
  /\ Begins(B[c], R[c])

AllPlaced(V, A, p, ch, R, B, F, o) ==
  \A x \in 1 .. Len(F) : \E c \in 1 .. Len(ch) : \E i \in 1 .. Len(B[c]) :
    Placed(V, A, p, ch, R, B, F, o, x, c, i)

(* Each row of a grove is one of a branch.                                 *)
LEMMA InGrove ==
  ASSUME NEW V, NEW A, NEW p, NEW P, NEW ch, NEW R, NEW B, NEW top, NEW F, NEW o,
         Grove(V, A, p, P, ch, R, B, top, F, o)
  PROVE  AllPlaced(V, A, p, ch, R, B, F, o)
<1> SUFFICES ASSUME NEW x \in 1 .. Len(F)
             PROVE  \E c \in 1 .. Len(ch) : \E i \in 1 .. Len(B[c]) :
                      Placed(V, A, p, ch, R, B, F, o, x, c, i)
  BY DEF AllPlaced
<1>1. B \in Seq(Seq(Tree!Row)) /\ Laid(o, B, F) /\ Len(B) = Len(ch)
  BY DEF Grove, Branches
<1>0. PICK c \in 1 .. Len(ch) : \E i \in 1 .. Len(B[c]) : x = o[c - 1] + i /\ F[x] = B[c][i]
  BY <1>1, LaidIs
<1>2. PICK i \in 1 .. Len(B[c]) : x = o[c - 1] + i /\ F[x] = B[c][i]
  BY <1>0
<1>3. Bunch(V, A, B[c], Append(p, ch[c]), R[c].parentLevels, Len(p) + 1, top)
  BY DEF Grove, Branches
<1>4. OnTree(V, A, F[x]) /\ Extends(A[F[x].span], Append(p, ch[c])) /\ F[x].level + 1 >= Len(p) + 1
  BY <1>2, <1>3 DEF Bunch, Above
<1>5. PICK n \in Nat : n = Len(p)
  BY SiblingsAre DEF Grove
<1>6. F[x].level \in Nat
  <2>1. F[x] \in Tree!Row
    BY ElementOfSeq DEF Grove
  <2> QED BY <2>1 DEF Tree!Row
<1>7. Begins(B[c], R[c])
  <2>1. B[c] # <<>>
    BY <1>2
  <2> QED BY <2>1 DEF Grove, Branches
<1>8. Extends(A[F[x].span], p) /\ A[F[x].span][n + 1] = ch[c]
  <2>1. ch[c] \in Among(V) /\ parent[ch[c]] = Over(p, Len(p) + 1)
    BY SiblingsAre DEF Grove
  <2>2. Stem(V, p) /\ Stem(V, A[F[x].span]) /\ Viewed(V) /\ Tree!TreeAssumption
    BY <1>4 DEF Grove, Siblings, OnTree
  <2> QED BY <1>4, <1>5, <2>1, <2>2, ExtendsMore
<1>9. F[x].level >= n
  BY <1>4, <1>5, <1>6
<1>10. Placed(V, A, p, ch, R, B, F, o, x, c, i)
  BY <1>2, <1>4, <1>5, <1>6, <1>7, <1>8, <1>9 DEF Placed
<1> QED BY <1>10

LEMMA GroveAbove ==
  ASSUME NEW V, NEW A, NEW p, NEW P, NEW ch, NEW R, NEW B, NEW top, NEW F, NEW o,
         Grove(V, A, p, P, ch, R, B, top, F, o)
  PROVE  Above(V, A, F, p, Len(p) + 1)
<1>1. PICK n \in Nat : n = Len(p)
  BY SiblingsAre DEF Grove
<1>2. ASSUME NEW x \in 1 .. Len(F)
      PROVE  OnTree(V, A, F[x]) /\ Extends(A[F[x].span], p) /\ F[x].level + 1 >= n + 1
  <2>0. AllPlaced(V, A, p, ch, R, B, F, o)
    BY InGrove
  <2>1. OnTree(V, A, F[x]) /\ Extends(A[F[x].span], p) /\ F[x].level \in Nat /\ F[x].level >= Len(p)
    BY <2>0 DEF AllPlaced, Placed
  <2> QED BY <1>1, <2>1
<1> QED BY <1>1, <1>2 DEF Above

LEMMA GroveAll ==
  ASSUME NEW V, NEW A, NEW p, NEW P, NEW ch, NEW R, NEW B, NEW top, NEW F, NEW o,
         Grove(V, A, p, P, ch, R, B, top, F, o)
  PROVE  AllThere(V, F, p, Len(p) + 1, top)
<1>1. PICK n \in Nat : n = Len(p)
  BY SiblingsAre DEF Grove
<1>2. SUFFICES ASSUME NEW e, Stem(V, e), Extends(e, p), n + 1 <= Len(e), Len(e) < top
               PROVE  \E x \in 1 .. Len(F) : F[x].span = e[Len(e)]
  BY <1>1 DEF AllThere
<1>3. PICK m \in Nat : m = Len(e)
  BY <1>2, StemIs DEF Grove
<1>4. PICK s : s = e[n + 1] /\ s \in Among(V) /\ parent[s] = Over(p, n + 1)
  <2>1. n + 1 \in 1 .. m
    BY <1>2, <1>3
  <2>2. e[n + 1] \in Among(V) /\ parent[e[n + 1]] = Over(e, n + 1)
    BY <1>2, <1>3, <2>1, StemIs DEF Grove, Stem
  <2>3. Over(e, n + 1) = Over(p, n + 1)
    <3>1. CASE n = 0
      BY <3>1 DEF Over
    <3>2. CASE n # 0
      <4>1. SubSeq(e, 1, n) = p /\ n \in 0 .. Len(e) /\ n \in 1 .. n
        BY <1>1, <1>2, <1>3, <3>2 DEF Extends
      <4>2. p[n] = e[n]
        BY <1>2, <4>1, StemTop
      <4> QED BY <3>2, <4>2 DEF Over
    <3> QED BY <3>1, <3>2
  <2> QED BY <2>2, <2>3
<1>5. PICK c \in 1 .. Len(ch) : ch[c] = s
  BY <1>1, <1>4, SiblingsAre DEF Grove
<1>6. Extends(e, Append(p, s))
  <2>1. Stem(V, p)
    BY DEF Grove, Siblings
  <2> QED BY <1>1, <1>2, <1>3, <1>4, <2>1, ExtendsMore DEF Grove
<1>7. AllThere(V, B[c], Append(p, s), n + 1, top)
  BY <1>1, <1>5 DEF Grove, Branches, Bunch
<1>8. PICK i \in 1 .. Len(B[c]) : B[c][i].span = e[m]
  BY <1>2, <1>3, <1>6, <1>7 DEF AllThere
<1>9. B \in Seq(Seq(Tree!Row)) /\ Laid(o, B, F) /\ c \in 1 .. Len(B)
  BY DEF Grove, Branches
<1>10. o[c - 1] + i \in 1 .. Len(F) /\ F[o[c - 1] + i] = B[c][i]
  BY <1>9, LaidIs
<1> QED BY <1>3, <1>8, <1>10

LEMMA GroveOnce ==
  ASSUME NEW V, NEW A, NEW p, NEW P, NEW ch, NEW R, NEW B, NEW top, NEW F, NEW o,
         Grove(V, A, p, P, ch, R, B, top, F, o)
  PROVE  Once(F)
<1>0. ASSUME NEW x \in 1 .. Len(F)
      PROVE  \E c \in 1 .. Len(ch) : \E i \in 1 .. Len(B[c]) :
               x = o[c - 1] + i /\ F[x] = B[c][i] /\ A[F[x].span][Len(p) + 1] = ch[c]
  <2>1. AllPlaced(V, A, p, ch, R, B, F, o)
    BY InGrove
  <2> QED BY <2>1 DEF AllPlaced, Placed
<1> SUFFICES ASSUME NEW x \in 1 .. Len(F), NEW y \in 1 .. Len(F), F[x].span = F[y].span
             PROVE  x = y
  BY DEF Once
<1>a. PICK c \in 1 .. Len(ch) : \E i \in 1 .. Len(B[c]) :
        x = o[c - 1] + i /\ F[x] = B[c][i] /\ A[F[x].span][Len(p) + 1] = ch[c]
  BY <1>0
<1>b. PICK d \in 1 .. Len(ch) : \E i \in 1 .. Len(B[d]) :
        y = o[d - 1] + i /\ F[y] = B[d][i] /\ A[F[y].span][Len(p) + 1] = ch[d]
  BY <1>0
<1>1. PICK i \in 1 .. Len(B[c]) :
        x = o[c - 1] + i /\ F[x] = B[c][i] /\ A[F[x].span][Len(p) + 1] = ch[c]
  BY <1>a
<1>2. PICK j \in 1 .. Len(B[d]) :
        y = o[d - 1] + j /\ F[y] = B[d][j] /\ A[F[y].span][Len(p) + 1] = ch[d]
  BY <1>b
<1>3. c = d
  BY <1>1, <1>2, SiblingsAre DEF Grove
<1>4. Once(B[c])
  BY DEF Grove, Branches, Bunch
<1>5. i = j
  BY <1>1, <1>2, <1>3, <1>4 DEF Once
<1> QED BY <1>1, <1>2, <1>3, <1>5

LEMMA GroveInherits ==
  ASSUME NEW V, NEW A, NEW p, NEW P, NEW ch, NEW R, NEW B, NEW top, NEW F, NEW o,
         Grove(V, A, p, P, ch, R, B, top, F, o)
  PROVE  Inherit(F, p, P)
<1>1. PICK n \in Nat : n = Len(p)
  BY SiblingsAre DEF Grove
<1>2. SUFFICES ASSUME NEW x \in 1 .. Len(F), NEW l \in Nat, l >= 1, l < n
               PROVE  l - 1 \in F[x].parentLevels <=> l - 1 \in P
  BY <1>1 DEF Inherit
<1>a. AllPlaced(V, A, p, ch, R, B, F, o)
  BY InGrove
<1>0. PICK c \in 1 .. Len(ch) : \E i \in 1 .. Len(B[c]) : F[x] = B[c][i]
  BY <1>a DEF AllPlaced, Placed
<1>3. PICK i \in 1 .. Len(B[c]) : F[x] = B[c][i]
  BY <1>0
<1>4. Inherit(B[c], Append(p, ch[c]), R[c].parentLevels)
  BY DEF Grove, Branches, Bunch
<1>5. Len(Append(p, ch[c])) = n + 1
  BY <1>1, SiblingsAre DEF Grove
<1>6. l - 1 \in F[x].parentLevels <=> l - 1 \in R[c].parentLevels
  <2>1. l < n + 1
    BY <1>2
  <2> QED BY <1>2, <1>3, <1>4, <1>5, <2>1 DEF Inherit
<1>7. l - 1 \in R[c].parentLevels <=> l - 1 \in P
  BY <1>1, <1>2 DEF Grove, Siblings
<1> QED BY <1>6, <1>7

(* The next row is of the same branch, or the first of a later one.        *)
LEMMA NextRow ==
  ASSUME NEW V, NEW A, NEW p, NEW P, NEW ch, NEW R, NEW B, NEW top, NEW F, NEW o,
         Grove(V, A, p, P, ch, R, B, top, F, o),
         NEW c \in 1 .. Len(ch), NEW i \in 1 .. Len(B[c]),
         NEW d \in 1 .. Len(ch), NEW j \in 1 .. Len(B[d]),
         o[d - 1] + j = o[c - 1] + i + 1
  PROVE  (d = c /\ j = i + 1) \/ (c < d /\ j = 1 /\ i = Len(B[c]))
<1>1. B \in Seq(Seq(Tree!Row)) /\ Laid(o, B, F) /\ Len(B) = Len(ch)
  BY DEF Grove, Branches
<1>2. PICK n \in Nat : n = Len(ch)
  BY SiblingsAre DEF Grove
<1>3. \A k \in 0 .. n : o[k] \in Nat
  <2>1. Len(F) \in Nat /\ Len(B) \in Nat /\ \A k \in 0 .. Len(B) : o[k] \in Nat
    BY <1>1, LaidIs
  <2> QED BY <1>1, <1>2, <2>1
<1>4. /\ \A k \in 1 .. n : o[k] = o[k - 1] + Len(B[k]) /\ Len(B[k]) \in Nat
      /\ \A k, m \in 1 .. n : k < m => o[k] <= o[m - 1]
  <2>1. \A k \in 1 .. Len(B) : o[k] = o[k - 1] + Len(B[k]) /\ o[k] <= Len(F) /\ Len(B[k]) \in Nat
    BY <1>1, LaidIs
  <2>2. \A k, m \in 1 .. Len(B) : k < m => o[k] <= o[m - 1]
    BY <1>1, LaidIs
  <2>3. Len(B) = n
    BY <1>1, <1>2
  <2> QED BY <2>1, <2>2, <2>3
<1>5. c \in 0 .. n /\ d \in 0 .. n /\ c - 1 \in 0 .. n /\ d - 1 \in 0 .. n
  BY <1>2
<1>6. PICK x \in Nat, y \in Nat, u \in Nat, v \in Nat : x = o[c - 1] /\ y = o[d - 1] /\ u = o[c] /\ v = o[d]
  BY <1>3, <1>5
<1>7. PICK k \in Nat, m \in Nat : k = Len(B[c]) /\ m = Len(B[d])
  BY <1>2, <1>4
<1>8. u = x + k /\ v = y + m /\ (c < d => u <= y) /\ (d < c => v <= x)
  BY <1>2, <1>4, <1>6, <1>7
<1>9. y + j = x + i + 1 /\ i <= k /\ j <= m /\ i >= 1 /\ j >= 1 /\ i \in Nat /\ j \in Nat
  BY <1>6, <1>7
<1>10. CASE c = d
  <2>1. x = y
    BY <1>6, <1>10
  <2> QED BY <1>9, <1>10, <2>1
<1>11. CASE c < d
  BY <1>7, <1>8, <1>9, <1>11
<1>12. CASE d < c
  BY <1>8, <1>9, <1>12
<1> QED BY <1>2, <1>10, <1>11, <1>12

(* A later child comes after what is below an earlier one.                 *)
LEMMA LaterFollows ==
  ASSUME Tree!TreeAssumption, NEW V, Viewed(V), NEW p, Stem(V, p), NEW s \in Among(V),
         parent[s] = Over(p, Len(p) + 1), NEW a, Stem(V, a), Extends(a, p), Len(a) >= Len(p) + 1,
         Tree!Earlier(a[Len(p) + 1], s)
  PROVE  Tree!Follows(Append(p, s), a)
<1>1. PICK n \in Nat, m \in Nat : n = Len(p) /\ m = Len(a)
  BY StemIs
<1>2. /\ Len(Append(p, s)) = Len(p) + 1 /\ Append(p, s)[Len(p) + 1] = s
      /\ SubSeq(Append(p, s), 1, Len(p)) = p
  BY StemAppend
<1>3. PICK b : b = Append(p, s) /\ Len(b) = n + 1 /\ b[n + 1] = s /\ SubSeq(b, 1, n) = p
  BY <1>1, <1>2
<1>4. Len(b) - 1 = n
  BY <1>3
<1>5. Tree!Front(b) = SubSeq(b, 1, Len(b) - 1) /\ Tree!Last(b) = b[Len(b)]
  BY DEF Tree!Front, Tree!Last
<1>6. Tree!Front(b) = p /\ Tree!Last(b) = s
  BY <1>3, <1>4, <1>5
<1>7. SubSeq(a, 1, n) = p /\ n + 1 <= m
  BY <1>1 DEF Extends
<1>8. Len(b) <= Len(a) /\ Tree!Front(b) = SubSeq(a, 1, Len(b) - 1) /\ Tree!Earlier(a[Len(b)], Tree!Last(b))
  BY <1>1, <1>3, <1>4, <1>6, <1>7
<1>9. Tree!Follows(b, a)
  BY <1>8 DEF Tree!Follows
<1> QED BY <1>3, <1>9

LEMMA GroveTurns ==
  ASSUME NEW V, NEW A, NEW p, NEW P, NEW ch, NEW R, NEW B, NEW top, NEW F, NEW o,
         Grove(V, A, p, P, ch, R, B, top, F, o)
  PROVE  InTurn(A, F)
<1>0. AllPlaced(V, A, p, ch, R, B, F, o)
  BY InGrove
<1>1. PICK n \in Nat, k \in Nat : n = Len(p) /\ k = Len(F)
  BY SiblingsAre, LenProperties DEF Grove
<1>2. SUFFICES ASSUME NEW x \in 1 .. k, x + 1 <= k
               PROVE  Tree!Follows(A[F[x + 1].span], A[F[x].span])
  BY <1>1 DEF InTurn
<1>3. x \in 1 .. k /\ x + 1 \in 1 .. k
  BY <1>2
<1>4. PICK c \in 1 .. Len(ch) : \E i \in 1 .. Len(B[c]) :
        /\ x = o[c - 1] + i /\ F[x] = B[c][i] /\ A[F[x].span][n + 1] = ch[c]
        /\ OnTree(V, A, F[x]) /\ Extends(A[F[x].span], p) /\ F[x].level \in Nat /\ F[x].level >= n
  BY <1>0, <1>1, <1>3 DEF AllPlaced, Placed
<1>5. PICK i \in 1 .. Len(B[c]) :
        /\ x = o[c - 1] + i /\ F[x] = B[c][i] /\ A[F[x].span][n + 1] = ch[c]
        /\ OnTree(V, A, F[x]) /\ Extends(A[F[x].span], p) /\ F[x].level \in Nat /\ F[x].level >= n
  BY <1>4
<1>6. PICK d \in 1 .. Len(ch) : \E j \in 1 .. Len(B[d]) :
        x + 1 = o[d - 1] + j /\ F[x + 1] = B[d][j] /\ Begins(B[d], R[d])
  BY <1>0, <1>1, <1>3 DEF AllPlaced, Placed
<1>7. PICK j \in 1 .. Len(B[d]) :
        x + 1 = o[d - 1] + j /\ F[x + 1] = B[d][j] /\ Begins(B[d], R[d])
  BY <1>6
<1>8. (d = c /\ j = i + 1) \/ (c < d /\ j = 1 /\ i = Len(B[c]))
  <2>1. o[d - 1] + j = o[c - 1] + i + 1
    BY <1>5, <1>7
  <2> QED BY <2>1, NextRow
<1>9. CASE d = c /\ j = i + 1
  <2>1. InTurn(A, B[c])
    BY DEF Grove, Branches, Bunch
  <2>2. B[c] \in Seq(Tree!Row)
    BY DEF Grove, Branches, Bunch
  <2>3. PICK m \in Nat : m = Len(B[c])
    BY <2>2, LenProperties
  <2>4. i \in 1 .. Len(B[c]) /\ i + 1 <= Len(B[c])
    BY <1>7, <1>9, <2>3
  <2>5. Tree!Follows(A[B[c][i + 1].span], A[B[c][i].span])
    BY <2>1, <2>4 DEF InTurn
  <2> QED BY <1>5, <1>7, <1>9, <2>5
<1>10. CASE c < d /\ j = 1
  <2>1. PICK s : s = ch[d] /\ s \in Among(V) /\ parent[s] = Over(p, n + 1) /\ Stem(V, Append(p, s))
          /\ Len(Append(p, s)) = n + 1 /\ R[d].span = s
    BY <1>1, SiblingsAre DEF Grove
  <2>2. F[x + 1].span = s
    BY <1>7, <1>10, <2>1 DEF Begins
  <2>3. Stem(V, p) /\ PathsOf(V, A) /\ Viewed(V) /\ Tree!TreeAssumption
    BY DEF Grove, Siblings
  <2>4. Append(p, s)[n + 1] = s
    BY <1>1, <2>1, <2>3, StemAppend
  <2>5. A[s] = Append(p, s)
    <3>1. PICK e : e = Append(p, s) /\ Stem(V, e) /\ Len(e) = n + 1 /\ e[n + 1] = s
      BY <2>1, <2>4
    <3>2. Len(e) >= 1
      BY <3>1
    <3>3. A[e[Len(e)]] = e
      BY <2>3, <3>1, <3>2 DEF PathsOf
    <3> QED BY <3>1, <3>3
  <2>6. Stem(V, A[F[x].span]) /\ Len(A[F[x].span]) >= n + 1
    BY <1>5 DEF OnTree
  <2>7. Tree!Earlier(ch[c], ch[d])
    BY <1>10, SiblingsAre DEF Grove, Sorted
  <2>8. Tree!Follows(Append(p, s), A[F[x].span])
    BY <1>1, <1>5, <2>1, <2>3, <2>6, <2>7, LaterFollows
  <2> QED BY <2>2, <2>5, <2>8
<1> QED BY <1>8, <1>9, <1>10

LEMMA InPlace ==
  ASSUME NEW V, NEW A, NEW p, NEW P, NEW ch, NEW R, NEW B, NEW top, NEW F, NEW o,
         Grove(V, A, p, P, ch, R, B, top, F, o),
         NEW c \in 1 .. Len(ch), NEW i \in 1 .. Len(B[c]),
         NEW d \in 1 .. Len(ch), NEW j \in 1 .. Len(B[d])
  PROVE  /\ o[c - 1] \in Nat /\ o[c - 1] + i \in 1 .. Len(F) /\ F[o[c - 1] + i] = B[c][i]
         /\ o[c - 1] + i < o[d - 1] + j <=> c < d \/ (c = d /\ i < j)
<1>1. B \in Seq(Seq(Tree!Row)) /\ Laid(o, B, F) /\ Len(B) = Len(ch)
  BY DEF Grove, Branches
<1>2. PICK n \in Nat : n = Len(ch)
  BY SiblingsAre DEF Grove
<1>3. \A k \in 0 .. n : o[k] \in Nat
  <2>1. Len(F) \in Nat /\ Len(B) \in Nat /\ \A k \in 0 .. Len(B) : o[k] \in Nat
    BY <1>1, LaidIs
  <2> QED BY <1>1, <1>2, <2>1
<1>4. /\ \A k \in 1 .. n : o[k] = o[k - 1] + Len(B[k]) /\ Len(B[k]) \in Nat
      /\ \A k, m \in 1 .. n : k < m => o[k] <= o[m - 1]
  <2>1. \A k \in 1 .. Len(B) : o[k] = o[k - 1] + Len(B[k]) /\ o[k] <= Len(F) /\ Len(B[k]) \in Nat
    BY <1>1, LaidIs
  <2>2. \A k, m \in 1 .. Len(B) : k < m => o[k] <= o[m - 1]
    BY <1>1, LaidIs
  <2>3. Len(B) = n
    BY <1>1, <1>2
  <2> QED BY <2>1, <2>2, <2>3
<1>5. c \in 0 .. n /\ d \in 0 .. n /\ c - 1 \in 0 .. n /\ d - 1 \in 0 .. n
  BY <1>2
<1>6. PICK x \in Nat, y \in Nat, u \in Nat, v \in Nat : x = o[c - 1] /\ y = o[d - 1] /\ u = o[c] /\ v = o[d]
  BY <1>3, <1>5
<1>7. PICK k \in Nat, m \in Nat : k = Len(B[c]) /\ m = Len(B[d])
  BY <1>2, <1>4
<1>8. u = x + k /\ v = y + m /\ (c < d => u <= y) /\ (d < c => v <= x)
  BY <1>2, <1>4, <1>6, <1>7
<1>9. i <= k /\ j <= m /\ i >= 1 /\ j >= 1 /\ i \in Nat /\ j \in Nat
  BY <1>6, <1>7
<1>10. x + i < y + j <=> c < d \/ (c = d /\ i < j)
  <2>1. CASE c = d
    <3>1. x = y
      BY <1>6, <2>1
    <3> QED BY <1>9, <2>1, <3>1
  <2>2. CASE c < d
    BY <1>8, <1>9, <2>2
  <2>3. CASE d < c
    BY <1>8, <1>9, <2>3
  <2> QED BY <1>2, <2>1, <2>2, <2>3
<1>11. c \in 1 .. Len(B)
  BY <1>1
<1>12. o[c - 1] + i \in 1 .. Len(F) /\ F[o[c - 1] + i] = B[c][i]
  BY <1>1, <1>11, LaidIs
<1> QED BY <1>6, <1>10, <1>12

LEMMA InBranch ==
  ASSUME NEW V, NEW A, NEW p, NEW P, NEW ch, NEW R, NEW B, NEW top, NEW F, NEW o,
         Grove(V, A, p, P, ch, R, B, top, F, o)
  PROVE  \A y \in 1 .. Len(F) : \E d \in 1 .. Len(ch) : \E j \in 1 .. Len(B[d]) :
           y = o[d - 1] + j /\ F[y] = B[d][j] /\ Begins(B[d], R[d])
<1>1. AllPlaced(V, A, p, ch, R, B, F, o)
  BY InGrove
<1> QED BY <1>1 DEF AllPlaced, Placed

(* A line of a branch's own stays in the branch.                           *)
LEMMA JoinsInside ==
  ASSUME NEW V, NEW A, NEW p, NEW P, NEW ch, NEW R, NEW B, NEW top, NEW F, NEW o,
         Grove(V, A, p, P, ch, R, B, top, F, o),
         NEW c \in 1 .. Len(ch), NEW i \in 1 .. Len(B[c]), NEW l \in Nat, l >= Len(p) + 1
  PROVE  Joins(F, o[c - 1] + i, l) <=> Joins(B[c], i, l)
<1>1. PICK n \in Nat, k \in Nat : n = Len(p) /\ k = Len(F)
  BY SiblingsAre, LenProperties DEF Grove
<1>2. PICK s \in Nat : s = o[c - 1]
  BY InPlace
<1>3. ASSUME NEW j \in 1 .. Len(B[c])
      PROVE  s + j \in 1 .. k /\ F[s + j] = B[c][j]
  BY <1>1, <1>2, <1>3, InPlace
<1>4. ASSUME NEW d \in 1 .. Len(ch), NEW j \in 1 .. Len(B[d])
      PROVE  s + i < o[d - 1] + j <=> c < d \/ (c = d /\ i < j)
  BY <1>2, InPlace
<1>5. PICK b \in Nat : b = Len(B[c])
  <2>1. B[c] \in Seq(Tree!Row)
    BY DEF Grove, Branches, Bunch
  <2> QED BY <2>1, LenProperties
<1>6. ASSUME NEW j \in 1 .. b, i < j, B[c][j].level = l, \A q \in 1 .. b : i < q /\ q <= j => B[c][q].level >= l
      PROVE  Joins(F, s + i, l)
  <2>1. s + j \in 1 .. k /\ F[s + j].level = l /\ s + i < s + j
    BY <1>3, <1>5, <1>6
  <2>2. ASSUME NEW z \in 1 .. k, s + i < z, z <= s + j PROVE F[z].level >= l
    <3>1. PICK q \in Nat : z = s + q /\ i < q /\ q <= j
      <4>1. z - s \in Nat /\ z = s + (z - s) /\ i < z - s /\ z - s <= j
        BY <2>2
      <4> QED BY <4>1
    <3>2. q \in 1 .. b
      BY <3>1
    <3>3. B[c][q].level >= l
      BY <1>6, <3>1, <3>2
    <3> QED BY <1>3, <1>5, <3>1, <3>2, <3>3
  <2> QED BY <1>1, <2>1, <2>2 DEF Joins
<1>12. \A y \in 1 .. k : \E d \in 1 .. Len(ch) : \E j \in 1 .. Len(B[d]) :
         y = o[d - 1] + j /\ F[y] = B[d][j] /\ Begins(B[d], R[d])
  <2>1. \A y \in 1 .. Len(F) : \E d \in 1 .. Len(ch) : \E j \in 1 .. Len(B[d]) :
          y = o[d - 1] + j /\ F[y] = B[d][j] /\ Begins(B[d], R[d])
    BY InBranch
  <2> QED BY <1>1, <2>1
<1>7. ASSUME NEW y \in 1 .. k, s + i < y, F[y].level = l, \A z \in 1 .. k : s + i < z /\ z <= y => F[z].level >= l
      PROVE  Joins(B[c], i, l)
  <2>1. PICK d \in 1 .. Len(ch) : \E j \in 1 .. Len(B[d]) : y = o[d - 1] + j /\ F[y] = B[d][j] /\ Begins(B[d], R[d])
    BY <1>12
  <2>2. PICK j \in 1 .. Len(B[d]) : y = o[d - 1] + j /\ F[y] = B[d][j] /\ Begins(B[d], R[d])
    BY <2>1
  <2>3. c < d \/ (c = d /\ i < j)
    BY <1>4, <1>7, <2>2
  <2>4. c = d
    <3> SUFFICES ASSUME c < d PROVE FALSE
      BY <2>3
    <3>1. PICK m \in Nat, t \in Nat : m = Len(B[d]) /\ t = o[d - 1]
      <4>1. B[d] \in Seq(Tree!Row)
        BY DEF Grove, Branches, Bunch
      <4>2. o[d - 1] \in Nat
        BY InPlace
      <4> QED BY <4>1, <4>2, LenProperties
    <3>2. 1 \in 1 .. Len(B[d]) /\ 1 <= j
      BY <2>2, <3>1
    <3>3. t + 1 \in 1 .. k /\ F[t + 1] = B[d][1]
      BY <1>1, <3>1, <3>2, InPlace
    <3>4. s + i < t + 1 /\ t + 1 <= y
      <4>1. s + i < o[d - 1] + 1
        <5>1. \A e \in 1 .. Len(B[d]) : s + i < o[d - 1] + e
          BY <1>4
        <5> QED BY <3>2, <5>1
      <4>2. j \in Nat /\ 1 <= j /\ y = t + j
        BY <2>2, <3>1, <3>2
      <4> QED BY <3>1, <4>1, <4>2
    <3>5. F[t + 1].level >= l
      BY <1>7, <3>3, <3>4
    <3>6. F[t + 1].level = n
      BY <1>1, <2>2, <3>3, SiblingsAre DEF Begins, Grove
    <3> QED BY <1>1, <3>5, <3>6
  <2>5. i < j /\ j \in 1 .. b /\ B[c][j].level = l /\ y = s + j
    BY <1>2, <1>5, <1>7, <2>2, <2>3, <2>4
  <2>6. ASSUME NEW q \in 1 .. b, i < q, q <= j PROVE B[c][q].level >= l
    <3>1. s + q \in 1 .. k /\ F[s + q] = B[c][q]
      BY <1>3, <1>5
    <3>2. s + i < s + q /\ s + q <= y
      BY <2>5, <2>6
    <3> QED BY <1>7, <3>1, <3>2
  <2> QED BY <1>5, <2>5, <2>6 DEF Joins
<1> QED BY <1>1, <1>2, <1>5, <1>6, <1>7 DEF Joins

(* A line of the siblings' goes on below all of them but the last.         *)
LEMMA JoinsAcross ==
  ASSUME NEW V, NEW A, NEW p, NEW P, NEW ch, NEW R, NEW B, NEW top, NEW F, NEW o,
         Grove(V, A, p, P, ch, R, B, top, F, o),
         NEW c \in 1 .. Len(ch), NEW i \in 1 .. Len(B[c])
  PROVE  Joins(F, o[c - 1] + i, Len(p)) <=> c # Len(ch)
<1>0. AllPlaced(V, A, p, ch, R, B, F, o)
  BY InGrove
<1>1. PICK n \in Nat, k \in Nat, h \in Nat : n = Len(p) /\ k = Len(F) /\ h = Len(ch)
  BY SiblingsAre, LenProperties DEF Grove
<1>2. PICK s \in Nat : s = o[c - 1]
  BY InPlace
<1>3. ASSUME NEW d \in 1 .. h, NEW j \in 1 .. Len(B[d])
      PROVE  s + i < o[d - 1] + j <=> c < d \/ (c = d /\ i < j)
  BY <1>1, <1>2, InPlace
<1>4. \A d \in 1 .. h : Begins(B[d], R[d]) /\ R[d].level = n
  <2>1. B[c] # <<>>
    OBVIOUS
  <2>2. \A d \in 1 .. Len(ch) : Begins(B[d], R[d])
    BY <2>1 DEF Grove, Branches
  <2>3. \A d \in 1 .. Len(ch) : R[d].level = Len(p)
    BY SiblingsAre DEF Grove
  <2> QED BY <1>1, <2>2, <2>3
<1>5. \A x \in 1 .. k : F[x].level >= n
  BY <1>0, <1>1 DEF AllPlaced, Placed
<1>6. ASSUME c # h PROVE Joins(F, s + i, n)
  <2>1. PICK d \in 1 .. h : c < d
    <3>1. c + 1 \in 1 .. h /\ c < c + 1
      BY <1>1, <1>6
    <3> QED BY <3>1
  <2>2. 1 \in 1 .. Len(B[d]) /\ B[d][1] = R[d]
    <3>1. B[d] \in Seq(Tree!Row)
      BY <1>1 DEF Grove, Branches, Bunch
    <3>2. PICK m \in Nat : m = Len(B[d])
      BY <3>1, LenProperties
    <3> QED BY <1>4, <3>2 DEF Begins
  <2>3. PICK t \in Nat : t = o[d - 1] /\ t + 1 \in 1 .. k /\ F[t + 1] = B[d][1]
    <3>1. d \in 1 .. Len(ch)
      BY <1>1
    <3>2. o[d - 1] \in Nat /\ o[d - 1] + 1 \in 1 .. Len(F) /\ F[o[d - 1] + 1] = B[d][1]
      BY <2>2, <3>1, InPlace
    <3> QED BY <1>1, <3>2
  <2>4. s + i < t + 1
    BY <1>3, <2>1, <2>2, <2>3
  <2>5. F[t + 1].level = n
    BY <1>4, <2>2, <2>3
  <2> QED BY <1>1, <1>5, <2>3, <2>4, <2>5 DEF Joins
<1>8. \A y \in 1 .. k : \E d \in 1 .. Len(ch) : \E j \in 1 .. Len(B[d]) :
        y = o[d - 1] + j /\ F[y] = B[d][j] /\ Begins(B[d], R[d])
  <2>1. \A y \in 1 .. Len(F) : \E d \in 1 .. Len(ch) : \E j \in 1 .. Len(B[d]) :
          y = o[d - 1] + j /\ F[y] = B[d][j] /\ Begins(B[d], R[d])
    BY InBranch
  <2> QED BY <1>1, <2>1
<1>7. ASSUME NEW y \in 1 .. k, s + i < y, F[y].level = n PROVE c # h
  <2>1. PICK d \in 1 .. Len(ch) : \E j \in 1 .. Len(B[d]) : y = o[d - 1] + j /\ F[y] = B[d][j] /\ Begins(B[d], R[d])
    BY <1>8
  <2>2. PICK j \in 1 .. Len(B[d]) : y = o[d - 1] + j /\ F[y] = B[d][j] /\ Begins(B[d], R[d])
    BY <2>1
  <2>3. c < d \/ (c = d /\ i < j)
    BY <1>1, <1>3, <1>7, <2>2
  <2>4. ~(c = d /\ i < j)
    <3> SUFFICES ASSUME i < j PROVE F[y].level > n
      BY <1>1, <1>7
    <3>1. j > 1
      OBVIOUS
    <3>2. B[d][j].level > R[d].level
      BY <2>2, <3>1 DEF Begins
    <3>3. R[d].level = n
      BY <1>1, <1>4
    <3> QED BY <2>2, <3>2, <3>3
  <2> QED BY <1>1, <2>3, <2>4
<1> QED BY <1>1, <1>2, <1>6, <1>7 DEF Joins

LEMMA GroveJoins ==
  ASSUME NEW V, NEW A, NEW p, NEW P, NEW ch, NEW R, NEW B, NEW top, NEW F, NEW o,
         Grove(V, A, p, P, ch, R, B, top, F, o)
  PROVE  Joined(F, p)
<1>1. PICK n \in Nat, h \in Nat : n = Len(p) /\ h = Len(ch)
  BY SiblingsAre DEF Grove
<1>2. SUFFICES ASSUME NEW x \in 1 .. Len(F), NEW l \in Nat, l >= 1, l >= n, l <= F[x].level
               PROVE  l - 1 \in F[x].parentLevels <=> Joins(F, x, l)
  BY <1>1 DEF Joined
<1>a. AllPlaced(V, A, p, ch, R, B, F, o)
  BY InGrove
<1>0. PICK c \in 1 .. Len(ch) : \E i \in 1 .. Len(B[c]) : x = o[c - 1] + i /\ F[x] = B[c][i]
  BY <1>a DEF AllPlaced, Placed
<1>3. PICK i \in 1 .. Len(B[c]) : x = o[c - 1] + i /\ F[x] = B[c][i]
  BY <1>0
<1>4. Len(Append(p, ch[c])) = n + 1
  BY <1>1, SiblingsAre DEF Grove
<1>5. Joined(B[c], Append(p, ch[c])) /\ Inherit(B[c], Append(p, ch[c]), R[c].parentLevels)
  BY DEF Grove, Branches, Bunch
<1>6. CASE l = n
  <2>1. l < n + 1 /\ n >= 1
    BY <1>2, <1>6
  <2>2. l - 1 \in B[c][i].parentLevels <=> l - 1 \in R[c].parentLevels
    BY <1>2, <1>4, <1>5, <2>1 DEF Inherit
  <2>3. n - 1 \in R[c].parentLevels <=> c # h
    BY <1>1, <2>1 DEF Grove, Siblings
  <2>4. Joins(F, o[c - 1] + i, Len(p)) <=> c # Len(ch)
    BY JoinsAcross
  <2> QED BY <1>1, <1>3, <1>6, <2>2, <2>3, <2>4
<1>7. CASE l >= n + 1
  <2>1. l - 1 \in B[c][i].parentLevels <=> Joins(B[c], i, l)
    BY <1>2, <1>3, <1>4, <1>5, <1>7 DEF Joined
  <2>2. l >= Len(p) + 1
    BY <1>1, <1>7
  <2>3. Joins(F, o[c - 1] + i, l) <=> Joins(B[c], i, l)
    BY <2>2, JoinsInside
  <2> QED BY <1>3, <2>1, <2>3
<1>8. l = n \/ l >= n + 1
  BY <1>2
<1> QED BY <1>6, <1>7, <1>8

LEMMA SiblingsBelow ==
  ASSUME Tree!TreeAssumption, NEW V, Viewed(V), NEW q, NEW p, Fits(V, q, p),
         NEW ch, ch = Tree!Children(V, q.span), NEW R, Len(R) = Len(ch),
         \A c \in 1 .. Len(ch) : R[c] = Tree!Below(q, ch, c)
  PROVE  Siblings(V, p, q.parentLevels, ch, R)
<1>1. PICK n \in Nat, l \in Nat : n = Len(p) /\ l = q.level /\ n = l + 1
  <2>1. Len(p) \in Nat /\ q.level \in Nat /\ Len(p) = q.level + 1
    BY StemIs DEF Fits, Tree!Row
  <2> QED BY <2>1
<1>2. Stem(V, p) /\ q \in Tree!Row /\ Lined(q) /\ q.span = p[n]
  BY <1>1 DEF Fits
<1>3. Over(p, n + 1) = q.span
  <2>1. n + 1 # 1 /\ (n + 1) - 1 = n
    BY <1>1
  <2> QED BY <1>2, <2>1 DEF Over
<1>4. /\ ch \in Seq(Tree!Span) /\ \A x : x \in Among(ch) <=> x \in Among(V) /\ parent[x] = q.span
  BY ChildrenAre DEF Viewed
<1>5. PICK h \in Nat : h = Len(ch)
  BY <1>4, LenProperties
<1>6. PICK Z \in SUBSET Nat : Z = q.parentLevels /\ Z \subseteq 0 .. l - 1
  BY <1>1, <1>2 DEF Tree!Row, Lined
<1>7. ASSUME NEW c \in 1 .. h
      PROVE  /\ Fits(V, R[c], Append(p, ch[c]))
             /\ \A k \in Nat : k >= 1 /\ k < n => (k - 1 \in R[c].parentLevels <=> k - 1 \in Z)
             /\ n - 1 \in R[c].parentLevels <=> c # h
  <2>1. PICK s : s = ch[c] /\ s \in Among(V) /\ parent[s] = q.span /\ s \in Tree!Span
    <3>1. ch[c] \in Among(ch) /\ ch[c] \in Tree!Span
      BY <1>4, <1>5, AmongIs
    <3> QED BY <1>4, <3>1
  <2>2. PICK W : W = IF c = h THEN Z ELSE Z \union {l}
    OBVIOUS
  <2>3. R[c] = [span |-> s, level |-> l + 1, isTerminal |-> c = h, parentLevels |-> W]
    BY <1>1, <1>5, <1>6, <2>1, <2>2 DEF Tree!Below, Tree!RowOf
  <2>4. PICK r : r = R[c] /\ r.span = s /\ r.level = l + 1 /\ r.isTerminal = (c = h) /\ r.parentLevels = W
    BY <2>3
  <2>5. W \subseteq 0 .. l /\ (c = h <=> l \notin W)
    BY <1>6, <2>2
  <2>6. r \in Tree!Row
    <3>1. W \in SUBSET Nat /\ l + 1 \in Nat /\ (c = h) \in BOOLEAN
      BY <2>5
    <3> QED BY <2>1, <2>3, <2>4, <3>1 DEF Tree!Row
  <2>7. Lined(r)
    <3>1. (l + 1) - 1 = l
      OBVIOUS
    <3> QED BY <2>4, <2>5, <3>1 DEF Lined
  <2>8. Stem(V, Append(p, s)) /\ Len(Append(p, s)) = n + 1 /\ Append(p, s)[n + 1] = s
    <3>1. parent[s] = Over(p, Len(p) + 1)
      BY <1>1, <1>3, <2>1
    <3>2. /\ Stem(V, Append(p, s)) /\ Len(Append(p, s)) = Len(p) + 1
          /\ Append(p, s)[Len(p) + 1] = s
      BY <1>2, <2>1, <3>1, StemAppend
    <3> QED BY <1>1, <3>2
  <2>9. Fits(V, r, Append(p, s))
    <3>1. r.level + 1 = n + 1
      BY <1>1, <2>4
    <3> QED BY <2>4, <2>6, <2>7, <2>8, <3>1 DEF Fits
  <2>10. \A k \in Nat : k >= 1 /\ k < n => (k - 1 \in W <=> k - 1 \in Z)
    <3> TAKE k \in Nat
    <3>1. k < n => k - 1 # l
      BY <1>1
    <3> QED BY <2>2, <3>1
  <2>11. n - 1 \in W <=> c # h
    <3>1. n - 1 = l
      BY <1>1
    <3> QED BY <2>5, <3>1
  <2> QED BY <2>1, <2>4, <2>9, <2>10, <2>11
<1>8. ch = Tree!Children(V, Over(p, Len(p) + 1))
  BY <1>1, <1>3
<1> QED BY <1>1, <1>2, <1>5, <1>6, <1>7, <1>8 DEF Siblings

LEMMA SiblingRoots ==
  ASSUME Tree!TreeAssumption, NEW V, Viewed(V),
         NEW ch, ch = Tree!Children(V, Null), NEW R, Len(R) = Len(ch),
         \A c \in 1 .. Len(ch) : R[c] = Tree!RowOf(ch, c, 0, {})
  PROVE  Siblings(V, <<>>, {}, ch, R)
<1>0. PICK p : p = <<>>
  OBVIOUS
<1>1. Len(p) = 0
  BY <1>0
<1>3. Stem(V, p)
  BY <1>0, NoStem
<1>2. Over(p, 0 + 1) = Null
  BY DEF Over
<1>4. /\ ch \in Seq(Tree!Span) /\ \A x : x \in Among(ch) <=> x \in Among(V) /\ parent[x] = Null
  BY ChildrenAre DEF Viewed
<1>5. PICK h \in Nat : h = Len(ch)
  BY <1>4, LenProperties
<1>7. ASSUME NEW c \in 1 .. h PROVE Fits(V, R[c], Append(p, ch[c]))
  <2>1. PICK s : s = ch[c] /\ s \in Among(V) /\ parent[s] = Null /\ s \in Tree!Span
    <3>1. ch[c] \in Among(ch) /\ ch[c] \in Tree!Span
      BY <1>4, <1>5, AmongIs
    <3> QED BY <1>4, <3>1
  <2>3. R[c] = [span |-> s, level |-> 0, isTerminal |-> c = h, parentLevels |-> {}]
    BY <1>5, <2>1 DEF Tree!RowOf
  <2>4. PICK r : r = R[c] /\ r.span = s /\ r.level = 0 /\ r.isTerminal = (c = h) /\ r.parentLevels = {}
    BY <2>3
  <2>6. r \in Tree!Row
    <3>1. {} \in SUBSET Nat /\ 0 \in Nat /\ (c = h) \in BOOLEAN
      OBVIOUS
    <3> QED BY <2>1, <2>3, <2>4, <3>1 DEF Tree!Row
  <2>7. Lined(r)
    BY <2>4 DEF Lined
  <2>8. Stem(V, Append(p, s)) /\ Len(Append(p, s)) = 0 + 1 /\ Append(p, s)[0 + 1] = s
    <3>1. parent[s] = Over(p, Len(p) + 1)
      BY <1>1, <1>2, <2>1
    <3>2. /\ Stem(V, Append(p, s)) /\ Len(Append(p, s)) = Len(p) + 1
          /\ Append(p, s)[Len(p) + 1] = s
      BY <1>3, <2>1, <3>1, StemAppend
    <3> QED BY <1>1, <3>2
  <2> QED BY <2>1, <2>4, <2>6, <2>7, <2>8 DEF Fits
<1>8. ch = Tree!Children(V, Over(p, Len(p) + 1))
  BY <1>1, <1>2
<1>9. \A c \in 1 .. Len(ch) :
       /\ Fits(V, R[c], Append(p, ch[c]))
       /\ \A l \in Nat : l >= 1 /\ l < Len(p) => (l - 1 \in R[c].parentLevels <=> l - 1 \in {})
       /\ Len(p) >= 1 => (Len(p) - 1 \in R[c].parentLevels <=> c # Len(ch))
  BY <1>1, <1>5, <1>7
<1>10. Siblings(V, p, {}, ch, R)
  BY <1>3, <1>8, <1>9 DEF Siblings
<1> QED BY <1>0, <1>10

(* A stem extends itself, and nothing of its length but itself does.       *)
LEMMA ExtendsSelf ==
  ASSUME NEW V, NEW p, Stem(V, p)
  PROVE  Extends(p, p) /\ \A e : Stem(V, e) /\ Extends(e, p) /\ Len(e) = Len(p) => e = p
<1>1. ASSUME NEW e, Stem(V, e) PROVE Len(e) \in Nat /\ SubSeq(e, 1, Len(e)) = e
  <2>1. e \in Seq(Among(V))
    BY <1>1 DEF Stem
  <2>2. PICK m \in Nat : m = Len(e)
    BY <2>1, LenProperties
  <2>3. m \in 0 .. Len(e)
    BY <2>2
  <2>4. PICK u \in Seq(Among(V)) : u = SubSeq(e, 1, m) /\ Len(u) = m /\ \A i \in 1 .. m : u[i] = e[i]
    BY <2>1, <2>3, TopOfLines
  <2>5. u = e
    BY <2>1, <2>2, <2>4, SeqEqual
  <2> QED BY <2>2, <2>4, <2>5
<1>2. Len(p) \in Nat /\ SubSeq(p, 1, Len(p)) = p
  BY <1>1
<1>3. Extends(p, p)
  BY <1>2 DEF Extends
<1>4. ASSUME NEW e, Stem(V, e), Extends(e, p), Len(e) = Len(p) PROVE e = p
  <2>1. SubSeq(e, 1, Len(e)) = e
    BY <1>1, <1>4
  <2> QED BY <1>4, <2>1 DEF Extends
<1> QED BY <1>3, <1>4

(* A row put before a grove.                                               *)
LEMMA PutFirst ==
  ASSUME Tree!TreeAssumption, NEW V, Viewed(V), NEW A, PathsOf(V, A), NEW q, NEW p, Fits(V, q, p),
         NEW F \in Seq(Tree!Row), NEW top, Above(V, A, F, p, Len(p) + 1), AllThere(V, F, p, Len(p) + 1, top),
         Once(F), InTurn(A, F), Joined(F, p), Inherit(F, p, q.parentLevels),
         Len(F) >= 1 => Tree!Follows(A[F[1].span], p), NEW G, G = <<q>> \o F
  PROVE  Bunch(V, A, G, p, q.parentLevels, Len(p), top) /\ Begins(G, q)
<1>1. PICK n \in Nat, l \in Nat, k \in Nat : n = Len(p) /\ l = q.level /\ n = l + 1 /\ k = Len(F)
  <2>1. Len(p) \in Nat /\ q.level \in Nat /\ Len(p) = q.level + 1 /\ Len(F) \in Nat
    BY StemIs, LenProperties DEF Fits, Tree!Row
  <2> QED BY <2>1
<1>2. Stem(V, p) /\ q \in Tree!Row /\ Lined(q) /\ q.span = p[n]
  BY <1>1 DEF Fits
<1>3. /\ G \in Seq(Tree!Row) /\ Len(G) = k + 1 /\ G[1] = q
      /\ \A i \in 1 .. k : G[i + 1] = F[i]
  <2>1. <<q>> \in Seq(Tree!Row) /\ Len(<<q>>) = 1 /\ <<q>>[1] = q
    BY <1>2
  <2>2. PICK w : w = <<q>> /\ w \in Seq(Tree!Row) /\ Len(w) = 1 /\ w[1] = q
    BY <2>1
  <2>3. /\ w \o F \in Seq(Tree!Row) /\ Len(w \o F) = Len(w) + Len(F)
        /\ \A i \in 1 .. Len(w) + Len(F) : (w \o F)[i] = IF i <= Len(w) THEN w[i] ELSE F[i - Len(w)]
    BY <2>2, ConcatProperties
  <2>4. /\ G \in Seq(Tree!Row) /\ Len(G) = k + 1
        /\ \A i \in 1 .. k + 1 : G[i] = IF i <= 1 THEN w[i] ELSE F[i - 1]
    BY <1>1, <2>2, <2>3
  <2>5. G[1] = q
    <3>1. 1 \in 1 .. k + 1
      BY <1>1
    <3> QED BY <2>2, <2>4, <3>1
  <2>6. ASSUME NEW i \in 1 .. k PROVE G[i + 1] = F[i]
    <3>1. i + 1 \in 1 .. k + 1 /\ ~(i + 1 <= 1) /\ (i + 1) - 1 = i
      BY <1>1
    <3> QED BY <2>4, <3>1
  <2> QED BY <2>4, <2>5, <2>6
<1>4. ASSUME NEW i \in 1 .. k + 1 PROVE i = 1 \/ \E x \in 1 .. k : i = x + 1 /\ G[i] = F[x]
  <2>1. i # 1 => i - 1 \in 1 .. k /\ i = (i - 1) + 1
    BY <1>1
  <2> QED BY <1>3, <2>1
<1>5. q.span \in Among(V) /\ A[q.span] = p
  <2>1. n \in 1 .. Len(p) /\ Len(p) >= 1
    BY <1>1
  <2>2. p[n] \in Among(V)
    BY <1>2, <2>1, StemIs
  <2>3. A[p[Len(p)]] = p
    BY <1>2, <2>1 DEF PathsOf
  <2> QED BY <1>1, <1>2, <2>2, <2>3
<1>6. ASSUME NEW x \in 1 .. k
      PROVE  /\ OnTree(V, A, F[x]) /\ Extends(A[F[x].span], p) /\ F[x].level \in Nat /\ F[x].level >= n
             /\ F[x].level + 1 >= n + 1 /\ Len(A[F[x].span]) = F[x].level + 1
  <2>1. F[x] \in Tree!Row
    BY <1>1, ElementOfSeq
  <2>2. F[x].level \in Nat
    BY <2>1 DEF Tree!Row
  <2>3. OnTree(V, A, F[x]) /\ Extends(A[F[x].span], p) /\ F[x].level + 1 >= n + 1
    BY <1>1 DEF Above
  <2>4. Len(A[F[x].span]) = F[x].level + 1
    BY <2>3 DEF OnTree
  <2> QED BY <1>1, <2>2, <2>3, <2>4
<1>7. Above(V, A, G, p, n)
  <2>1. OnTree(V, A, q) /\ Extends(A[q.span], p) /\ q.level + 1 >= n
    <3>1. Extends(p, p)
      BY <1>2, ExtendsSelf
    <3>2. q.span = p[q.level + 1]
      BY <1>1, <1>2
    <3>3. Stem(V, A[q.span]) /\ Extends(A[q.span], p)
      BY <1>2, <1>5, <3>1
    <3>4. Len(A[q.span]) = q.level + 1 /\ A[q.span][q.level + 1] = q.span
      BY <1>1, <1>5, <3>2
    <3>5. q.level + 1 >= n
      BY <1>1
    <3> QED BY <1>2, <1>5, <3>3, <3>4, <3>5 DEF OnTree
  <2>2. ASSUME NEW i \in 1 .. k + 1
        PROVE  OnTree(V, A, G[i]) /\ Extends(A[G[i].span], p) /\ G[i].level + 1 >= n
    <3>1. CASE i = 1
      BY <1>3, <2>1, <3>1
    <3>2. CASE i # 1
      <4>1. PICK x \in 1 .. k : G[i] = F[x]
        BY <1>4, <3>2
      <4>2. OnTree(V, A, F[x]) /\ Extends(A[F[x].span], p)
        BY <1>6
      <4>3. PICK m \in Nat : m = F[x].level /\ m >= n
        BY <1>6
      <4>4. m + 1 >= n
        BY <1>1, <4>3
      <4> QED BY <4>1, <4>2, <4>3, <4>4
    <3> QED BY <3>1, <3>2
  <2> QED BY <1>3, <2>2 DEF Above
<1>8. AllThere(V, G, p, n, top)
  <2> SUFFICES ASSUME NEW e, Stem(V, e), Extends(e, p), n <= Len(e), Len(e) < top
               PROVE  \E i \in 1 .. k + 1 : G[i].span = e[Len(e)]
    BY <1>3 DEF AllThere
  <2>1. PICK m \in Nat : m = Len(e)
    BY StemIs
  <2>2. CASE m = n
    <3>1. e = p
      BY <1>1, <1>2, <2>1, <2>2, ExtendsSelf
    <3>2. 1 \in 1 .. k + 1
      BY <1>1
    <3> QED BY <1>1, <1>2, <1>3, <3>1, <3>2
  <2>3. CASE m # n
    <3>1. Len(p) + 1 <= Len(e)
      BY <1>1, <2>1, <2>3
    <3>2. PICK x \in 1 .. k : F[x].span = e[Len(e)]
      BY <1>1, <3>1 DEF AllThere
    <3>3. x + 1 \in 1 .. k + 1
      OBVIOUS
    <3> QED BY <1>3, <3>2, <3>3
  <2> QED BY <2>2, <2>3
<1>9. Once(G)
  <2>1. ASSUME NEW x \in 1 .. k, F[x].span = q.span PROVE FALSE
    <3>1. PICK m \in Nat : m = F[x].level /\ m >= n /\ Len(A[F[x].span]) = m + 1
      BY <1>6
    <3>2. n = m + 1
      BY <1>1, <1>5, <2>1, <3>1
    <3> QED BY <1>1, <3>1, <3>2
  <2> SUFFICES ASSUME NEW i \in 1 .. k + 1, NEW j \in 1 .. k + 1, G[i].span = G[j].span
               PROVE  i = j
    BY <1>3 DEF Once
  <2>2. CASE i = 1 /\ j = 1
    BY <2>2
  <2>3. CASE i = 1 /\ j # 1
    BY <1>3, <1>4, <2>1, <2>3
  <2>4. CASE i # 1 /\ j = 1
    BY <1>3, <1>4, <2>1, <2>4
  <2>5. CASE i # 1 /\ j # 1
    <3>1. PICK x \in 1 .. k : i = x + 1 /\ G[i] = F[x]
      BY <1>4, <2>5
    <3>2. PICK y \in 1 .. k : j = y + 1 /\ G[j] = F[y]
      BY <1>4, <2>5
    <3>3. x = y
      BY <1>1, <3>1, <3>2 DEF Once
    <3> QED BY <3>1, <3>2, <3>3
  <2> QED BY <2>2, <2>3, <2>4, <2>5
<1>10. InTurn(A, G)
  <2> SUFFICES ASSUME NEW i \in 1 .. k + 1, i + 1 <= k + 1
               PROVE  Tree!Follows(A[G[i + 1].span], A[G[i].span])
    BY <1>3 DEF InTurn
  <2>1. CASE i = 1
    <3>1. 1 \in 1 .. k /\ 1 <= k
      BY <1>1, <2>1
    <3>2. G[1 + 1] = F[1]
      BY <1>3, <3>1
    <3>3. Tree!Follows(A[F[1].span], p)
      BY <1>1, <3>1
    <3> QED BY <1>3, <1>5, <2>1, <3>2, <3>3
  <2>2. CASE i # 1
    <3>1. PICK x \in 1 .. k : i = x + 1 /\ G[i] = F[x]
      BY <1>4, <2>2
    <3>2. x + 1 \in 1 .. k
      BY <1>1, <3>1
    <3>3. G[i + 1] = F[x + 1]
      BY <1>3, <3>1, <3>2
    <3>4. Tree!Follows(A[F[x + 1].span], A[F[x].span])
      BY <1>1, <3>2 DEF InTurn
    <3> QED BY <3>1, <3>3, <3>4
  <2> QED BY <2>1, <2>2
<1>11. ASSUME NEW x \in 1 .. k, NEW m \in Nat PROVE Joins(G, x + 1, m) <=> Joins(F, x, m)
  <2>1. ASSUME NEW j \in 1 .. k, x < j, F[j].level = m, \A y \in 1 .. k : x < y /\ y <= j => F[y].level >= m
        PROVE  Joins(G, x + 1, m)
    <3>1. j + 1 \in 1 .. k + 1 /\ x + 1 < j + 1 /\ G[j + 1].level = m
      BY <1>1, <1>3, <2>1
    <3>2. ASSUME NEW z \in 1 .. k + 1, x + 1 < z, z <= j + 1 PROVE G[z].level >= m
      <4>0. z # 1
        BY <1>1, <3>2
      <4>1. PICK y \in 1 .. k : z = y + 1 /\ G[z] = F[y]
        BY <1>4, <4>0
      <4>2. x < y /\ y <= j
        BY <3>2, <4>1
      <4> QED BY <2>1, <4>1, <4>2
    <3> QED BY <1>3, <3>1, <3>2 DEF Joins
  <2>2. ASSUME NEW j \in 1 .. k + 1, x + 1 < j, G[j].level = m,
               \A z \in 1 .. k + 1 : x + 1 < z /\ z <= j => G[z].level >= m
        PROVE  Joins(F, x, m)
    <3>0. j # 1
      BY <1>1, <2>2
    <3>1. PICK y \in 1 .. k : j = y + 1 /\ G[j] = F[y]
      BY <1>4, <3>0
    <3>2. x < y /\ F[y].level = m
      <4>1. x + 1 < y + 1
        BY <2>2, <3>1
      <4>2. x < y
        BY <1>1, <4>1
      <4> QED BY <2>2, <3>1, <4>2
    <3>3. ASSUME NEW z \in 1 .. k, x < z, z <= y PROVE F[z].level >= m
      <4>1. z + 1 \in 1 .. k + 1 /\ x + 1 < z + 1 /\ z + 1 <= j
        BY <1>1, <3>1, <3>3
      <4> QED BY <1>3, <2>2, <4>1
    <3> QED BY <1>1, <3>2, <3>3 DEF Joins
  <2> QED BY <1>1, <1>3, <2>1, <2>2 DEF Joins
<1>12. Joined(G, p)
  <2> SUFFICES ASSUME NEW i \in 1 .. k + 1, NEW m \in Nat, m >= 1, m >= n, m <= G[i].level
               PROVE  m - 1 \in G[i].parentLevels <=> Joins(G, i, m)
    BY <1>1, <1>3 DEF Joined
  <2>1. i # 1
    <3> SUFFICES ASSUME i = 1 PROVE FALSE
      OBVIOUS
    <3>1. m <= l
      BY <1>1, <1>3
    <3> QED BY <1>1, <3>1
  <2>2. PICK x \in 1 .. k : i = x + 1 /\ G[i] = F[x]
    BY <1>4, <2>1
  <2>3. m - 1 \in F[x].parentLevels <=> Joins(F, x, m)
    BY <1>1, <2>2 DEF Joined
  <2> QED BY <1>11, <2>2, <2>3
<1>13. Inherit(G, p, q.parentLevels)
  <2> SUFFICES ASSUME NEW i \in 1 .. k + 1, NEW m \in Nat, m >= 1, m < n
               PROVE  m - 1 \in G[i].parentLevels <=> m - 1 \in q.parentLevels
    BY <1>1, <1>3 DEF Inherit
  <2>1. CASE i = 1
    BY <1>3, <2>1
  <2>2. CASE i # 1
    <3>1. PICK x \in 1 .. k : i = x + 1 /\ G[i] = F[x]
      BY <1>4, <2>2
    <3> QED BY <1>1, <3>1 DEF Inherit
  <2> QED BY <2>1, <2>2
<1>14. Begins(G, q)
  <2>1. ASSUME NEW i \in 1 .. k + 1, i > 1 PROVE G[i].level > q.level
    <3>0. i # 1
      BY <2>1
    <3>1. PICK x \in 1 .. k : G[i] = F[x]
      BY <1>4, <3>0
    <3>2. PICK m \in Nat : m = F[x].level /\ m >= n
      BY <1>6
    <3>3. m > l
      BY <1>1, <3>2
    <3> QED BY <1>1, <3>1, <3>2, <3>3
  <2>2. k + 1 >= 1
    BY <1>1
  <2> QED BY <1>3, <2>1, <2>2 DEF Begins
<1>15. Bunch(V, A, G, p, q.parentLevels, n, top)
  BY <1>3, <1>7, <1>8, <1>9, <1>10, <1>12, <1>13 DEF Bunch
<1> QED BY <1>1, <1>14, <1>15

-----------------------------------------------------------------------------
(* The rows of siblings, and of what is below them.                        *)
LEMMA GroveIs ==
  ASSUME NEW V, NEW A, NEW p, NEW P, NEW ch, NEW R, NEW B, NEW top, NEW F, NEW o,
         Grove(V, A, p, P, ch, R, B, top, F, o)
  PROVE  Bunch(V, A, F, p, P, Len(p) + 1, top)
<1>1. F \in Seq(Tree!Row)
  BY DEF Grove
<1>2. Above(V, A, F, p, Len(p) + 1)
  BY GroveAbove
<1>3. AllThere(V, F, p, Len(p) + 1, top)
  BY GroveAll
<1>4. Once(F) /\ InTurn(A, F)
  BY GroveOnce, GroveTurns
<1>5. Joined(F, p) /\ Inherit(F, p, P)
  BY GroveJoins, GroveInherits
<1> QED BY <1>1, <1>2, <1>3, <1>4, <1>5 DEF Bunch

LEMMA GroveStarts ==
  ASSUME NEW V, NEW A, NEW p, NEW P, NEW ch, NEW R, NEW B, NEW top, NEW F, NEW o,
         Grove(V, A, p, P, ch, R, B, top, F, o), Len(F) >= 1
  PROVE  Tree!Follows(A[F[1].span], p)
<1>1. PICK n \in Nat, k \in Nat : n = Len(p) /\ k = Len(F) /\ k >= 1
  BY SiblingsAre, LenProperties DEF Grove
<1>2. AllPlaced(V, A, p, ch, R, B, F, o)
  BY InGrove
<1>3. 1 \in 1 .. Len(F)
  BY <1>1
<1>4. PICK c \in 1 .. Len(ch) : \E j \in 1 .. Len(B[c]) :
        1 = o[c - 1] + j /\ F[1] = B[c][j] /\ Begins(B[c], R[c])
  BY <1>2, <1>3 DEF AllPlaced, Placed
<1>5. PICK j \in 1 .. Len(B[c]) : 1 = o[c - 1] + j /\ F[1] = B[c][j] /\ Begins(B[c], R[c])
  BY <1>4
<1>6. o[c - 1] \in Nat
  BY InPlace
<1>7. j = 1
  BY <1>5, <1>6
<1>8. PICK s : s = ch[c] /\ s \in Among(V) /\ parent[s] = Over(p, Len(p) + 1) /\ Stem(V, Append(p, s))
        /\ Len(Append(p, s)) = Len(p) + 1 /\ R[c].span = s
  BY SiblingsAre DEF Grove
<1>9. F[1].span = s
  BY <1>5, <1>7, <1>8 DEF Begins
<1>10. Append(p, s)[Len(p) + 1] = s /\ SubSeq(Append(p, s), 1, Len(p)) = p
  <2>1. Stem(V, p)
    BY DEF Grove, Siblings
  <2> QED BY <1>8, <2>1, StemAppend
<1>11. PICK e : e = Append(p, s) /\ Stem(V, e) /\ Len(e) = n + 1 /\ e[n + 1] = s /\ SubSeq(e, 1, n) = p
  BY <1>1, <1>8, <1>10
<1>12. A[s] = e
  <2>1. Len(e) >= 1
    BY <1>11
  <2>2. A[e[Len(e)]] = e
    BY <1>11, <2>1 DEF Grove, PathsOf
  <2> QED BY <1>11, <2>2
<1>13. Tree!Front(e) = p
  <2>1. Len(e) - 1 = n
    BY <1>11
  <2> QED BY <1>11, <2>1 DEF Tree!Front
<1> QED BY <1>9, <1>12, <1>13 DEF Tree!Follows

(* What traverse computes.                                                 *)
Rowing(g, V) ==
  g = [depth \in 0 .. Len(V) |->
         [q \in Tree!Row |->
            LET children == Tree!Children(V, q.span)
            IN  IF depth = 0 THEN <<>>
                ELSE <<q>> \o Tree!FlattenSeq([i \in 1 .. Len(children) |->
                                                 g[depth - 1][Tree!Below(q, children, i)]])]]

LEMMA TraverseIs ==
  ASSUME NEW V, NEW r PROVE Tree!Traverse(V, r) = (CHOOSE g : Rowing(g, V))[Len(V)][r]
BY DEF Tree!Traverse, Rowing

BranchesOf(V, q, v) ==
  [i \in 1 .. Len(Tree!Children(V, q.span)) |-> v[Tree!Below(q, Tree!Children(V, q.span), i)]]

Under(V, q, v) == <<q>> \o Tree!FlattenSeq(BranchesOf(V, q, v))

Grown(h, V) ==
  \A d \in 0 .. Len(V) : \A q \in Tree!Row : h[d][q] = IF d = 0 THEN <<>> ELSE Under(V, q, h[d - 1])

LEMMA BelowRow ==
  ASSUME NEW V, Sorted(V), NEW q \in Tree!Row, NEW ch, ch = Tree!Children(V, q.span), NEW i \in 1 .. Len(ch)
  PROVE  Tree!Below(q, ch, i) \in Tree!Row
<1>1. ch \in Seq(Tree!Span)
  BY ChildrenAre
<1>2. ch[i] \in Tree!Span
  BY <1>1, ElementOfSeq
<1>3. q.level \in Nat /\ q.parentLevels \in SUBSET Nat
  BY DEF Tree!Row
<1>4. PICK W \in SUBSET Nat :
        W = IF i = Len(ch) THEN q.parentLevels ELSE q.parentLevels \union {q.level}
  BY <1>3
<1>5. Tree!Below(q, ch, i) = [span |-> ch[i], level |-> q.level + 1, isTerminal |-> i = Len(ch), parentLevels |-> W]
  BY <1>4 DEF Tree!Below, Tree!RowOf
<1>6. q.level + 1 \in Nat /\ (i = Len(ch)) \in BOOLEAN
  BY <1>3
<1> QED BY <1>2, <1>4, <1>5, <1>6 DEF Tree!Row

LEMMA UnderType ==
  ASSUME NEW V, Sorted(V), NEW q \in Tree!Row, NEW v \in [Tree!Row -> Seq(Tree!Row)]
  PROVE  Under(V, q, v) \in Seq(Tree!Row)
<1>1. PICK ch : ch = Tree!Children(V, q.span)
  OBVIOUS
<1>2. PICK h \in Nat : h = Len(ch)
  BY <1>1, ChildrenAre, LenProperties
<1>3. \A i \in 1 .. h : v[Tree!Below(q, ch, i)] \in Seq(Tree!Row)
  BY <1>1, <1>2, BelowRow
<1>4. BranchesOf(V, q, v) = [i \in 1 .. h |-> v[Tree!Below(q, ch, i)]]
  BY <1>1, <1>2 DEF BranchesOf
<1>5. BranchesOf(V, q, v) \in Seq(Seq(Tree!Row))
  BY <1>3, <1>4
<1>6. Tree!FlattenSeq(BranchesOf(V, q, v)) \in Seq(Tree!Row)
  BY <1>5, FlattenIs
<1>7. <<q>> \in Seq(Tree!Row)
  OBVIOUS
<1> QED BY <1>6, <1>7, ConcatProperties DEF Under

LEMMA RowingIsThere ==
  ASSUME NEW V, Sorted(V) PROVE \E h : h = (CHOOSE g : Rowing(g, V)) /\ Grown(h, V)
<1>0. PICK n \in Nat : n = Len(V)
  BY LenProperties DEF Sorted
<1> DEFINE W == [Tree!Row -> Seq(Tree!Row)]
           step == [i \in 1 .. n |-> [v \in W |-> [q \in Tree!Row |-> Under(V, q, v)]]]
           base == [q \in Tree!Row |-> <<>>]
<1>4. base \in W
  OBVIOUS
<1>6. step \in [1 .. n -> [W -> W]]
  <2>1. ASSUME NEW v \in W PROVE [q \in Tree!Row |-> Under(V, q, v)] \in W
    <3>1. \A q \in Tree!Row : Under(V, q, v) \in Seq(Tree!Row)
      BY UnderType
    <3> QED BY <3>1
  <2> HIDE DEF W
  <2> QED BY <2>1
<1>7. PICK g \in [0 .. n -> W] : Walking(g, n, base, step)
  <2> HIDE DEF step, W, base
  <2> QED BY <1>4, <1>6, WalkIsThere
<1>8. ASSUME NEW i \in 1 .. n PROVE g[i] = [q \in Tree!Row |-> Under(V, q, g[i - 1])]
  <2>1. g[i] = step[i][g[i - 1]]
    <3> HIDE DEF step, base
    <3> QED BY <1>7 DEF Walking
  <2>2. g[i - 1] \in W
    <3> HIDE DEF W
    <3> QED BY <1>7
  <2> HIDE DEF W
  <2> QED BY <2>1, <2>2
<1>9. g[0] = [q \in Tree!Row |-> <<>>]
  <2>1. g[0] = base
    <3> HIDE DEF base, step
    <3> QED BY <1>7 DEF Walking
  <2> QED BY <2>1
<1> HIDE DEF step, W, base
<1>10. Rowing(g, V)
  <2> DEFINE nth(i) == [q \in Tree!Row |-> IF i = 0 THEN <<>> ELSE Under(V, q, g[i - 1])]
  <2>1. ASSUME NEW i \in 0 .. n PROVE g[i] = nth(i)
    <3>1. CASE i = 0
      BY <1>9, <3>1
    <3>2. CASE i # 0
      <4>1. i \in 1 .. n
        BY <3>2
      <4>2. g[i] = [q \in Tree!Row |-> Under(V, q, g[i - 1])]
        BY <1>8, <4>1
      <4> QED BY <3>2, <4>2
    <3> QED BY <3>1, <3>2
  <2>2. g = [i \in 0 .. n |-> g[i]]
    BY <1>7
  <2>3. g = [i \in 0 .. n |-> nth(i)]
    <3> HIDE DEF nth
    <3> QED BY <2>1, <2>2
  <2> QED BY <1>0, <2>3 DEF Rowing, Under, BranchesOf
<1>11. PICK h : h = CHOOSE f : Rowing(f, V)
  OBVIOUS
<1>12. Rowing(h, V)
  BY <1>10, <1>11
<1>13. Grown(h, V)
  <2> SUFFICES ASSUME NEW i \in 0 .. n, NEW q \in Tree!Row
               PROVE  h[i][q] = IF i = 0 THEN <<>> ELSE Under(V, q, h[i - 1])
    BY <1>0 DEF Grown
  <2>1. h[i] = [u \in Tree!Row |-> IF i = 0 THEN <<>> ELSE Under(V, u, h[i - 1])]
    BY <1>0, <1>12 DEF Rowing, Under, BranchesOf
  <2> QED BY <2>1
<1> QED BY <1>11, <1>13

(* The rows of a depth.                                                    *)
Traversed(V, A, h, d) ==
  \A q, p : Fits(V, q, p) =>
    /\ Bunch(V, A, h[d][q], p, q.parentLevels, Len(p), Len(p) + d)
    /\ d = 0 => h[d][q] = <<>>
    /\ d # 0 => Begins(h[d][q], q)

LEMMA NoRows ==
  ASSUME NEW V, NEW A, NEW q, NEW p, Fits(V, q, p)
  PROVE  Bunch(V, A, <<>>, p, q.parentLevels, Len(p), Len(p) + 0)
<1>0. PICK F : F = <<>>
  OBVIOUS
<1>1. F \in Seq(Tree!Row) /\ Len(F) = 0
  BY <1>0
<1>2. PICK n \in Nat : n = Len(p)
  BY DEF Fits, Stem
<1>3. \A i : i \notin 1 .. Len(F)
  BY <1>1
<1>4. Above(V, A, F, p, n) /\ Once(F) /\ InTurn(A, F) /\ Joined(F, p) /\ Inherit(F, p, q.parentLevels)
  BY <1>3 DEF Above, Once, InTurn, Joined, Inherit
<1>5. AllThere(V, F, p, n, n + 0)
  <2> SUFFICES ASSUME NEW e, Stem(V, e), n <= Len(e), Len(e) < n + 0 PROVE FALSE
    BY DEF AllThere
  <2>1. Len(e) \in Nat
    BY DEF Stem
  <2> QED BY <2>1
<1>6. Bunch(V, A, F, p, q.parentLevels, n, n + 0)
  BY <1>1, <1>4, <1>5 DEF Bunch
<1> QED BY <1>0, <1>2, <1>6

LEMMA TraverseStep ==
  ASSUME Tree!TreeAssumption, NEW V, Viewed(V), NEW A, PathsOf(V, A), NEW h,
         NEW d \in Nat, Traversed(V, A, h, d), NEW q, NEW p, Fits(V, q, p), NEW G, G = Under(V, q, h[d])
  PROVE  Bunch(V, A, G, p, q.parentLevels, Len(p), Len(p) + (d + 1)) /\ Begins(G, q)
<1>1. PICK n \in Nat : n = Len(p)
  BY StemIs DEF Fits
<1>2. PICK ch : ch = Tree!Children(V, q.span)
  OBVIOUS
<1>3. PICK m \in Nat : m = Len(ch)
  BY <1>2, ChildrenAre, LenProperties DEF Viewed
<1>4. PICK R : R = [c \in 1 .. m |-> Tree!Below(q, ch, c)]
  OBVIOUS
<1>5. Len(R) = m /\ \A c \in 1 .. m : R[c] = Tree!Below(q, ch, c)
  BY <1>4
<1>6. Siblings(V, p, q.parentLevels, ch, R)
  BY <1>2, <1>3, <1>5, SiblingsBelow
<1>7. PICK B : B = BranchesOf(V, q, h[d])
  OBVIOUS
<1>8. B = [c \in 1 .. m |-> h[d][R[c]]]
  BY <1>2, <1>3, <1>5, <1>7 DEF BranchesOf
<1>9. ASSUME NEW c \in 1 .. m
      PROVE  /\ B[c] \in Seq(Tree!Row)
             /\ Bunch(V, A, B[c], Append(p, ch[c]), R[c].parentLevels, n + 1, n + (d + 1))
             /\ d = 0 => B[c] = <<>>
             /\ d # 0 => Begins(B[c], R[c])
  <2>1. Fits(V, R[c], Append(p, ch[c]))
    BY <1>3, <1>6 DEF Siblings
  <2>2. Len(Append(p, ch[c])) = n + 1
    BY <1>1, <1>3, <1>6, SiblingsAre
  <2>3. B[c] = h[d][R[c]]
    BY <1>8
  <2>4. PICK e : e = Append(p, ch[c])
    OBVIOUS
  <2>5. /\ Bunch(V, A, B[c], e, R[c].parentLevels, Len(e), Len(e) + d)
        /\ d = 0 => B[c] = <<>>
        /\ d # 0 => Begins(B[c], R[c])
    BY <2>1, <2>3, <2>4 DEF Traversed
  <2>6. Len(e) = n + 1 /\ Len(e) + d = n + (d + 1)
    BY <2>2, <2>4
  <2>7. Bunch(V, A, B[c], e, R[c].parentLevels, n + 1, n + (d + 1))
    BY <2>5, <2>6
  <2>8. B[c] \in Seq(Tree!Row)
    BY <2>7 DEF Bunch
  <2> QED BY <2>4, <2>5, <2>7, <2>8
<1>10. Len(B) = m /\ B \in Seq(Seq(Tree!Row))
  BY <1>8, <1>9
<1>11. Branches(V, A, p, ch, R, B, n + (d + 1))
  <2>1. (\A c \in 1 .. m : B[c] = <<>>) \/ (\A c \in 1 .. m : Begins(B[c], R[c]))
    BY <1>9
  <2> QED BY <1>1, <1>3, <1>9, <1>10, <2>1 DEF Branches
<1>12. PICK F : F = Tree!FlattenSeq(B)
  OBVIOUS
<1>13. PICK o : F \in Seq(Tree!Row) /\ Laid(o, B, F)
  BY <1>10, <1>12, FlattenIs
<1>14. Grove(V, A, p, q.parentLevels, ch, R, B, n + (d + 1), F, o)
  BY <1>6, <1>11, <1>13 DEF Grove
<1>15. Bunch(V, A, F, p, q.parentLevels, Len(p) + 1, n + (d + 1))
  BY <1>14, GroveIs
<1>16. /\ Above(V, A, F, p, Len(p) + 1) /\ AllThere(V, F, p, Len(p) + 1, n + (d + 1))
       /\ Once(F) /\ InTurn(A, F) /\ Joined(F, p) /\ Inherit(F, p, q.parentLevels)
  BY <1>15 DEF Bunch
<1>17. Len(F) >= 1 => Tree!Follows(A[F[1].span], p)
  BY <1>14, GroveStarts
<1>18. G = <<q>> \o F
  BY <1>7, <1>12 DEF Under
<1>19. Bunch(V, A, G, p, q.parentLevels, Len(p), n + (d + 1)) /\ Begins(G, q)
  BY <1>13, <1>16, <1>17, <1>18, PutFirst
<1> QED BY <1>1, <1>19

LEMMA TraversedIs ==
  ASSUME Tree!TreeAssumption, NEW V, Viewed(V), NEW A, PathsOf(V, A), NEW h, Grown(h, V)
  PROVE  Traversed(V, A, h, Len(V))
<1>1. PICK n \in Nat : n = Len(V)
  BY LenProperties DEF Viewed, Sorted
<1> DEFINE S == {d \in 0 .. n : Traversed(V, A, h, d)}
<1>2. 0 \in S
  <2>1. ASSUME NEW q, NEW p, Fits(V, q, p)
        PROVE  Bunch(V, A, h[0][q], p, q.parentLevels, Len(p), Len(p) + 0) /\ h[0][q] = <<>>
    <3>1. q \in Tree!Row /\ 0 \in 0 .. n
      BY <2>1 DEF Fits
    <3>2. h[0][q] = <<>>
      BY <1>1, <3>1 DEF Grown
    <3>3. Bunch(V, A, <<>>, p, q.parentLevels, Len(p), Len(p) + 0)
      BY <2>1, NoRows
    <3> QED BY <3>2, <3>3
  <2>2. Traversed(V, A, h, 0)
    BY <2>1 DEF Traversed
  <2> QED BY <2>2
<1>3. ASSUME NEW d \in 0 .. n, d < n, d \in S PROVE d + 1 \in S
  <2>1. d \in Nat /\ d + 1 \in 0 .. n /\ d + 1 # 0 /\ (d + 1) - 1 = d
    BY <1>3
  <2>2. Traversed(V, A, h, d)
    BY <1>3
  <2>3. ASSUME NEW q, NEW p, Fits(V, q, p)
        PROVE  Bunch(V, A, h[d + 1][q], p, q.parentLevels, Len(p), Len(p) + (d + 1)) /\ Begins(h[d + 1][q], q)
    <3>1. q \in Tree!Row
      BY <2>3 DEF Fits
    <3>2. h[d + 1][q] = Under(V, q, h[d])
      BY <1>1, <2>1, <3>1 DEF Grown
    <3> QED BY <2>1, <2>2, <2>3, <3>2, TraverseStep
  <2>4. Traversed(V, A, h, d + 1)
    BY <2>1, <2>3 DEF Traversed
  <2> QED BY <2>1, <2>4
<1>4. n \in S
  <2>1. n \in 0 .. n
    OBVIOUS
  <2> HIDE DEF S
  <2> QED BY <1>2, <1>3, <2>1, UptoInduction
<1> QED BY <1>1, <1>4

(* The rows of a trace stand for all the stems there are, one for each.    *)
LEMMA RowsAreStems ==
  ASSUME Tree!TreeAssumption, NEW V, Viewed(V), NEW A, PathsOf(V, A), NEW F, F = Tree!buildSpanTree(V)
  PROVE  Bunch(V, A, F, <<>>, {}, 1, Len(V) + 1)
<1>1. PICK n \in Nat : n = Len(V)
  BY LenProperties DEF Viewed, Sorted
<1>2. PICK ch : ch = Tree!Children(V, Null)
  OBVIOUS
<1>3. PICK m \in Nat : m = Len(ch)
  BY <1>2, ChildrenAre, LenProperties DEF Viewed
<1>4. PICK R : R = [c \in 1 .. m |-> Tree!RowOf(ch, c, 0, {})]
  OBVIOUS
<1>5. Len(R) = m /\ \A c \in 1 .. m : R[c] = Tree!RowOf(ch, c, 0, {})
  BY <1>4
<1>6. PICK p : p = <<>>
  OBVIOUS
<1>7. Len(p) = 0
  BY <1>6
<1>8. Siblings(V, p, {}, ch, R)
  BY <1>2, <1>3, <1>5, <1>6, SiblingRoots
<1>9. PICK h : h = (CHOOSE g : Rowing(g, V)) /\ Grown(h, V)
  BY RowingIsThere DEF Viewed
<1>10. Traversed(V, A, h, n)
  BY <1>1, <1>9, TraversedIs
<1>11. PICK B : B = [c \in 1 .. m |-> Tree!Traverse(V, Tree!RowOf(ch, c, 0, {}))]
  OBVIOUS
<1>12. ASSUME NEW c \in 1 .. m
       PROVE  /\ B[c] \in Seq(Tree!Row)
              /\ Bunch(V, A, B[c], Append(p, ch[c]), R[c].parentLevels, Len(p) + 1, n + 1)
              /\ n = 0 => B[c] = <<>>
              /\ n # 0 => Begins(B[c], R[c])
  <2>1. Fits(V, R[c], Append(p, ch[c]))
    BY <1>3, <1>8 DEF Siblings
  <2>2. Len(Append(p, ch[c])) = Len(p) + 1
    BY <1>3, <1>8, SiblingsAre
  <2>3. B[c] = Tree!Traverse(V, R[c])
    BY <1>5, <1>11
  <2>4. B[c] = h[n][R[c]]
    BY <1>1, <1>9, <2>3, TraverseIs
  <2>5. PICK e : e = Append(p, ch[c])
    OBVIOUS
  <2>6. /\ Bunch(V, A, B[c], e, R[c].parentLevels, Len(e), Len(e) + n)
        /\ n = 0 => B[c] = <<>>
        /\ n # 0 => Begins(B[c], R[c])
    BY <1>10, <2>1, <2>4, <2>5 DEF Traversed
  <2>7. Len(e) = Len(p) + 1 /\ Len(e) + n = n + 1
    BY <1>7, <2>2, <2>5
  <2>8. Bunch(V, A, B[c], e, R[c].parentLevels, Len(p) + 1, n + 1)
    BY <2>6, <2>7
  <2>9. B[c] \in Seq(Tree!Row)
    BY <2>8 DEF Bunch
  <2> QED BY <2>5, <2>6, <2>8, <2>9
<1>13. Len(B) = m /\ B \in Seq(Seq(Tree!Row))
  BY <1>11, <1>12
<1>14. Branches(V, A, p, ch, R, B, n + 1)
  <2>1. (\A c \in 1 .. m : B[c] = <<>>) \/ (\A c \in 1 .. m : Begins(B[c], R[c]))
    BY <1>12
  <2> QED BY <1>3, <1>12, <1>13, <2>1 DEF Branches
<1>15. F = Tree!FlattenSeq(B)
  BY <1>2, <1>3, <1>11 DEF Tree!buildSpanTree
<1>16. PICK o : F \in Seq(Tree!Row) /\ Laid(o, B, F)
  BY <1>13, <1>15, FlattenIs
<1>17. Grove(V, A, p, {}, ch, R, B, n + 1, F, o)
  BY <1>8, <1>14, <1>16 DEF Grove
<1>18. Bunch(V, A, F, p, {}, Len(p) + 1, n + 1)
  BY <1>17, GroveIs
<1>19. Len(p) + 1 = 1
  BY <1>7
<1> QED BY <1>1, <1>6, <1>18, <1>19

-----------------------------------------------------------------------------
(* The agent's tree has the stems for its paths.                           *)
Pathing(g, V) ==
  g = [n \in 0 .. Len(V) |->
         IF n = 0 THEN {<<>>}
         ELSE UNION {{Append(path, key) : key \in Tree!Keys(V, path)} : path \in g[n - 1]}]

LEMMA TreeOf ==
  ASSUME NEW V
  PROVE  Tree!Tree(V) = UNION {(CHOOSE g : Pathing(g, V))[n] : n \in 1 .. Len(V)}
BY DEF Tree!Tree, Pathing

Longer(V, v) == UNION {{Append(path, key) : key \in Tree!Keys(V, path)} : path \in v}

Pathed(h, V) == \A n \in 0 .. Len(V) : h[n] = IF n = 0 THEN {<<>>} ELSE Longer(V, h[n - 1])

LEMMA PathingIsThere ==
  ASSUME NEW V, Sorted(V) PROVE \E h : h = (CHOOSE g : Pathing(g, V)) /\ Pathed(h, V)
<1>0. PICK n \in Nat : n = Len(V)
  BY LenProperties DEF Sorted
<1> DEFINE W == SUBSET Seq(Tree!Span)
           step == [i \in 1 .. n |-> [v \in W |-> Longer(V, v)]]
           base == {<<>>}
<1>4. base \in W
  OBVIOUS
<1>5. ASSUME NEW v \in W PROVE Longer(V, v) \in W
  <2>1. ASSUME NEW path \in v, NEW key \in Tree!Keys(V, path) PROVE Append(path, key) \in Seq(Tree!Span)
    <3>1. PICK o : Tree!Keys(V, path) = Among(Tree!Children(V, o))
      BY DEF Tree!Keys, Among
    <3>2. key \in Tree!Span
      BY <3>1, ChildrenAre, AmongIs
    <3>3. path \in Seq(Tree!Span)
      OBVIOUS
    <3> QED BY <3>2, <3>3, AppendProperties
  <2> QED BY <2>1 DEF Longer
<1>6. step \in [1 .. n -> [W -> W]]
  <2> HIDE DEF W
  <2> QED BY <1>5
<1>7. PICK g \in [0 .. n -> W] : Walking(g, n, base, step)
  <2> HIDE DEF step, W, base
  <2> QED BY <1>4, <1>6, WalkIsThere
<1>8. ASSUME NEW i \in 1 .. n PROVE g[i] = Longer(V, g[i - 1])
  <2>1. g[i] = step[i][g[i - 1]]
    <3> HIDE DEF step, base
    <3> QED BY <1>7 DEF Walking
  <2>2. g[i - 1] \in W
    <3> HIDE DEF W
    <3> QED BY <1>7
  <2> HIDE DEF W
  <2> QED BY <2>1, <2>2
<1>9. g[0] = {<<>>}
  <2>1. g[0] = base
    <3> HIDE DEF base, step
    <3> QED BY <1>7 DEF Walking
  <2> QED BY <2>1
<1> HIDE DEF step, W, base
<1>10. Pathing(g, V)
  <2> DEFINE nth(i) == IF i = 0 THEN {<<>>} ELSE Longer(V, g[i - 1])
  <2>1. ASSUME NEW i \in 0 .. n PROVE g[i] = nth(i)
    <3>1. CASE i = 0
      BY <1>9, <3>1
    <3>2. CASE i # 0
      <4>1. i \in 1 .. n
        BY <3>2
      <4>2. g[i] = Longer(V, g[i - 1])
        BY <1>8, <4>1
      <4> QED BY <3>2, <4>2
    <3> QED BY <3>1, <3>2
  <2>2. g = [i \in 0 .. n |-> g[i]]
    BY <1>7
  <2>3. g = [i \in 0 .. n |-> nth(i)]
    <3> HIDE DEF nth
    <3> QED BY <2>1, <2>2
  <2> QED BY <1>0, <2>3 DEF Pathing, Longer
<1>11. PICK h : h = CHOOSE f : Pathing(f, V)
  OBVIOUS
<1>12. Pathing(h, V)
  BY <1>10, <1>11
<1>13. Pathed(h, V)
  <2> SUFFICES ASSUME NEW i \in 0 .. n
               PROVE  h[i] = IF i = 0 THEN {<<>>} ELSE Longer(V, h[i - 1])
    BY <1>0 DEF Pathed
  <2> QED BY <1>0, <1>12 DEF Pathing, Longer
<1> QED BY <1>11, <1>13

LEMMA KeysAre ==
  ASSUME Tree!TreeAssumption, NEW V, Viewed(V), NEW p, Stem(V, p)
  PROVE  \A s : s \in Tree!Keys(V, p) <=> s \in Among(V) /\ parent[s] = Over(p, Len(p) + 1)
<1>1. PICK n \in Nat : n = Len(p)
  BY StemIs
<1>2. PICK u : u = IF p = <<>> THEN Null ELSE Tree!Last(p)
  OBVIOUS
<1>3. u = Over(p, n + 1)
  <2>1. CASE n = 0
    <3>1. p = <<>>
      BY <1>1, <2>1, EmptySeq DEF Stem
    <3> QED BY <1>2, <2>1, <3>1 DEF Over
  <2>2. CASE n # 0
    <3>1. p # <<>>
      BY <1>1, <2>2
    <3>2. n + 1 # 1 /\ (n + 1) - 1 = n
      BY <2>2
    <3> QED BY <1>1, <1>2, <3>1, <3>2 DEF Over, Tree!Last
  <2> QED BY <2>1, <2>2
<1>4. Tree!Keys(V, p) = Among(Tree!Children(V, u))
  BY <1>2 DEF Tree!Keys, Among
<1>5. \A s : s \in Among(Tree!Children(V, u)) <=> s \in Among(V) /\ parent[s] = u
  BY ChildrenAre DEF Viewed
<1> QED BY <1>1, <1>3, <1>4, <1>5

(* The paths of a length are the stems of that length.                     *)
StemsOf(V, v, n) == \A e : e \in v <=> Stem(V, e) /\ Len(e) = n

LEMMA LongerStems ==
  ASSUME Tree!TreeAssumption, NEW V, Viewed(V), NEW n \in Nat, NEW v, StemsOf(V, v, n)
  PROVE  StemsOf(V, Longer(V, v), n + 1)
<1>1. ASSUME NEW e, e \in Longer(V, v) PROVE Stem(V, e) /\ Len(e) = n + 1
  <2>1. PICK p \in v : \E s \in Tree!Keys(V, p) : e = Append(p, s)
    BY <1>1 DEF Longer
  <2>2. PICK s \in Tree!Keys(V, p) : e = Append(p, s)
    BY <2>1
  <2>3. Stem(V, p) /\ Len(p) = n
    BY DEF StemsOf
  <2>4. s \in Among(V) /\ parent[s] = Over(p, Len(p) + 1)
    BY <2>3, KeysAre
  <2>5. Stem(V, Append(p, s)) /\ Len(Append(p, s)) = Len(p) + 1
    BY <2>3, <2>4, StemAppend
  <2> QED BY <2>2, <2>3, <2>5
<1>2. ASSUME NEW e, Stem(V, e), Len(e) = n + 1 PROVE e \in Longer(V, v)
  <2>1. n \in 0 .. Len(e) /\ n + 1 \in 1 .. Len(e)
    BY <1>2
  <2>2. PICK p : p = SubSeq(e, 1, n) /\ Stem(V, p) /\ Len(p) = n /\ \A i \in 1 .. n : p[i] = e[i]
    BY <1>2, <2>1, StemTop
  <2>3. PICK s : s = e[n + 1] /\ s \in Among(V) /\ parent[s] = Over(e, n + 1)
    BY <1>2, <2>1, StemIs DEF Stem
  <2>4. Over(e, n + 1) = Over(p, n + 1)
    <3>1. n + 1 # 1 => n \in 1 .. n /\ (n + 1) - 1 = n
      OBVIOUS
    <3> QED BY <2>2, <3>1 DEF Over
  <2>5. s \in Tree!Keys(V, p)
    BY <2>2, <2>3, <2>4, KeysAre
  <2>6. /\ Stem(V, Append(p, s)) /\ Len(Append(p, s)) = Len(p) + 1 /\ Append(p, s)[Len(p) + 1] = s
        /\ \A i \in 1 .. Len(p) : Append(p, s)[i] = p[i]
    <3>1. Stem(V, p) /\ s \in Among(V) /\ parent[s] = Over(p, Len(p) + 1)
      BY <2>2, <2>3, <2>4
    <3> QED BY <3>1, StemAppend
  <2>7. PICK u : u = Append(p, s) /\ Stem(V, u) /\ Len(u) = n + 1 /\ u[n + 1] = s
          /\ \A i \in 1 .. n : u[i] = p[i]
    BY <2>2, <2>6
  <2>8. ASSUME NEW i \in 1 .. n + 1 PROVE u[i] = e[i]
    <3>1. i = n + 1 \/ i \in 1 .. n
      OBVIOUS
    <3> QED BY <2>2, <2>3, <2>7, <3>1
  <2>9. u = e
    <3>1. u \in Seq(Among(V)) /\ e \in Seq(Among(V))
      BY <1>2, <2>7 DEF Stem
    <3> QED BY <1>2, <2>7, <2>8, <3>1, SeqEqual
  <2>10. p \in v
    BY <2>2 DEF StemsOf
  <2>11. Append(p, s) \in {Append(p, key) : key \in Tree!Keys(V, p)}
    BY <2>5
  <2>12. Append(p, s) \in Longer(V, v)
    BY <2>10, <2>11 DEF Longer
  <2> QED BY <2>7, <2>9, <2>12
<1> QED BY <1>1, <1>2 DEF StemsOf

LEMMA TreeIs ==
  ASSUME Tree!TreeAssumption, NEW V, Viewed(V)
  PROVE  \A e : e \in Tree!Tree(V) <=> Stem(V, e) /\ Len(e) >= 1
<1>0. PICK n \in Nat : n = Len(V)
  BY LenProperties DEF Viewed, Sorted
<1>1. PICK h : h = (CHOOSE g : Pathing(g, V)) /\ Pathed(h, V)
  BY PathingIsThere DEF Viewed
<1> DEFINE S == {d \in 0 .. n : StemsOf(V, h[d], d)}
<1>2. 0 \in S
  <2>1. h[0] = {<<>>}
    <3>1. 0 \in 0 .. Len(V)
      BY <1>0
    <3>2. Pathed(h, V)
      BY <1>1
    <3> QED BY <3>1, <3>2 DEF Pathed
  <2>2. ASSUME NEW e, Stem(V, e), Len(e) = 0 PROVE e = <<>>
    BY <2>2, EmptySeq DEF Stem
  <2>3. PICK u : u = <<>>
    OBVIOUS
  <2>4. Stem(V, u) /\ Len(u) = 0
    BY <2>3, NoStem
  <2>5. StemsOf(V, h[0], 0)
    BY <2>1, <2>2, <2>3, <2>4 DEF StemsOf
  <2> QED BY <2>5
<1>3. ASSUME NEW d \in 0 .. n, d < n, d \in S PROVE d + 1 \in S
  <2>1. d \in Nat /\ d + 1 \in 0 .. n /\ d + 1 # 0 /\ (d + 1) - 1 = d
    BY <1>3
  <2>2. h[d + 1] = Longer(V, h[d])
    BY <1>0, <1>1, <2>1 DEF Pathed
  <2>3. StemsOf(V, h[d], d)
    BY <1>3
  <2>4. StemsOf(V, h[d + 1], d + 1)
    BY <2>1, <2>2, <2>3, LongerStems
  <2> QED BY <2>1, <2>4
<1>4. \A d \in 0 .. n : d \in S
  <2> HIDE DEF S
  <2> QED BY <1>2, <1>3, UptoInduction
<1>5. \A d \in 1 .. n : StemsOf(V, h[d], d)
  <2> TAKE d \in 1 .. n
  <2>1. d \in S
    <3>1. d \in 0 .. n
      OBVIOUS
    <3> HIDE DEF S
    <3> QED BY <1>4, <3>1
  <2> QED BY <2>1
<1>6. Tree!Tree(V) = UNION {h[d] : d \in 1 .. n}
  BY <1>0, <1>1, TreeOf
<1> TAKE e
<1>7. ASSUME e \in Tree!Tree(V) PROVE Stem(V, e) /\ Len(e) >= 1
  <2>1. PICK d \in 1 .. n : e \in h[d]
    BY <1>6, <1>7
  <2>2. Stem(V, e) /\ Len(e) = d
    BY <1>5, <2>1 DEF StemsOf
  <2> QED BY <2>2
<1>8. ASSUME Stem(V, e), Len(e) >= 1 PROVE e \in Tree!Tree(V)
  <2>1. PICK d \in Nat : d = Len(e)
    BY <1>8, StemIs
  <2>2. d <= n
    BY <1>0, <1>8, <2>1, StemFits
  <2>3. d \in 1 .. n
    BY <1>8, <2>1, <2>2
  <2>4. e \in h[d]
    BY <1>5, <1>8, <2>1, <2>3 DEF StemsOf
  <2> QED BY <1>6, <2>3, <2>4
<1> QED BY <1>7, <1>8

-----------------------------------------------------------------------------
(* Rows, lines and the agent's tree are of the one tree.                   *)
LEMMA RowsStand ==
  ASSUME Tree!TreeAssumption, NEW V, Viewed(V), NEW A, PathsOf(V, A), NEW F, F = Tree!buildSpanTree(V)
  PROVE  /\ F \in Seq(Tree!Row) /\ Len(F) \in Nat /\ Once(F) /\ InTurn(A, F) /\ Joined(F, <<>>)
         /\ \A i \in 1 .. Len(F) : /\ F[i].span \in Among(V) /\ EndsStem(V, F[i].span) /\ Lined(F[i])
                                   /\ F[i].level \in Nat /\ F[i].level + 1 = Len(A[F[i].span])
                                   /\ F[i].parentLevels \subseteq Nat
                                   /\ Stem(V, A[F[i].span])
         /\ \A e : Stem(V, e) /\ Len(e) >= 1 => \E i \in 1 .. Len(F) : F[i].span = e[Len(e)] /\ A[F[i].span] = e
<1>1. Bunch(V, A, F, <<>>, {}, 1, Len(V) + 1)
  BY RowsAreStems
<1>2. F \in Seq(Tree!Row) /\ Once(F) /\ InTurn(A, F) /\ Joined(F, <<>>)
  BY <1>1 DEF Bunch
<1>3. PICK k \in Nat : k = Len(F)
  BY <1>2, LenProperties
<1>4. ASSUME NEW i \in 1 .. k
      PROVE  /\ F[i].span \in Among(V) /\ EndsStem(V, F[i].span) /\ Lined(F[i])
             /\ F[i].level \in Nat /\ F[i].level + 1 = Len(A[F[i].span])
             /\ F[i].parentLevels \subseteq Nat
             /\ Stem(V, A[F[i].span])
  <2>1. OnTree(V, A, F[i])
    BY <1>1, <1>3 DEF Bunch, Above
  <2>2. F[i] \in Tree!Row
    BY <1>2, <1>3, ElementOfSeq
  <2>3. PICK l \in Nat : l = F[i].level
    BY <2>2 DEF Tree!Row
  <2>4. F[i].parentLevels \subseteq Nat
    BY <2>2 DEF Tree!Row
  <2>5. PICK e : e = A[F[i].span] /\ Stem(V, e) /\ Len(e) = l + 1 /\ e[l + 1] = F[i].span
    BY <2>1, <2>3 DEF OnTree
  <2>6. Len(e) >= 1 /\ e[Len(e)] = F[i].span
    BY <2>5
  <2>7. EndsStem(V, F[i].span)
    BY <2>5, <2>6 DEF EndsStem
  <2> QED BY <2>1, <2>3, <2>4, <2>5, <2>7 DEF OnTree
<1>5. ASSUME NEW e, Stem(V, e), Len(e) >= 1
      PROVE  \E i \in 1 .. k : F[i].span = e[Len(e)] /\ A[F[i].span] = e
  <2>1. PICK m \in Nat, n \in Nat : m = Len(e) /\ n = Len(V) /\ m <= n /\ m >= 1
    BY <1>5, StemIs, StemFits, LenProperties DEF Viewed, Sorted
  <2>2. Extends(e, <<>>)
    <3>1. PICK p : p = <<>>
      OBVIOUS
    <3>2. Len(p) = 0 /\ 0 \in 0 .. Len(e)
      BY <2>1, <3>1
    <3>3. Stem(V, SubSeq(e, 1, 0)) /\ Len(SubSeq(e, 1, 0)) = 0
      BY <1>5, <3>2, StemTop
    <3>4. SubSeq(e, 1, 0) = <<>>
      BY <3>3, EmptySeq DEF Stem
    <3> QED BY <2>1, <3>1, <3>2, <3>4 DEF Extends
  <2>3. 1 <= Len(e) /\ Len(e) < Len(V) + 1
    BY <2>1
  <2>4. AllThere(V, F, <<>>, 1, Len(V) + 1)
    BY <1>1 DEF Bunch
  <2>5. PICK i \in 1 .. k : F[i].span = e[Len(e)]
    BY <1>3, <1>5, <2>2, <2>3, <2>4 DEF AllThere
  <2>6. A[e[Len(e)]] = e
    BY <1>5 DEF PathsOf
  <2> QED BY <2>5, <2>6
<1> QED BY <1>2, <1>3, <1>4, <1>5

LEMMA LinesAre ==
  ASSUME NEW r, r.level \in Nat, r.parentLevels \subseteq Nat, Lined(r), NEW l \in 1 .. r.level
  PROVE  l \in Tree!Lines(r) <=> l - 1 \in r.parentLevels
<1>1. PICK n \in Nat : n = r.level
  OBVIOUS
<1>2. l \in Nat /\ l >= 1 /\ l <= n /\ l - 1 \in Nat
  BY <1>1
<1>3. l \in Tree!Lines(r) <=> (~r.isTerminal /\ l = n) \/ (l \in 0 .. n - 1 /\ \E p \in r.parentLevels : p + 1 = l)
  BY <1>1 DEF Tree!Lines
<1>4. CASE l = n
  <2>1. l \notin 0 .. n - 1
    BY <1>1, <1>4
  <2>2. n >= 1
    BY <1>2, <1>4
  <2>3. r.isTerminal <=> n - 1 \notin r.parentLevels
    BY <1>1, <2>2 DEF Lined
  <2> QED BY <1>3, <1>4, <2>1, <2>3
<1>5. CASE l # n
  <2>1. l \in 0 .. n - 1
    BY <1>2, <1>5
  <2>2. ASSUME NEW p \in r.parentLevels, p + 1 = l PROVE l - 1 \in r.parentLevels
    <3>1. p \in Nat
      OBVIOUS
    <3>2. l - 1 = p
      BY <2>2, <3>1
    <3> QED BY <3>2
  <2>3. ASSUME l - 1 \in r.parentLevels PROVE \E p \in r.parentLevels : p + 1 = l
    <3>1. (l - 1) + 1 = l
      BY <1>2
    <3> QED BY <2>3, <3>1
  <2> QED BY <1>3, <1>5, <2>1, <2>2, <2>3
<1> QED BY <1>4, <1>5

LEMMA OneTreeIs ==
  ASSUME Tree!TreeAssumption, Viewed(Tree!View)
  PROVE  Tree!OneTree
<1>1. PICK V : V = Tree!View /\ Viewed(V)
  OBVIOUS
<1>2. PICK A : A = [s \in Tree!ToSet(Tree!View) |-> Tree!Ancestry(s)]
  OBVIOUS
<1>3. \A s \in Among(V) : A[s] = Tree!Ancestry(s)
  BY <1>1, <1>2 DEF Among
<1>4. PathsOf(V, A) /\ \A s \in Among(V) : Head(A[s]) # Null <=> EndsStem(V, s)
  BY <1>1, <1>3, PathsAre
<1>5. PICK F : F = Tree!buildSpanTree(V)
  OBVIOUS
<1>6. F = Tree!Rows
  BY <1>1, <1>5 DEF Tree!Rows
<1>7. /\ F \in Seq(Tree!Row) /\ Len(F) \in Nat /\ Once(F) /\ InTurn(A, F) /\ Joined(F, <<>>)
      /\ \A i \in 1 .. Len(F) : /\ F[i].span \in Among(V) /\ EndsStem(V, F[i].span) /\ Lined(F[i])
                                /\ F[i].level \in Nat /\ F[i].level + 1 = Len(A[F[i].span])
                                /\ F[i].parentLevels \subseteq Nat
                                /\ Stem(V, A[F[i].span])
      /\ \A e : Stem(V, e) /\ Len(e) >= 1 => \E i \in 1 .. Len(F) : F[i].span = e[Len(e)] /\ A[F[i].span] = e
  BY <1>1, <1>4, <1>5, RowsStand
<1>8. PICK k \in Nat : k = Len(F)
  BY <1>7
<1>9. DOMAIN F = 1 .. k
  BY <1>7, <1>8
<1>10. Tree!RowsAreTheTree
  <2>1. {F[i].span : i \in DOMAIN F} = Tree!Reachable
    <3>1. \A s : s \in Tree!Reachable <=> s \in Among(V) /\ EndsStem(V, s)
      BY <1>1, <1>3, <1>4 DEF Tree!Reachable, Among
    <3>2. ASSUME NEW i \in 1 .. k PROVE F[i].span \in Tree!Reachable
      BY <1>7, <1>8, <3>1
    <3>3. ASSUME NEW s \in Among(V), EndsStem(V, s) PROVE \E i \in 1 .. k : F[i].span = s
      <4>1. PICK e : Stem(V, e) /\ Len(e) >= 1 /\ e[Len(e)] = s
        BY <3>3 DEF EndsStem
      <4> QED BY <1>7, <1>8, <4>1
    <3> QED BY <1>9, <3>1, <3>2, <3>3
  <2>2. \A i, j \in DOMAIN F : F[i].span = F[j].span => i = j
    BY <1>7, <1>8, <1>9 DEF Once
  <2>3. \A i \in DOMAIN F : F[i].level + 1 = Len(A[F[i].span])
    BY <1>7, <1>8, <1>9
  <2>4. ASSUME NEW i \in 2 .. Len(F) PROVE Tree!Follows(A[F[i].span], A[F[i - 1].span])
    <3>1. i - 1 \in 1 .. k /\ (i - 1) + 1 = i /\ i <= k
      BY <1>8
    <3>2. \A j \in 1 .. k : j + 1 <= k => Tree!Follows(A[F[j + 1].span], A[F[j].span])
      BY <1>7, <1>8 DEF InTurn
    <3> QED BY <3>1, <3>2
  <2> QED BY <1>2, <1>6, <2>1, <2>2, <2>3, <2>4 DEF Tree!RowsAreTheTree
<1>11. Tree!LinesJoinSiblings
  <2>1. ASSUME NEW i \in 1 .. k, NEW l \in 1 .. F[i].level
        PROVE  l \in Tree!Lines(F[i]) <=>
                 \E j \in i + 1 .. k : F[j].level = l /\ \A q \in i + 1 .. j : F[q].level >= l
    <3>1. PICK n \in Nat : n = F[i].level
      BY <1>7, <1>8
    <3>2. l \in Tree!Lines(F[i]) <=> l - 1 \in F[i].parentLevels
      BY <1>7, <1>8, LinesAre
    <3>3. l \in Nat /\ l >= 1 /\ l >= 0 /\ l <= F[i].level
      BY <3>1
    <3>4. l - 1 \in F[i].parentLevels <=> Joins(F, i, l)
      <4>1. PICK p : p = <<>>
        OBVIOUS
      <4>2. Len(p) = 0 /\ Joined(F, p)
        BY <1>7, <4>1
      <4> QED BY <1>8, <3>3, <4>2 DEF Joined
    <3>5. Joins(F, i, l) <=> \E j \in i + 1 .. k : F[j].level = l /\ \A q \in i + 1 .. j : F[q].level >= l
      <4>1. \A j : j \in 1 .. k /\ i < j <=> j \in i + 1 .. k
        BY <1>8
      <4>2. \A j \in 1 .. k : \A q : q \in 1 .. k /\ i < q /\ q <= j <=> q \in i + 1 .. j
        BY <1>8
      <4>3. Joins(F, i, l) <=> \E j \in 1 .. k : i < j /\ F[j].level = l /\ \A q \in 1 .. k : i < q /\ q <= j => F[q].level >= l
        BY <1>8 DEF Joins
      <4> QED BY <4>1, <4>2, <4>3
    <3> QED BY <3>2, <3>4, <3>5
  <2> QED BY <1>6, <1>8, <1>9, <2>1 DEF Tree!LinesJoinSiblings
<1>12. Tree!TreeAgrees
  <2>1. \A r : r \in Tree!ToSet(F) <=> \E i \in 1 .. k : F[i] = r
    BY <1>7, <1>8, AmongIs DEF Among
  <2>2. \A e : e \in Tree!Tree(V) <=> Stem(V, e) /\ Len(e) >= 1
    BY <1>1, TreeIs
  <2>3. ASSUME NEW e \in Tree!Tree(V) PROVE \E r \in Tree!ToSet(F) : e = Tree!Ancestry(r.span)
    <3>1. PICK i \in 1 .. k : A[F[i].span] = e
      BY <1>7, <1>8, <2>2
    <3>2. e = Tree!Ancestry(F[i].span)
      BY <1>3, <1>7, <1>8, <3>1
    <3> QED BY <2>1, <3>2
  <2>4. ASSUME NEW r \in Tree!ToSet(F) PROVE Tree!Ancestry(r.span) \in Tree!Tree(V)
    <3>1. PICK i \in 1 .. k : F[i] = r
      BY <2>1
    <3>2. PICK n \in Nat : n = r.level /\ Stem(V, A[r.span]) /\ n + 1 = Len(A[r.span]) /\ r.span \in Among(V)
      BY <1>7, <1>8, <3>1
    <3>3. Len(A[r.span]) >= 1
      BY <3>2
    <3> QED BY <1>3, <2>2, <3>2, <3>3
  <2> QED BY <1>1, <1>6, <2>3, <2>4 DEF Tree!TreeAgrees
<1> QED BY <1>10, <1>11, <1>12 DEF Tree!OneTree

-----------------------------------------------------------------------------
(* What isVisible meets on its way up a stem.                              *)
Meeting(g, V, s, i) ==
  g = [n \in 0 .. i |->
         LET id == g[n - 1]
         IN  IF n = 0 THEN s ELSE IF id \in Tree!ToSet(V) THEN parent[id] ELSE Null]

LEMMA MetOf ==
  ASSUME NEW s, NEW i PROVE Tree!Met(s, i) = (CHOOSE g : Meeting(g, Tree!View, s, i))[i]
BY DEF Tree!Met, Meeting

Meets(h, V, s, i) ==
  h[0] = s /\ \A n \in 1 .. i : h[n] = IF h[n - 1] \in Among(V) THEN parent[h[n - 1]] ELSE Null

LEMMA MeetingIsThere ==
  ASSUME NEW V, Viewed(V), NEW s \in Among(V), NEW i \in Nat
  PROVE  \E h : h = (CHOOSE g : Meeting(g, V, s, i)) /\ Meets(h, V, s, i)
<1>1. PICK D : D = Tree!Span \union {Null}
  OBVIOUS
<1>2. Among(V) \subseteq D /\ s \in D /\ Null \in D /\ \A t \in Among(V) : parent[t] \in D
  BY <1>1, AmongIs DEF Viewed, Sorted
<1> DEFINE step == [k \in 1 .. i |-> [v \in D |-> IF v \in Among(V) THEN parent[v] ELSE Null]]
<1>3. step \in [1 .. i -> [D -> D]]
  BY <1>2
<1>4. PICK g \in [0 .. i -> D] : Walking(g, i, s, step)
  <2> HIDE DEF step
  <2> QED BY <1>2, <1>3, WalkIsThere
<1>5. ASSUME NEW n \in 1 .. i
      PROVE  g[n] = IF g[n - 1] \in Among(V) THEN parent[g[n - 1]] ELSE Null
  <2>1. g[n] = step[n][g[n - 1]]
    <3> HIDE DEF step
    <3> QED BY <1>4 DEF Walking
  <2>2. n - 1 \in 0 .. i
    OBVIOUS
  <2>3. g[n - 1] \in D
    BY <1>4, <2>2
  <2> QED BY <2>1, <2>3
<1>6. g[0] = s
  <2> HIDE DEF step
  <2> QED BY <1>4 DEF Walking
<1> HIDE DEF step
<1>7. Meeting(g, V, s, i)
  <2> DEFINE nth(n) == IF n = 0 THEN s ELSE IF g[n - 1] \in Among(V) THEN parent[g[n - 1]] ELSE Null
  <2>1. ASSUME NEW n \in 0 .. i PROVE g[n] = nth(n)
    <3>1. CASE n = 0
      BY <1>6, <3>1
    <3>2. CASE n # 0
      <4>1. n \in 1 .. i
        BY <3>2
      <4>2. g[n] = IF g[n - 1] \in Among(V) THEN parent[g[n - 1]] ELSE Null
        BY <1>5, <4>1
      <4> QED BY <3>2, <4>2
    <3> QED BY <3>1, <3>2
  <2>2. g = [n \in 0 .. i |-> g[n]]
    BY <1>4
  <2>3. g = [n \in 0 .. i |-> nth(n)]
    <3> HIDE DEF nth
    <3> QED BY <2>1, <2>2
  <2> QED BY <2>3 DEF Meeting, Among
<1>8. PICK h : h = CHOOSE f : Meeting(f, V, s, i)
  OBVIOUS
<1>9. Meeting(h, V, s, i)
  BY <1>7, <1>8
<1>10. \A n \in 0 .. i : h[n] = IF n = 0 THEN s ELSE IF h[n - 1] \in Among(V) THEN parent[h[n - 1]] ELSE Null
  BY <1>9 DEF Meeting, Among
<1>11. Meets(h, V, s, i)
  <2>1. h[0] = s
    <3>1. 0 \in 0 .. i
      OBVIOUS
    <3> QED BY <1>10, <3>1
  <2>2. ASSUME NEW n \in 1 .. i
        PROVE  h[n] = IF h[n - 1] \in Among(V) THEN parent[h[n - 1]] ELSE Null
    <3>1. n \in 0 .. i /\ n # 0
      OBVIOUS
    <3> QED BY <1>10, <3>1
  <2> QED BY <2>1, <2>2 DEF Meets
<1> QED BY <1>8, <1>11

LEMMA MeetsStem ==
  ASSUME Tree!TreeAssumption, NEW V, Viewed(V), NEW e, Stem(V, e), NEW m \in Nat, m = Len(e), m >= 1,
         NEW i \in Nat, NEW h, Meets(h, V, e[m], i)
  PROVE  h[i] = IF i < m THEN e[m - i] ELSE Null
<1>1. \A k \in 1 .. m : e[k] \in Among(V) /\ parent[e[k]] = Over(e, k)
  BY StemIs DEF Stem
<1>2. Null \notin Among(V)
  BY AmongIs DEF Viewed, Sorted, Tree!TreeAssumption
<1> DEFINE S == {k \in 0 .. i : h[k] = IF k < m THEN e[m - k] ELSE Null}
<1>3. 0 \in S
  <2>1. h[0] = e[m] /\ m - 0 = m /\ 0 < m
    BY DEF Meets
  <2> QED BY <2>1
<1>4. ASSUME NEW k \in 0 .. i, k < i, k \in S PROVE k + 1 \in S
  <2>1. k + 1 \in 1 .. i /\ k + 1 \in 0 .. i /\ (k + 1) - 1 = k
    BY <1>4
  <2>2. h[k + 1] = IF h[k] \in Among(V) THEN parent[h[k]] ELSE Null
    BY <2>1 DEF Meets
  <2>3. h[k] = IF k < m THEN e[m - k] ELSE Null
    BY <1>4
  <2>4. CASE k < m
    <3>1. m - k \in 1 .. m
      BY <2>4
    <3>2. h[k + 1] = Over(e, m - k)
      BY <1>1, <2>2, <2>3, <2>4, <3>1
    <3>3. (m - k) - 1 = m - (k + 1) /\ (k + 1 < m <=> m - k # 1)
      BY <2>4
    <3>4. h[k + 1] = IF k + 1 < m THEN e[m - (k + 1)] ELSE Null
      BY <3>2, <3>3 DEF Over
    <3> QED BY <2>1, <3>4
  <2>5. CASE ~(k < m)
    <3>1. h[k + 1] = Null /\ ~(k + 1 < m)
      BY <1>2, <2>2, <2>3, <2>5
    <3> QED BY <2>1, <3>1
  <2> QED BY <2>4, <2>5
<1>5. i \in S
  <2>1. i \in 0 .. i
    OBVIOUS
  <2> HIDE DEF S
  <2> QED BY <1>3, <1>4, <2>1, UptoInduction
<1> QED BY <1>5

LEMMA AncestorIdsAre ==
  ASSUME Tree!TreeAssumption, NEW V, Viewed(V), V = Tree!View, NEW e, Stem(V, e),
         NEW m \in Nat, m = Len(e), m >= 1
  PROVE  \A t : t \in Tree!AncestorIds(e[m]) <=> \E j \in 1 .. m - 1 : t = e[j]
<1>1. PICK n \in Nat : n = Len(V) /\ m <= n
  BY StemFits, LenProperties DEF Viewed, Sorted
<1>2. e[m] \in Among(V) /\ \A j \in 1 .. m : e[j] # Null
  BY StemIs
<1>3. ASSUME NEW i \in 1 .. n PROVE Tree!Met(e[m], i) = IF i < m THEN e[m - i] ELSE Null
  <2>0. i \in Nat
    OBVIOUS
  <2>1. PICK h : h = (CHOOSE g : Meeting(g, V, e[m], i)) /\ Meets(h, V, e[m], i)
    BY <1>2, <2>0, MeetingIsThere
  <2>2. Tree!Met(e[m], i) = h[i]
    BY <2>1, MetOf
  <2>3. h[i] = IF i < m THEN e[m - i] ELSE Null
    BY <2>0, <2>1, MeetsStem
  <2> QED BY <2>2, <2>3
<1>4. Tree!AncestorIds(e[m]) = {Tree!Met(e[m], i) : i \in 1 .. n} \ {Null}
  BY <1>1 DEF Tree!AncestorIds
<1> TAKE t
<1>5. ASSUME t \in Tree!AncestorIds(e[m]) PROVE \E j \in 1 .. m - 1 : t = e[j]
  <2>1. PICK i \in 1 .. n : t = Tree!Met(e[m], i) /\ t # Null
    BY <1>4, <1>5
  <2>2. i < m /\ t = e[m - i]
    BY <1>3, <2>1
  <2>3. m - i \in 1 .. m - 1
    BY <2>2
  <2> QED BY <2>2, <2>3
<1>6. ASSUME NEW j \in 1 .. m - 1, t = e[j] PROVE t \in Tree!AncestorIds(e[m])
  <2>1. m - j \in 1 .. n /\ m - j < m /\ m - (m - j) = j /\ j \in 1 .. m
    BY <1>1
  <2>2. Tree!Met(e[m], m - j) = e[j]
    BY <1>3, <2>1
  <2> QED BY <1>2, <1>4, <1>6, <2>1, <2>2
<1> QED BY <1>5, <1>6

(* Of the collapsed ancestors of a hidden row, the first one shows.        *)
LEMMA NothingIsLost ==
  ASSUME Tree!TreeAssumption, Viewed(Tree!View)
  PROVE  Tree!HiddenCanBeShown
<1>1. PICK V : V = Tree!View /\ Viewed(V)
  OBVIOUS
<1>2. PICK A : A = [s \in Among(V) |-> Tree!Ancestry(s)]
  OBVIOUS
<1>3. \A s \in Among(V) : A[s] = Tree!Ancestry(s)
  BY <1>2
<1>4. PathsOf(V, A)
  BY <1>1, <1>3, PathsAre
<1>0. PICK F : F = Tree!buildSpanTree(V)
  OBVIOUS
<1>a. Viewed(V)
  BY <1>1
<1>5. F = Tree!Rows
  BY <1>0, <1>1 DEF Tree!Rows
<1>6. /\ F \in Seq(Tree!Row) /\ Len(F) \in Nat
      /\ \A i \in 1 .. Len(F) : EndsStem(V, F[i].span)
      /\ \A e : Stem(V, e) /\ Len(e) >= 1 => \E i \in 1 .. Len(F) : F[i].span = e[Len(e)]
  <2>1. /\ F \in Seq(Tree!Row) /\ Len(F) \in Nat /\ Once(F) /\ InTurn(A, F) /\ Joined(F, <<>>)
        /\ \A i \in 1 .. Len(F) : /\ F[i].span \in Among(V) /\ EndsStem(V, F[i].span) /\ Lined(F[i])
                                  /\ F[i].level \in Nat /\ F[i].level + 1 = Len(A[F[i].span])
                                  /\ F[i].parentLevels \subseteq Nat
                                  /\ Stem(V, A[F[i].span])
        /\ \A e : Stem(V, e) /\ Len(e) >= 1 => \E i \in 1 .. Len(F) : F[i].span = e[Len(e)] /\ A[F[i].span] = e
    BY <1>0, <1>a, <1>4, RowsStand
  <2> QED BY <2>1
<1>7. \A r : r \in Tree!ToSet(F) <=> \E i \in 1 .. Len(F) : F[i] = r
  BY <1>6, AmongIs DEF Among
<1>8. \A s : EndsStem(V, s) => \E r \in Tree!ToSet(F) : r.span = s
  BY <1>6, <1>7 DEF EndsStem
<1>9. ASSUME NEW s \in Among(V) PROVE Tree!Children(V, parent[s]) # <<>>
  <2>1. s \in Among(Tree!Children(V, parent[s])) /\ Tree!Children(V, parent[s]) \in Seq(Tree!Span)
    BY <1>1, ChildrenAre DEF Viewed
  <2>2. \E i \in 1 .. Len(Tree!Children(V, parent[s])) : Tree!Children(V, parent[s])[i] = s
    BY <2>1, AmongIs
  <2> QED BY <2>2
<1>10. ASSUME NEW r \in Tree!ToSet(F), r.span \notin Tree!Visible
       PROVE  \E id \in Tree!Toggles \intersect collapsed : id = Tree!TraceId \/ id \in Tree!AncestorIds(r.span)
  <2>1. PICK e : Stem(V, e) /\ Len(e) >= 1 /\ e[Len(e)] = r.span
    BY <1>6, <1>7 DEF EndsStem
  <2>2. PICK m \in Nat : m = Len(e) /\ m >= 1
    BY <1>1, <2>1, StemIs
  <2>3. \A j \in 1 .. m : e[j] \in Among(V) /\ parent[e[j]] = Over(e, j)
    BY <1>1, <2>1, <2>2, StemIs DEF Stem
  <2>4. CASE Tree!TraceId \in collapsed
    <3>1. 1 \in 1 .. m
      BY <2>2
    <3>2. e[1] \in Among(V) /\ parent[e[1]] = Null
      BY <2>3, <3>1 DEF Over
    <3>3. Tree!Children(Tree!View, Null) # <<>>
      BY <1>1, <1>9, <3>2
    <3>4. Tree!TraceId \in Tree!Toggles
      BY <3>3 DEF Tree!Toggles
    <3> QED BY <2>4, <3>4
  <2>5. CASE Tree!TraceId \notin collapsed
    <3>1. Tree!AncestorIds(r.span) \intersect collapsed # {}
      BY <1>5, <1>10, <2>5 DEF Tree!Visible, Tree!isVisible
    <3>2. \A t : t \in Tree!AncestorIds(r.span) <=> \E j \in 1 .. m - 1 : t = e[j]
      <4>1. \A t : t \in Tree!AncestorIds(e[m]) <=> \E j \in 1 .. m - 1 : t = e[j]
        BY <1>1, <2>1, <2>2, AncestorIdsAre
      <4> QED BY <2>1, <2>2, <4>1
    <3>3. PICK T : T = {j \in 1 .. m - 1 : e[j] \in collapsed}
      OBVIOUS
    <3>4. T \subseteq Nat /\ T # {}
      BY <3>1, <3>2, <3>3
    <3>5. PICK j \in T : \A k \in T : j <= k
      BY <3>4, LeastNumber
    <3>6. j \in 1 .. m - 1 /\ e[j] \in collapsed /\ j \in 0 .. Len(e) /\ j \in Nat /\ j >= 1
      BY <2>2, <3>3
    <3>7. PICK u : u = SubSeq(e, 1, j) /\ Stem(V, u) /\ Len(u) = j /\ \A k \in 1 .. j : u[k] = e[k]
      <4>1. Stem(V, e) /\ j \in 0 .. Len(e)
        BY <2>1, <3>6
      <4>2. /\ Stem(V, SubSeq(e, 1, j)) /\ Len(SubSeq(e, 1, j)) = j
            /\ \A k \in 1 .. j : SubSeq(e, 1, j)[k] = e[k]
        BY <4>1, StemTop
      <4> QED BY <4>2
    <3>8. u[j] = e[j]
      BY <3>6, <3>7
    <3>9. EndsStem(V, e[j])
      BY <3>6, <3>7, <3>8 DEF EndsStem
    <3>10. \A t : t \in Tree!AncestorIds(e[j]) <=> \E k \in 1 .. j - 1 : t = u[k]
      <4>1. \A t : t \in Tree!AncestorIds(u[j]) <=> \E k \in 1 .. j - 1 : t = u[k]
        <5>1. Stem(V, u) /\ j \in Nat /\ j = Len(u) /\ j >= 1
          BY <3>6, <3>7
        <5> QED BY <1>1, <5>1, AncestorIdsAre
      <4> QED BY <3>8, <4>1
    <3>11. Tree!AncestorIds(e[j]) \intersect collapsed = {}
      <4> SUFFICES ASSUME NEW k \in 1 .. j - 1, u[k] \in collapsed PROVE FALSE
        BY <3>10
      <4>1. k \in 1 .. j /\ k \in 1 .. m - 1 /\ k < j
        BY <2>2, <3>6
      <4>2. k \in T
        BY <3>3, <3>7, <4>1
      <4> QED BY <3>5, <3>6, <4>1, <4>2
    <3>12. e[j] \in Tree!Visible
      <4>1. e[j] \in {x.span : x \in Tree!ToSet(Tree!Rows)}
        BY <1>5, <1>8, <3>9
      <4> QED BY <2>5, <3>11, <4>1 DEF Tree!Visible, Tree!isVisible
    <3>13. Tree!Children(Tree!View, e[j]) # <<>>
      <4>1. j + 1 \in 1 .. m /\ j + 1 # 1 /\ (j + 1) - 1 = j
        BY <2>2, <3>6
      <4>2. parent[e[j + 1]] = e[j] /\ e[j + 1] \in Among(V)
        BY <2>3, <4>1 DEF Over
      <4> QED BY <1>1, <1>9, <4>2
    <3>14. e[j] \in Tree!Toggles
      BY <3>12, <3>13 DEF Tree!Toggles
    <3>15. e[j] \in Tree!AncestorIds(r.span)
      BY <3>2, <3>6
    <3> QED BY <3>6, <3>14, <3>15
  <2> QED BY <2>4, <2>5
<1> QED BY <1>5, <1>10 DEF Tree!HiddenCanBeShown

(* The rows are of the spans that end a stem.                              *)
LEMMA RowSpans ==
  ASSUME Tree!TreeAssumption, Viewed(Tree!View)
  PROVE  \A s : (\E r \in Tree!ToSet(Tree!Rows) : r.span = s) <=> EndsStem(Tree!View, s)
<1>1. PICK V : V = Tree!View /\ Viewed(V)
  OBVIOUS
<1>2. PICK A : A = [s \in Among(V) |-> Tree!Ancestry(s)]
  OBVIOUS
<1>3. \A s \in Among(V) : A[s] = Tree!Ancestry(s)
  BY <1>2
<1>4. PathsOf(V, A)
  BY <1>1, <1>3, PathsAre
<1>0. PICK F : F = Tree!buildSpanTree(V)
  OBVIOUS
<1>a. Viewed(V)
  BY <1>1
<1>5. F = Tree!Rows
  BY <1>0, <1>1 DEF Tree!Rows
<1>6. /\ F \in Seq(Tree!Row) /\ Len(F) \in Nat /\ Once(F) /\ InTurn(A, F) /\ Joined(F, <<>>)
      /\ \A i \in 1 .. Len(F) : /\ F[i].span \in Among(V) /\ EndsStem(V, F[i].span) /\ Lined(F[i])
                                /\ F[i].level \in Nat /\ F[i].level + 1 = Len(A[F[i].span])
                                /\ F[i].parentLevels \subseteq Nat
                                /\ Stem(V, A[F[i].span])
      /\ \A e : Stem(V, e) /\ Len(e) >= 1 => \E i \in 1 .. Len(F) : F[i].span = e[Len(e)] /\ A[F[i].span] = e
  BY <1>0, <1>a, <1>4, RowsStand
<1>7. \A r : r \in Tree!ToSet(F) <=> \E i \in 1 .. Len(F) : F[i] = r
  BY <1>6, AmongIs DEF Among
<1>8. \A s : (\E i \in 1 .. Len(F) : F[i].span = s) <=> EndsStem(V, s)
  BY <1>6 DEF EndsStem
<1> QED BY <1>1, <1>5, <1>7, <1>8

-----------------------------------------------------------------------------
(* The viewer.                                                             *)
TreeInv ==
  /\ parent \in Parents /\ stored \subseteq DOMAIN parent
  /\ fetched \in [ViewTraces -> Seq(Tree!Span)]
  /\ \A t \in ViewTraces : /\ Sorted(fetched[t])
                           /\ Among(fetched[t]) \subseteq {s \in stored : TraceOf[s] = t}
  /\ opened \in ViewTraces
  /\ collapsed \subseteq Tree!Span \union {Tree!TraceId}
  /\ selection \in Tree!Span \union {Tree!TraceId} /\ resets \in BOOLEAN
  /\ ~resets /\ selection # Tree!TraceId => EndsStem(Tree!View, selection)

LEMMA TreeIsViewed ==
  ASSUME Tree!TreeAssumption, TreeInv
  PROVE  Viewed(Tree!View) /\ Among(Tree!View) \subseteq {s \in stored : TraceOf[s] = opened}
<1>1. opened \in ViewTraces /\ Tree!View = fetched[opened]
  BY DEF TreeInv, Tree!View
<1>2. Sorted(Tree!View) /\ Among(Tree!View) \subseteq {s \in stored : TraceOf[s] = opened}
  BY <1>1 DEF TreeInv
<1>3. ASSUME NEW s \in Among(Tree!View) PROVE parent[s] \in Tree!Span \union {Null}
  <2>1. s \in DOMAIN parent /\ parent \in Parents
    BY <1>2 DEF TreeInv
  <2>2. parent \in [DOMAIN parent -> Tree!Span \union {Null}]
    BY <2>1 DEF Tree!TreeAssumption
  <2> QED BY <2>1, <2>2
<1> QED BY <1>2, <1>3 DEF Viewed

LEMMA TreeInvShows ==
  ASSUME Tree!TreeAssumption, TreeInv
  PROVE  Tree!TypeOK /\ Tree!OneTree /\ Tree!PanelIsSound
<1>1. Viewed(Tree!View)
  BY TreeIsViewed
<1>2. Tree!TypeOK
  BY DEF TreeInv, Tree!TypeOK, Among
<1>3. Tree!OneTree
  BY <1>1, OneTreeIs
<1>4. Tree!HiddenCanBeShown
  BY <1>1, NothingIsLost
<1>5. Tree!SelectionIsOfTrace
  <2> SUFFICES ASSUME ~resets, selection # Tree!TraceId
               PROVE  \E r \in Tree!ToSet(Tree!Rows) : r.span = selection
    BY DEF Tree!SelectionIsOfTrace
  <2>1. EndsStem(Tree!View, selection)
    BY DEF TreeInv
  <2> QED BY <1>1, <2>1, RowSpans
<1> QED BY <1>2, <1>3, <1>4, <1>5 DEF Tree!PanelIsSound

(* What a span was selected in stays, and more may come.                   *)
SelectionStays == EndsStem(Tree!View, selection)

LEMMA StemsStay ==
  ASSUME parent' = parent, selection' = selection, Among(Tree!View) \subseteq Among(Tree!View'), SelectionStays
  PROVE  SelectionStays'
<1>1. PICK p : Stem(Tree!View, p) /\ Len(p) >= 1 /\ p[Len(p)] = selection
  BY DEF SelectionStays, EndsStem
<1>2. p \in Seq(Among(Tree!View)) /\ \A i \in 1 .. Len(p) : parent'[p[i]] = Over(p, i)
  BY <1>1 DEF Stem
<1>3. p \in Seq(Among(Tree!View'))
  BY <1>2, SeqMonotonic
<1>4. Stem(Tree!View, p)'
  BY <1>2, <1>3 DEF Stem
<1> QED BY <1>1, <1>4 DEF SelectionStays, EndsStem

LEMMA TreeBegins ==
  ASSUME Tree!TreeAssumption, Tree!Init PROVE TreeInv
<1>1. /\ parent \in Parents /\ stored = {} /\ fetched = [t \in ViewTraces |-> <<>>]
      /\ opened \in ViewTraces /\ collapsed = {} /\ selection = Tree!TraceId /\ resets = FALSE
  BY DEF Tree!Init
<1>2. fetched \in [ViewTraces -> Seq(Tree!Span)]
  BY <1>1
<1>3. PICK e : e = <<>>
  OBVIOUS
<1>4. e \in Seq(Tree!Span) /\ Len(e) = 0
  BY <1>3
<1>5. Sorted(e)
  BY <1>4 DEF Sorted
<1>6. \A s : s \notin Among(e)
  <2>1. \A s : s \in Among(e) <=> \E i \in 1 .. Len(e) : e[i] = s
    BY <1>4, AmongIs
  <2> QED BY <1>4, <2>1
<1>7. ASSUME NEW t \in ViewTraces
      PROVE  Sorted(fetched[t]) /\ Among(fetched[t]) \subseteq {s \in stored : TraceOf[s] = t}
  <2>1. fetched[t] = e
    BY <1>1, <1>3
  <2> QED BY <1>5, <1>6, <2>1
<1> QED BY <1>1, <1>2, <1>7 DEF TreeInv

LEMMA TreeStep ==
  ASSUME Tree!TreeAssumption, TreeInv, Tree!Next PROVE TreeInv'
<1> USE DEF TreeInv
<1>1. CASE Tree!Arrive
  <2>1. PICK x \in DOMAIN parent \ stored : stored' = stored \union {x}
    BY <1>1 DEF Tree!Arrive
  <2>2. UNCHANGED <<parent, fetched, opened, collapsed, selection, resets>>
    BY <1>1 DEF Tree!Arrive
  <2>3. Tree!View' = Tree!View
    BY <2>2 DEF Tree!View
  <2>4. SelectionStays => SelectionStays'
    BY <2>2, <2>3, StemsStay
  <2>5. \A t \in ViewTraces : /\ Sorted(fetched'[t])
                              /\ Among(fetched'[t]) \subseteq {s \in stored' : TraceOf[s] = t}
    BY <2>1, <2>2
  <2> QED BY <2>1, <2>2, <2>4, <2>5 DEF SelectionStays
<1>2. CASE Tree!Fetch
  <2>1. PICK T : T = {s \in stored : TraceOf[s] = opened}
    OBVIOUS
  <2>2. PICK W : W = Tree!Filter(SpanOrder, T)
    OBVIOUS
  <2>3. fetched' = [fetched EXCEPT ![opened] = W] /\ UNCHANGED <<parent, stored, opened, collapsed, selection, resets>>
    BY <1>2, <2>1, <2>2 DEF Tree!Fetch
  <2>4. Sorted(SpanOrder)
    BY OrderIsSorted
  <2>5. Sorted(W) /\ W \in Seq(Tree!Span) /\ \A s : s \in Among(W) <=> s \in Among(SpanOrder) /\ s \in T
    BY <2>2, <2>4, FilterKeeps
  <2>6. Among(SpanOrder) = Tree!Span
    BY DEF Among, Tree!Span
  <2>7. fetched' \in [ViewTraces -> Seq(Tree!Span)] /\ fetched'[opened] = W
    BY <2>3, <2>5
  <2>8. ASSUME NEW t \in ViewTraces
        PROVE  Sorted(fetched'[t]) /\ Among(fetched'[t]) \subseteq {s \in stored' : TraceOf[s] = t}
    <3>1. CASE t = opened
      BY <2>1, <2>3, <2>5, <2>7, <3>1
    <3>2. CASE t # opened
      <4>1. fetched'[t] = fetched[t]
        BY <2>3, <3>2
      <4> QED BY <2>3, <4>1
    <3> QED BY <3>1, <3>2
  <2>9. Among(Tree!View) \subseteq Among(Tree!View')
    <3>1. Tree!View = fetched[opened] /\ Tree!View' = W
      BY <2>3, <2>7 DEF Tree!View
    <3>2. Among(fetched[opened]) \subseteq T
      BY <2>1
    <3>3. Among(fetched[opened]) \subseteq Tree!Span
      BY AmongIs
    <3> QED BY <2>5, <2>6, <3>1, <3>2, <3>3
  <2>10. SelectionStays => SelectionStays'
    BY <2>3, <2>9, StemsStay
  <2> QED BY <2>3, <2>7, <2>8, <2>10 DEF SelectionStays
<1>3. CASE Tree!Navigate
  <2>1. /\ opened' \in ViewTraces /\ collapsed' \subseteq collapsed /\ resets' = TRUE
        /\ UNCHANGED <<parent, stored, fetched, selection>>
    BY <1>3 DEF Tree!Navigate
  <2> QED BY <2>1
<1>4. CASE Tree!Reopen
  <2>1. /\ opened' \in ViewTraces /\ collapsed' = {} /\ selection' = Tree!TraceId /\ resets' = TRUE
        /\ UNCHANGED <<parent, stored, fetched>>
    BY <1>4 DEF Tree!Reopen
  <2> QED BY <2>1
<1>5. CASE Tree!Reset
  <2>1. /\ selection' = Tree!TraceId /\ resets' = FALSE
        /\ UNCHANGED <<parent, stored, fetched, opened, collapsed>>
    BY <1>5 DEF Tree!Reset
  <2> QED BY <2>1
<1>6. Tree!Visible \subseteq Tree!Span /\ \A s \in Tree!Visible : EndsStem(Tree!View, s)
  <2>1. Viewed(Tree!View)
    BY TreeIsViewed
  <2>2. \A s : (\E r \in Tree!ToSet(Tree!Rows) : r.span = s) <=> EndsStem(Tree!View, s)
    BY <2>1, RowSpans
  <2>3. \A s \in Tree!Visible : \E r \in Tree!ToSet(Tree!Rows) : r.span = s
    BY DEF Tree!Visible
  <2>4. ASSUME NEW s, EndsStem(Tree!View, s) PROVE s \in Tree!Span
    <3>1. PICK p : Stem(Tree!View, p) /\ Len(p) >= 1 /\ p[Len(p)] = s
      BY <2>4 DEF EndsStem
    <3>2. Len(p) \in 1 .. Len(p)
      BY <2>1, <3>1, StemIs
    <3> QED BY <2>1, <3>1, <3>2, StemIs
  <2> QED BY <2>2, <2>3, <2>4
<1>7. CASE Tree!Select
  <2>1. /\ selection' \in Tree!Visible \union {Tree!TraceId}
        /\ UNCHANGED <<parent, stored, fetched, opened, collapsed, resets>>
    BY <1>7 DEF Tree!Select
  <2>2. Tree!View' = Tree!View
    BY <2>1 DEF Tree!View
  <2>3. selection' # Tree!TraceId => EndsStem(Tree!View, selection')
    BY <1>6, <2>1
  <2>4. selection' # Tree!TraceId => SelectionStays'
    BY <2>1, <2>2, <2>3 DEF SelectionStays, EndsStem, Stem
  <2> QED BY <1>6, <2>1, <2>4 DEF SelectionStays
<1>8. CASE Tree!Toggle
  <2>1. PICK id \in Tree!Toggles :
          collapsed' = IF id \in collapsed THEN collapsed \ {id} ELSE collapsed \union {id}
    BY <1>8 DEF Tree!Toggle
  <2>2. UNCHANGED <<parent, stored, fetched, opened, selection, resets>>
    BY <1>8 DEF Tree!Toggle
  <2>3. Tree!View' = Tree!View
    BY <2>2 DEF Tree!View
  <2>4. SelectionStays => SelectionStays'
    BY <2>2, <2>3, StemsStay
  <2>5. id \in Tree!Span \union {Tree!TraceId}
    BY <1>6 DEF Tree!Toggles
  <2> QED BY <2>1, <2>2, <2>4, <2>5 DEF SelectionStays
<1> QED BY <1>1, <1>2, <1>3, <1>4, <1>5, <1>7, <1>8 DEF Tree!Next

LEMMA TreeStutter ==
  ASSUME TreeInv, UNCHANGED treeVars PROVE TreeInv'
BY DEF TreeInv, treeVars, Tree!View, EndsStem, Stem

-----------------------------------------------------------------------------
(* Both: each part keeps its own invariant.                                *)

DeskInv ==
  /\ part = "tree"  => TreeInv
  /\ part = "tools" => ToolInv

LEMMA DeskBegins == DeskInit => DeskInv
<1>1. Tree!Init => TreeInv
  BY TreeBegins, DeskAssumption
<1>2. Tools!Init => ToolInv
  BY ToolsBegin, DeskAssumption
<1> QED BY <1>1, <1>2 DEF DeskInit, DeskInv

LEMMA DeskStep ==
  ASSUME DeskInv, [DeskNext]_deskVars
  PROVE  DeskInv' /\ (part = "tools" => Tools!ReadsOn \/ UNCHANGED deskVars)
<1>1. part' = part
  BY DEF DeskNext, deskVars
<1>2. part = "tree" => Tree!Next \/ UNCHANGED treeVars
  BY DEF DeskNext, deskVars
<1>3. part = "tools" => Tools!Next \/ UNCHANGED deskVars
  BY DEF DeskNext
<1>4. part = "tree" => TreeInv'
  BY <1>2, TreeStep, TreeStutter, DeskAssumption DEF DeskInv
<1>5. UNCHANGED deskVars => UNCHANGED toolVars
  BY DEF deskVars
<1>6. part = "tools" => ToolInv'
  BY <1>3, <1>5, ToolsStep, ToolsStutter, DeskAssumption DEF DeskInv
<1>7. part = "tools" => Tools!ReadsOn \/ UNCHANGED deskVars
  BY <1>3, ToolsStep, DeskAssumption DEF DeskInv
<1> QED BY <1>1, <1>4, <1>6, <1>7 DEF DeskInv

LEMMA DeskAlways == DeskSpec => []DeskInv
<1>1. DeskInv /\ [DeskNext]_deskVars => DeskInv'
  BY DeskStep
<1> QED BY <1>1, DeskBegins, PTL DEF DeskSpec

(* What the viewer has fetched of a trace are spans of it that have been   *)
(* ingested, and what is collapsed or selected are spans or the trace      *)
(* (TraceViewerPanel); a read stands at a line of the file (sandbox.ts).   *)
THEOREM DeskTypeCorrect == DeskSpec => []DeskTypeOK
<1>1. DeskInv => DeskTypeOK
  <2>1. TreeInv => Tree!TypeOK
    BY TreeInvShows, DeskAssumption
  <2>2. ToolInv => Tools!TypeOK
    BY ToolInvTypes, DeskAssumption
  <2> QED BY <2>1, <2>2 DEF DeskInv, DeskTypeOK
<1> QED BY <1>1, DeskAlways, PTL

(* The rows of the viewer are the tree of the spans that have arrived, in  *)
(* whatever order they did: one for each span whose ancestors are there,   *)
(* below its parent's, a subtree in one piece and siblings by their start  *)
(* (buildSpanTree); the lines beside them join siblings, as the levels of  *)
(* their parents are handed down (SpanTreeConnector); the tree the agent   *)
(* downloads is the same; whatever is hidden can be shown again, and what  *)
(* is selected has a row (SpanTreeView, TraceViewerPanel).                 *)
THEOREM TheTreeIsOne == DeskSpec => []TreeIsFaithful
<1>1. TreeInv => Tree!OneTree /\ Tree!PanelIsSound
  BY TreeInvShows, DeskAssumption
<1>2. DeskInv => TreeIsFaithful
  BY <1>1 DEF DeskInv, TreeIsFaithful
<1> QED BY <1>2, DeskAlways, PTL

(* Whoever reads a file by the offsets that read names gets to its end,    *)
(* sees each line once and in its order, and none is cut but one that      *)
(* could not be shown at all; and what a command says is its last lines    *)
(* (agent file tools: truncateHead, truncateTail, read and bash).          *)
THEOREM ReadingGetsThrough == DeskSpec => ReadingIsFaithful
<1>1. DeskInv /\ [DeskNext]_deskVars =>
        DeskInv' /\ [part = "tools" => Tools!ReadsOn]_deskVars
  BY DeskStep
<1> QED BY <1>1, DeskBegins, PTL DEF DeskSpec, ReadingIsFaithful
=============================================================================
