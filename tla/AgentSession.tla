---------------------------- MODULE AgentSession ----------------------------
(***************************************************************************)
(* One chat session in the agent service: messages that stream an answer,  *)
(* the agent and the sandbox the process keeps for the session, DELETE of  *)
(* the session, shutdown, crash and restart.  Handlers share one event     *)
(* loop and interleave at their awaits.                                    *)
(*                                                                         *)
(* An agent, an executor and a container carry the name of the message     *)
(* that made them.                                                         *)
(***************************************************************************)
EXTENDS Naturals, FiniteSets

CONSTANTS
  Msg,      (* POST messages to the session                                *)
  Del,      (* DELETEs of the session                                      *)
  Sig,      (* SIGTERM                                                     *)
  None

ASSUME AgentSessionAssumption == None \notin Msg /\ Sig \notin Del

VARIABLES
  up,        (* "up", "stopping" (signalled), "exited" (after it), "crashed" *)
  row,       (* the session is in the database                             *)
  asked,     (* messages whose question is in the database                 *)
  answered,  (* messages whose answer is                                   *)
  executor,  (* sessionExecutors                                           *)
  box,       (* containerId of each executor                               *)
  running,   (* containers that Docker runs                                *)
  agent,     (* sessionAgents                                              *)
  knows,     (* questions in the context of each agent                     *)
  busy,      (* agents whose prompt runs                                   *)
  msg, del,  (* handlers: of messages; of DELETEs and the signal           *)
  rough      (* history: a request met another one, or the process crashed *)

db     == <<row, asked, answered>>
maps   == <<executor, agent>>
boxes  == <<box, running>>
vars   == <<up, db, maps, boxes, knows, busy, msg, del, rough>>

Enders == Del \cup {Sig}
NewMsg == [st |-> "new", agent |-> None, executor |-> None, boxed |-> FALSE]
NewDel == [st |-> "new", executor |-> None, box |-> None]

Init ==
  /\ up = "up" /\ row = TRUE /\ asked = {} /\ answered = {}
  /\ executor = None /\ agent = None
  /\ box = [m \in Msg |-> None] /\ running = {}
  /\ knows = [m \in Msg |-> {}] /\ busy = {}
  /\ msg = [m \in Msg |-> NewMsg]
  /\ del = [d \in Enders |-> NewDel]
  /\ rough = FALSE

MsgStates == {"new", "context", "question", "prompt", "answering", "starting",
              "save", "done", "empty", "failed", "cut"}
MsgOver(m) == msg[m].st \in {"done", "empty", "failed", "cut"}
UnderWay == \/ \E m \in Msg : ~MsgOver(m) /\ msg[m].st # "new"
            \/ \E d \in Enders : del[d].st \in {"destroy", "row"}
            \/ up = "stopping"
Alive == up \in {"up", "stopping"}
At(m, st) == Alive /\ msg[m].st = st
Go(m, st) == msg' = [msg EXCEPT ![m].st = st]

-----------------------------------------------------------------------------
(* POST messages.                                                          *)

(* The executor and the agent of the session are taken from the maps, or   *)
(* made.  An agent keeps the tools, and so the executor, it was made with; *)
(* another model means another agent.                                      *)
Arrive(m) ==
  /\ At(m, "new")
  /\ rough' = (rough \/ UnderWay)
  /\ executor' = IF executor = None THEN m ELSE executor
  /\ \/ /\ agent # None
        /\ msg' = [msg EXCEPT ![m] = [NewMsg EXCEPT !.st = "question", !.agent = agent,
                                          !.executor = msg[agent].executor]]
        /\ UNCHANGED agent
     \/ /\ agent' = None
        /\ msg' = [msg EXCEPT ![m] = [NewMsg EXCEPT !.st = "context", !.agent = m,
                                                  !.executor = executor']]
  /\ UNCHANGED <<up, db, boxes, knows, busy, del>>

LoadNothing(m) ==  \* mutant: the agent starts with an empty history
  /\ At(m, "context")
  /\ knows' = [knows EXCEPT ![m] = {}]
  /\ agent' = m
  /\ Go(m, "question")
  /\ UNCHANGED <<up, db, executor, boxes, busy, del, rough>>

(* Only questions are restored from the database.                          *)
LoadContext(m) ==
  /\ At(m, "context")
  /\ knows' = [knows EXCEPT ![m] = asked]
  /\ agent' = m
  /\ Go(m, "question")
  /\ UNCHANGED <<up, db, executor, boxes, busy, del, rough>>

SaveQuestion(m) ==
  /\ At(m, "question")
  /\ IF row THEN asked' = asked \cup {m} /\ Go(m, "prompt")
            ELSE UNCHANGED asked /\ Go(m, "failed")
  /\ UNCHANGED <<up, row, answered, maps, boxes, knows, busy, del, rough>>

(* An agent that is prompting refuses; the error ends the stream.          *)
Prompt(m) ==
  /\ At(m, "prompt")
  /\ IF msg[m].agent \in busy
     THEN Go(m, "failed") /\ UNCHANGED <<busy, knows>>
     ELSE /\ busy' = busy \cup {msg[m].agent}
          /\ knows' = [knows EXCEPT ![msg[m].agent] = @ \cup {m}]
          /\ Go(m, "answering")
  /\ UNCHANGED <<up, db, maps, boxes, del, rough>>

(* A tool finds the executor not ready and starts a container.             *)
StartBox(m) ==
  /\ At(m, "answering") /\ ~msg[m].boxed /\ box[msg[m].executor] = None
  /\ msg' = [msg EXCEPT ![m].st = "starting", ![m].boxed = TRUE]
  /\ UNCHANGED <<up, db, maps, boxes, knows, busy, del, rough>>

BoxStarted(m) ==
  /\ At(m, "starting")
  /\ running' = running \cup {m}
  /\ box' = [box EXCEPT ![msg[m].executor] = m]
  /\ Go(m, "answering")
  /\ UNCHANGED <<up, db, maps, knows, busy, del, rough>>

(* The model has answered, said nothing, or could not be reached.          *)
PromptEnds(m) ==
  /\ At(m, "answering")
  /\ busy' = busy \ {msg[m].agent}
  /\ \E st \in {"save", "empty", "failed"} : Go(m, st)
  /\ UNCHANGED <<up, db, maps, boxes, knows, del, rough>>

(* Everything of the process is gone; the database, Docker and what Docker *)
(* has been asked to start stay.                                           *)
Gone(how) ==
  /\ up' = how
  /\ executor' = None /\ agent' = None /\ busy' = {}
  /\ box' = [m \in Msg |-> None] /\ knows' = [m \in Msg |-> {}]
  /\ \E S \in SUBSET {m \in Msg : At(m, "starting")} : running' = running \cup S
  /\ msg' = [m \in Msg |-> IF MsgOver(m) \/ msg[m].st = "new" THEN msg[m]
                           ELSE [NewMsg EXCEPT !.st = "cut"]]
  /\ del' = [d \in Enders |-> IF d = Sig \/ del[d].st = "new" THEN NewDel
                              ELSE [NewDel EXCEPT !.st = "done"]]

DoneFirst(m) ==  \* mutant: done is sent before the answer is stored
  /\ At(m, "save") /\ Go(m, "done") /\ UNCHANGED answered
  /\ UNCHANGED <<up, row, asked, maps, boxes, knows, busy, del, rough>>

SaveAnswerLate(m) ==  \* mutant: the session need not be there any more
  /\ At(m, "save")
  /\ answered' = answered \cup {m} /\ Go(m, "done")
  /\ UNCHANGED <<up, row, asked, maps, boxes, knows, busy, del, rough>>

SaveAnswer(m) ==
  /\ At(m, "save") /\ row
  /\ answered' = answered \cup {m} /\ Go(m, "done")
  /\ UNCHANGED <<up, row, asked, maps, boxes, knows, busy, del, rough>>

ErrorSwallowed(m) ==  \* mutant: nobody hears of the rejection
  /\ At(m, "save") /\ UNCHANGED vars

(* onDone is not awaited: what it throws is an unhandled rejection, which  *)
(* ends the process.                                                       *)
SaveAnswerFails(m) ==
  /\ At(m, "save")
  /\ Gone("crashed")
  /\ rough' = TRUE
  /\ UNCHANGED db

-----------------------------------------------------------------------------
(* DELETE session, and the signal's handler, which destroys the executors  *)
(* in the map one after the other while requests are still served.         *)
Ended(d, st) ==
  /\ executor' = None
  /\ IF d = Sig THEN UNCHANGED agent ELSE agent' = None
  /\ del' = [del EXCEPT ![d] = [NewDel EXCEPT !.st = st]]
After(d) == IF d = Sig THEN "new" ELSE "row"

(* destroy() is over at once when there is no container (yet).             *)
Begin(d) ==
  /\ Alive /\ del[d].st = "new"
  /\ d = Sig => up = "stopping" /\ executor # None
  /\ rough' = (rough \/ (d # Sig /\ UnderWay))
  /\ IF executor # None /\ box[executor] # None
     THEN /\ del' = [del EXCEPT ![d] = [st |-> "destroy", executor |-> executor,
                                       box |-> box[executor]]]
          /\ UNCHANGED maps
     ELSE Ended(d, After(d))
  /\ UNCHANGED <<up, db, boxes, knows, busy, msg>>

DestroyedNot(d) ==  \* mutant: the maps are cleared and the container stays
  /\ Alive /\ del[d].st = "destroy"
  /\ Ended(d, After(d))
  /\ UNCHANGED <<up, db, boxes, knows, busy, msg, rough>>

(* docker rm ends; then containerId and the map's entry, whatever they are *)
(* by now.                                                                 *)
Destroyed(d) ==
  /\ Alive /\ del[d].st = "destroy"
  /\ running' = running \ {del[d].box}
  /\ box' = [box EXCEPT ![del[d].executor] = None]
  /\ Ended(d, After(d))
  /\ UNCHANGED <<up, db, knows, busy, msg, rough>>

(* Messages go with their session.                                         *)
DeleteRow(d) ==
  /\ Alive /\ del[d].st = "row"
  /\ row' = FALSE /\ asked' = {} /\ answered' = {}
  /\ del' = [del EXCEPT ![d].st = "done"]
  /\ UNCHANGED <<up, maps, boxes, knows, busy, msg, rough>>

Signal ==
  /\ up = "up" /\ up' = "stopping"
  /\ rough' = (rough \/ UnderWay)
  /\ UNCHANGED <<db, maps, boxes, knows, busy, msg, del>>

(* The map is empty: the process exits, whatever is under way.             *)
Exit ==
  /\ up = "stopping" /\ del[Sig].st = "new" /\ executor = None
  /\ Gone("exited")
  /\ UNCHANGED <<db, rough>>

Restart ==
  /\ ~Alive /\ up' = "up"
  /\ UNCHANGED <<db, maps, boxes, knows, busy, msg, del, rough>>

-----------------------------------------------------------------------------
Handle(m) == \/ LoadContext(m) \/ SaveQuestion(m) \/ Prompt(m) \/ BoxStarted(m)
             \/ PromptEnds(m) \/ SaveAnswer(m) \/ SaveAnswerFails(m)
End(d) == Destroyed(d) \/ DeleteRow(d)

Next == \/ \E m \in Msg : Arrive(m) \/ StartBox(m) \/ Handle(m)
        \/ \E d \in Enders : Begin(d) \/ End(d)
        \/ Signal \/ Exit \/ Restart

Spec == Init /\ [][Next]_vars

(* A handler that has begun goes on: queries, Docker and the model end.    *)
FairSpec == /\ Spec
            /\ \A m \in Msg : WF_vars(Handle(m))
            /\ \A d \in Enders : WF_vars(End(d))

-----------------------------------------------------------------------------
(* Types: maps, handlers and containers as the code can have them.         *)
TypeOK ==
  /\ up \in {"up", "stopping", "exited", "crashed"} /\ row \in BOOLEAN /\ rough \in BOOLEAN
  /\ asked \in SUBSET Msg /\ answered \in SUBSET asked
  /\ executor \in Msg \cup {None} /\ agent \in Msg \cup {None}
  /\ box \in [Msg -> Msg \cup {None}] /\ running \in SUBSET Msg
  /\ knows \in [Msg -> SUBSET Msg] /\ busy \in SUBSET Msg
  /\ msg \in [Msg -> [st : MsgStates, agent : Msg \cup {None},
                     executor : Msg \cup {None}, boxed : BOOLEAN]]
  /\ del \in [Enders -> [st : {"new", "destroy", "row", "done"},
                        executor : Msg \cup {None}, box : Msg \cup {None}]]

(* A container nothing will ever remove: the executor in the map does not  *)
(* have it, and nobody is removing it.                                     *)
Leaked == {c \in running : /\ executor = None \/ box[executor] # c
                           /\ \A d \in Enders : del[d].box # c}

(* Requests that follow one another, deletion and shutdown included, leave *)
(* no container behind.                                                    *)
LeakNeedsOverlap == Leaked # {} => rough

(* As long as requests follow one another, the agent that answers has all  *)
(* questions of the session in its context, after a restart and a change   *)
(* of model too.                                                           *)
ContextIsComplete ==
  ~rough => \A m \in Msg : msg[m].st \in {"answering", "starting"} =>
                             asked \subseteq knows[msg[m].agent]

(* A stream that said done has its answer in the database, with the usage  *)
(* that is billed, until the session is deleted.                           *)
DoneIsStored == row => \A m \in Msg : msg[m].st = "done" => m \in answered

(* The conversation is whole: its questions in the context of the agent,   *)
(* its finished answers in the database.                                   *)
HistoryIsComplete == ContextIsComplete /\ DoneIsStored

(* No stream stays open for ever.                                          *)
EveryStreamEnds == \A m \in Msg : msg[m].st # "new" ~> MsgOver(m)
=============================================================================
