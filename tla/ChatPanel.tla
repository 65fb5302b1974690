----------------------------- MODULE ChatPanel -----------------------------
(***************************************************************************)
(* The chat panel in the browser: useAiChat, which keeps the session and   *)
(* creates one when the first message is sent, and useAIStream, which      *)
(* turns the events of a stream into bubbles.  All sends share one set of  *)
(* refs; the input stays enabled while a stream runs, and sessions can be  *)
(* changed at any time.                                                    *)
(***************************************************************************)
EXTENDS Naturals

CONSTANTS
  Send,        (* messages the user sends                                  *)
  Old,         (* sessions in the history                                  *)
  MaxBubbles,  (* bound: text bubbles a stream opens                       *)
  None

ChatPanelAssumption == MaxBubbles \in Nat /\ None \notin Send \cup Old

VARIABLES
  session,     (* sessionIdRef; a new session has the name of its send     *)
  sending,     (* isSending                                                *)
  streaming,   (* isStreaming of the stream hook                           *)
  shown,       (* messages: of a session; a bubble, question or old row    *)
  live,        (* bubbles that have isStreaming                            *)
  text,        (* the sends whose text is in a bubble                      *)
  cur,         (* currentTextIdRef                                         *)
  ctl,         (* abortRef and readerRef                                   *)
  st, to,      (* each send and the session it goes to                     *)
  stopped,     (* sends whose request was aborted                          *)
  opened,      (* bubbles each stream has opened                           *)
  loading,     (* sessions whose messages are being fetched                *)
  overlap      (* history: something was begun while something else ran    *)

refs  == <<cur, ctl>>
msgs  == <<shown, live, text>>
sends == <<st, to, stopped, opened>>
vars  == <<session, sending, streaming, msgs, refs, sends, loading, overlap>>

Session == Old \cup Send
Bubble == [by : Send, n : 1..MaxBubbles]
NoBubble == [by |-> None, n |-> 0]

Init ==
  /\ session = None /\ sending = FALSE /\ streaming = FALSE
  /\ shown = {} /\ live = {} /\ text = [b \in Bubble |-> {}]
  /\ cur = NoBubble /\ ctl = [abort |-> None, reader |-> None]
  /\ st = [s \in Send |-> "new"] /\ to = [s \in Send |-> None]
  /\ stopped = {} /\ opened = [s \in Send |-> 0]
  /\ loading = {} /\ overlap = FALSE

Running == {s \in Send : st[s] \in {"creating", "fetching", "reading"}}
Busy == Running # {} \/ loading # {}
Msg(s, b) == [of |-> to[s], bubble |-> b]
NextBubble(s) == [by |-> s, n |-> opened[s] + 1]

-----------------------------------------------------------------------------
(* handleSend and sendMessage.                                             *)

(* The part of sendMessage before the request.                             *)
Begin(s, ses) ==
  /\ st' = [st EXCEPT ![s] = "fetching"] /\ to' = [to EXCEPT ![s] = ses]
  /\ shown' = shown \cup {[of |-> ses, bubble |-> [by |-> s, n |-> 0]]}
  /\ streaming' = TRUE /\ sending' = FALSE
  /\ cur' = NoBubble /\ ctl' = [ctl EXCEPT !.abort = s]

HandleSend(s) ==
  /\ st[s] = "new"
  /\ overlap' = (overlap \/ Busy)
  /\ IF session # None THEN Begin(s, session)
     ELSE /\ st' = [st EXCEPT ![s] = "creating"] /\ sending' = TRUE
          /\ UNCHANGED <<streaming, shown, refs, to>>
  /\ UNCHANGED <<session, live, text, stopped, opened, loading>>

SessionCreated(s) ==
  /\ st[s] = "creating"
  /\ session' = s
  /\ Begin(s, s)
  /\ UNCHANGED <<live, text, stopped, opened, loading, overlap>>

SessionFails(s) ==
  /\ st[s] = "creating"
  /\ st' = [st EXCEPT ![s] = "over"] /\ sending' = FALSE
  /\ UNCHANGED <<session, streaming, msgs, refs, to, stopped, opened, loading, overlap>>

(* finally: whatever bubble is open is frozen.                             *)
FinallyKeeps(s) ==  \* mutant: the open bubble is left as it is
  /\ st' = [st EXCEPT ![s] = "over"]
  /\ cur' = NoBubble /\ ctl' = [abort |-> None, reader |-> None]
  /\ streaming' = FALSE /\ live' = live
Finally(s) ==
  /\ st' = [st EXCEPT ![s] = "over"]
  /\ cur' = NoBubble /\ ctl' = [abort |-> None, reader |-> None]
  /\ streaming' = FALSE /\ live' = live \ {cur}

(* The stream is over, the request failed and is reported, or it was       *)
(* stopped.                                                                *)
End(s) ==
  /\ st[s] \in {"fetching", "reading"}
  /\ Finally(s)
  /\ st[s] = "fetching" => s \in stopped
  /\ UNCHANGED <<session, sending, shown, text, to, stopped, opened, loading, overlap>>

(* showError: in the open bubble, or in a new one, which is not live then. *)
RequestFails(s) ==
  /\ st[s] \in {"fetching", "reading"} /\ s \notin stopped
  /\ Finally(s)
  /\ IF cur # NoBubble
     THEN text' = [text EXCEPT ![cur] = {s}] /\ UNCHANGED <<shown, opened>>
     ELSE /\ opened[s] < MaxBubbles
          /\ text' = [text EXCEPT ![NextBubble(s)] = {s}]
          /\ shown' = shown \cup {Msg(s, NextBubble(s))}
          /\ opened' = [opened EXCEPT ![s] = @ + 1]
  /\ UNCHANGED <<session, sending, to, stopped, loading, overlap>>

Respond(s) ==
  /\ st[s] = "fetching" /\ s \notin stopped
  /\ st' = [st EXCEPT ![s] = "reading"]
  /\ ctl' = [ctl EXCEPT !.reader = s]
  /\ UNCHANGED <<session, sending, streaming, msgs, cur, to, stopped, opened, loading, overlap>>

-----------------------------------------------------------------------------
(* Events.                                                                 *)

(* A text or thinking delta.  A bubble that is not shown any more keeps    *)
(* its place in the ref and shows nothing.                                 *)
Delta(s) ==
  /\ st[s] = "reading"
  /\ IF cur # NoBubble
     THEN text' = [text EXCEPT ![cur] = @ \cup {s}] /\ UNCHANGED <<cur, shown, live, opened>>
     ELSE /\ opened[s] < MaxBubbles
          /\ cur' = NextBubble(s)
          /\ shown' = shown \cup {Msg(s, cur')}
          /\ live' = live \cup {cur'}
          /\ text' = [text EXCEPT ![cur'] = {s}]
          /\ opened' = [opened EXCEPT ![s] = @ + 1]
  /\ UNCHANGED <<session, sending, streaming, ctl, st, to, stopped, loading, overlap>>

(* A tool starts, which freezes the bubble; an error of the model does so  *)
(* too, and takes the place of its text.                                   *)
Freeze(s) ==
  /\ st[s] = "reading" /\ cur # NoBubble
  /\ live' = live \ {cur} /\ cur' = NoBubble
  /\ text' \in {text, [text EXCEPT ![cur] = {s}]}
  /\ UNCHANGED <<session, sending, streaming, shown, ctl, sends, loading, overlap>>

-----------------------------------------------------------------------------
(* Buttons.                                                                *)

Abort ==
  /\ streaming
  /\ stopped' = stopped \cup ({ctl.abort, ctl.reader} \ {None})
  /\ UNCHANGED <<session, sending, streaming, msgs, refs, st, to, opened, loading, overlap>>

(* New session, or deletion of the one that is open.                       *)
NewSession ==
  /\ session' = None /\ shown' = {} /\ live' = {}
  /\ overlap' = (overlap \/ Busy)
  /\ UNCHANGED <<sending, streaming, text, refs, sends, loading>>

SelectSession(o) ==
  /\ session' = o /\ shown' = {} /\ live' = {}
  /\ loading' = loading \cup {o}
  /\ overlap' = (overlap \/ Busy)
  /\ UNCHANGED <<sending, streaming, text, refs, sends>>

(* The fetched messages take the place of all that is shown; a failed      *)
(* fetch changes nothing.                                                  *)
Loaded(o) ==
  /\ o \in loading /\ loading' = loading \ {o}
  /\ \/ shown' = {[of |-> o, bubble |-> NoBubble]} /\ live' = {}
     \/ UNCHANGED <<shown, live>>
  /\ UNCHANGED <<session, sending, streaming, text, refs, sends, overlap>>

Next ==
  \/ \E s \in Send : \/ HandleSend(s) \/ SessionCreated(s) \/ SessionFails(s)
                     \/ Respond(s) \/ RequestFails(s) \/ Delta(s) \/ Freeze(s) \/ End(s)
  \/ Abort \/ NewSession
  \/ \E o \in Old : SelectSession(o) \/ Loaded(o)

Spec == Init /\ [][Next]_vars

-----------------------------------------------------------------------------
TypeOK ==
  /\ session \in Session \cup {None} /\ sending \in BOOLEAN /\ streaming \in BOOLEAN
  /\ shown \subseteq [of : Session, bubble : [by : Send, n : 0..MaxBubbles] \cup {NoBubble}]
  /\ live \subseteq Bubble /\ text \in [Bubble -> SUBSET Send]
  /\ cur \in Bubble \cup {NoBubble}
  /\ ctl \in [abort : Send \cup {None}, reader : Send \cup {None}]
  /\ st \in [Send -> {"new", "creating", "fetching", "reading", "over"}]
  /\ to \in [Send -> Session \cup {None}] /\ stopped \subseteq Send
  /\ opened \in [Send -> 0..MaxBubbles] /\ loading \subseteq Old

(* As long as nothing is begun while something runs, the panel shows the   *)
(* messages of its session only, each bubble has the text of one message,  *)
(* and Stop is offered exactly while there is something to stop.           *)
AloneIsClean ==
  ~overlap =>
    /\ \A m \in shown : m.of = session
    /\ \A b \in Bubble : text[b] \subseteq {b.by}
    /\ streaming \/ live # {} => \E s \in Running : s \in {ctl.abort, ctl.reader}
=============================================================================
