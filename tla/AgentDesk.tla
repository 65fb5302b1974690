----------------------------- MODULE AgentDesk ------------------------------
(***************************************************************************)
(* What lies on the agent's desk: files and the outputs of commands, as    *)
(* its tools show them (AgentTools), and the tree of a trace, as the       *)
(* viewer shows it to the user and the download gives it to the agent      *)
(* (SpanTree).  They share no variable, so a behaviour is one of one part: *)
(* part says which, and the variables of the other stay Off.               *)
(***************************************************************************)
EXTENDS Naturals, Sequences

CONSTANTS
  ViewTraces, SpanOrder, TraceOf, Parents,            (* of the tree        *)
  MaxLines, MaxBytes, ReadLimits, NoLimit, Line,      (* of the tools       *)
  MaxFile, MaxFail,
  Null, Off

VARIABLES
  part,
  parent, stored, fetched, opened, collapsed, selection, resets,
  text, call, offset, got, reading, shown, fails

treeVars == <<parent, stored, fetched, opened, collapsed, selection, resets>>
toolVars == <<text, call, offset, got, reading, shown, fails>>
deskVars == <<part, treeVars, toolVars>>

Tree == INSTANCE SpanTree WITH Trace <- ViewTraces, Order <- SpanOrder

Tools == INSTANCE AgentTools WITH Limit <- ReadLimits, file <- text, next <- offset

ASSUME DeskAssumption == Tree!TreeAssumption /\ Tools!ToolsAssumption

TreeOff ==
  /\ parent = Off /\ stored = Off /\ fetched = Off /\ opened = Off
  /\ collapsed = Off /\ selection = Off /\ resets = Off

ToolOff ==
  /\ text = Off /\ call = Off /\ offset = Off /\ got = Off
  /\ reading = Off /\ shown = Off /\ fails = Off

DeskInit ==
  \/ part = "tree"  /\ Tree!Init  /\ ToolOff
  \/ part = "tools" /\ Tools!Init /\ TreeOff

DeskNext ==
  \/ part = "tree"  /\ Tree!Next  /\ UNCHANGED <<part, toolVars>>
  \/ part = "tools" /\ Tools!Next /\ UNCHANGED <<part, treeVars>>

DeskSpec == DeskInit /\ [][DeskNext]_deskVars

-----------------------------------------------------------------------------
(* The properties are those of the part that the behaviour is of.          *)

(* The viewer has fetched spans of the trace that were ingested, and a     *)
(* read stands at a line of the file.  (SpanTree, AgentTools)              *)
DeskTypeOK ==
  /\ part = "tree"  => Tree!TypeOK
  /\ part = "tools" => Tools!TypeOK

(* The viewer and the agent see the tree of the spans that have arrived,   *)
(* and the viewer can show what it hides and selects what is there.        *)
(* (SpanTreeView, download-trace.ts)                                       *)
TreeIsFaithful == part = "tree" => Tree!OneTree /\ Tree!PanelIsSound

(* Reading by offsets gets through the file, loses no line, shows none     *)
(* twice and keeps to the limits.  (tools/sandbox.ts)                      *)
ReadingIsFaithful == [][part = "tools" => Tools!ReadsOn]_deskVars
=============================================================================
