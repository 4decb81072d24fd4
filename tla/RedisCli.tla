-------------------------------- MODULE RedisCli --------------------------------
(***************************************************************************)
(* The Redis console: stores/redisCli and the RedisCli component, which    *)
(* serves every console tab of a connection with one editor.  A run is     *)
(* asked about first when a line of it begins with a dangerous command;    *)
(* runs and the list of earlier commands are answered while the user types *)
(* on, changes tabs, clears, or runs again with Enter.                     *)
(*                                                                         *)
(* A text is a sequence of words, quotes and line ends.  The two kinds of  *)
(* quote are one, and nothing is escaped.                                  *)
(***************************************************************************)
EXTENDS Integers, Sequences, FiniteSets, SequencesExt, Subsequence

CONSTANTS
  Consoles,                 \* console tabs
  Danger, Safe, Clear,      \* words: a dangerous command, any other, "clear"
  Quote, Newline,
  Typed,                    \* texts that are typed
  MaxInputs,                \* bound: what the user does
  MaxLosses,                \* bound: requests that fail
  Nothing

Words == {Danger, Safe, Clear, Quote, Newline}

ASSUME RedisCliAssumption ==
  /\ Consoles # {} /\ Newline \notin {Danger, Safe, Clear, Quote} /\ Typed \subseteq Seq(Words)
  /\ MaxInputs \in Nat /\ MaxLosses \in Nat

VARIABLES
  cli,         \* useRedisCliStore: the state of each tab
  shown, doc,  \* the tab on screen, the text of the editor
  danger,      \* pendingDanger: the text that is asked about
  requests,    \* runs and lists of commands under way
  recorded,    \* commands the server remembers, newest first
  inputs, losses

cliVars == <<cli, shown, doc, danger, requests, recorded, inputs, losses>>
-----------------------------------------------------------------------------
(* Texts. *)

Quoted(text, i) == Cardinality({n \in 1..(i - 1) : text[n] = Quote}) % 2 = 1

Blank(text) == Range(text) \subseteq {Newline}

(* The parts of a text between the line ends at cuts, blank ones left out. *)
Part(text, edges, n) == SubSeq(text, Nth(edges, n) + 1, Nth(edges, n + 1) - 1)
Parts(text, cuts) ==
  LET edges == cuts \cup {0, Len(text) + 1}
      all == [n \in 1..(Cardinality(edges) - 1) |-> Part(text, edges, n)] IN
  Filtered(all, {n \in DOMAIN all : ~Blank(all[n])})

LineEnds(text) == {i \in DOMAIN text : text[i] = Newline}

(* splitRedisCliStatements: a line end in quotes belongs to its statement. *)
Statements(text) == Parts(text, {i \in LineEnds(text) : ~Quoted(text, i)})

(* The first token is a dangerous command, as it stands. *)
BeginsWithDanger(line) == line[1] = Danger /\ (Len(line) > 1 => line[2] # Quote)

(* Mutant: only the text as a whole is looked at. *)
FirstLineOnly(text) == text # <<>> /\ BeginsWithDanger(text)
FindDangerousCommand(text) ==
  \E n \in DOMAIN Parts(text, LineEnds(text)) : BeginsWithDanger(Parts(text, LineEnds(text))[n])
-----------------------------------------------------------------------------
(* The store. *)

DefaultTabState ==
  [value |-> <<>>, entries |-> <<>>, running |-> FALSE, history |-> <<>>, cursor |-> 0,
   draft |-> <<>>, loaded |-> FALSE]

SetEditorValue(c, text) == [c EXCEPT !.value = text, !.cursor = 0, !.draft = text]
Cleared(c) == [c EXCEPT !.entries = <<>>]

(* The second half of navigateHistory: cursor 0 stands before the newest.  *)
Walked(c, direction) ==
  LET next == IF direction = "next" THEN c.cursor - 1
              ELSE IF c.cursor < Len(c.history) THEN c.cursor + 1 ELSE Len(c.history) IN
  IF c.history = <<>> THEN c
  ELSE IF next < 1 THEN [c EXCEPT !.cursor = 0, !.value = c.draft]
  ELSE [c EXCEPT !.cursor = next, !.value = IF next \in DOMAIN c.history THEN c.history[next] ELSE @,
                 !.draft = IF c.cursor = 0 THEN c.value ELSE @]

Request(kind, t) ==
  [kind |-> kind, tab |-> t, id |-> inputs, statements |-> <<>>, confirmed |-> FALSE,
   direction |-> "previous", answer |-> Nothing]

RunInput(t, text, confirmed) ==
  IF Blank(text) THEN UNCHANGED <<cli, requests>>
  ELSE IF text = <<Clear>>
  THEN cli' = [cli EXCEPT ![t] = [Cleared(@) EXCEPT !.value = <<>>]] /\ UNCHANGED requests
  ELSE /\ cli' = [cli EXCEPT ![t].running = TRUE, ![t].cursor = 0, ![t].draft = <<>>]
       /\ requests' = requests \cup
            {[Request("run", t) EXCEPT !.statements = Statements(text), !.confirmed = confirmed]}
-----------------------------------------------------------------------------
(* The component. *)

Acts == inputs < MaxInputs /\ inputs' = inputs + 1
AtEditor == Acts /\ danger = Nothing

(* The editor follows the store, which takes that for typing.              *)
EditorSyncs ==
  /\ doc # cli[shown].value
  /\ doc' = cli[shown].value
  /\ cli' = [cli EXCEPT ![shown] = SetEditorValue(@, @.value)]
  /\ UNCHANGED <<shown, danger, requests, recorded, inputs, losses>>

TypeText(text) ==
  /\ AtEditor /\ text # doc
  /\ doc' = text
  /\ cli' = [cli EXCEPT ![shown] = SetEditorValue(@, text)]
  /\ UNCHANGED <<shown, danger, requests, recorded, losses>>

(* Enter, which asks nobody whether something runs, or the button.         *)
HandleRun ==
  /\ AtEditor
  /\ LET text == cli[shown].value IN
     IF FindDangerousCommand(text)
     THEN danger' = text /\ UNCHANGED <<cli, requests>>
     ELSE RunInput(shown, text, FALSE) /\ UNCHANGED danger
  /\ UNCHANGED <<shown, doc, recorded, losses>>

RunAnyway ==
  /\ Acts /\ danger # Nothing
  /\ RunInput(shown, danger, TRUE)
  /\ danger' = Nothing
  /\ UNCHANGED <<shown, doc, recorded, losses>>

Dismiss ==
  /\ danger # Nothing /\ danger' = Nothing
  /\ UNCHANGED <<cli, shown, doc, requests, recorded, inputs, losses>>

ClearOutput ==
  /\ AtEditor /\ cli[shown].entries # <<>>
  /\ cli' = [cli EXCEPT ![shown] = Cleared(@)]
  /\ UNCHANGED <<shown, doc, danger, requests, recorded, losses>>

(* An arrow key, in a text of one line. *)
NavigateHistory(direction) ==
  /\ AtEditor /\ LineEnds(doc) = {}
  /\ IF cli[shown].loaded
     THEN cli' = [cli EXCEPT ![shown] = Walked(@, direction)] /\ UNCHANGED requests
     ELSE /\ requests' = requests \cup {[Request("history", shown) EXCEPT !.direction = direction]}
          /\ UNCHANGED cli
  /\ UNCHANGED <<shown, doc, danger, recorded, losses>>

ShowConsole(t) ==
  /\ AtEditor /\ t # shown
  /\ shown' = t
  /\ UNCHANGED <<cli, doc, danger, requests, recorded, losses>>
-----------------------------------------------------------------------------
(* Answers. *)

(* The server runs the statements and remembers them, or lists them.       *)
Serve(r) ==
  /\ r.answer = Nothing
  /\ recorded' = IF r.kind = "run" THEN Reverse(r.statements) \o recorded ELSE recorded
  /\ requests' = (requests \ {r}) \cup
       {[r EXCEPT !.answer = IF r.kind = "run" THEN r.statements ELSE recorded]}
  /\ UNCHANGED <<cli, shown, doc, danger, inputs, losses>>

TabOf(r) == r.tab

Entries(r, ran) == [n \in DOMAIN ran |-> [statement |-> ran[n], by |-> r.tab]]

RunReturns(r) ==
  /\ r.kind = "run" /\ r.answer # Nothing
  /\ requests' = requests \ {r}
  /\ cli' = [cli EXCEPT ![TabOf(r)].running = FALSE, ![TabOf(r)].value = <<>>,
               ![TabOf(r)].loaded = FALSE, ![TabOf(r)].entries = @ \o Entries(r, r.answer)]
  /\ UNCHANGED <<shown, doc, danger, recorded, inputs, losses>>

(* The error stands for the first statement. *)
RunBreaks(r) ==
  /\ r.kind = "run" /\ losses < MaxLosses /\ losses' = losses + 1
  /\ requests' = requests \ {r}
  /\ cli' = [cli EXCEPT ![TabOf(r)].running = FALSE,
               ![TabOf(r)].entries = @ \o Entries(r, <<r.statements[1]>>)]
  /\ UNCHANGED <<shown, doc, danger, recorded, inputs>>

HistoryReturns(r) ==
  /\ r.kind = "history" /\ r.answer # Nothing
  /\ requests' = requests \ {r}
  /\ cli' = [cli EXCEPT ![r.tab] =
               Walked([@ EXCEPT !.history = r.answer, !.loaded = TRUE], r.direction)]
  /\ UNCHANGED <<shown, doc, danger, recorded, inputs, losses>>

HistoryBreaks(r) ==
  /\ r.kind = "history" /\ losses < MaxLosses /\ losses' = losses + 1
  /\ requests' = requests \ {r}
  /\ UNCHANGED <<cli, shown, doc, danger, recorded, inputs>>
-----------------------------------------------------------------------------
CliInit ==
  /\ cli = [t \in Consoles |-> DefaultTabState]
  /\ shown = CHOOSE t \in Consoles : TRUE
  /\ doc = <<>> /\ danger = Nothing /\ requests = {} /\ recorded = <<>>
  /\ inputs = 0 /\ losses = 0

AtTheConsole ==
  \/ (\E text \in Typed : TypeText(text)) \/ HandleRun \/ RunAnyway \/ Dismiss \/ ClearOutput
  \/ (\E d \in {"previous", "next"} : NavigateHistory(d))
  \/ \E t \in Consoles : ShowConsole(t)
Returns ==
  \E r \in requests :
    Serve(r) \/ RunReturns(r) \/ RunBreaks(r) \/ HistoryReturns(r) \/ HistoryBreaks(r)

(* The editor follows before anything else happens. *)
CliNext == EditorSyncs \/ (doc = cli[shown].value /\ (AtTheConsole \/ Returns))

CliSpec == CliInit /\ [][CliNext]_cliVars
-----------------------------------------------------------------------------
(* Properties. *)

(* "Make sure you understand its impact before running it": however the    *)
(* lines of a run are put together, and whether it was typed or came from  *)
(* the history, no statement that begins with a dangerous command is sent  *)
(* without having been asked about.  Left out: a command in quotes, which  *)
(* the server takes as well and the console does not look into.            *)
DangerAsksFirst ==
  \A r \in requests : \A n \in DOMAIN r.statements : BeginsWithDanger(r.statements[n]) => r.confirmed
=============================================================================
