------------------------------ MODULE DagEditor ------------------------------
(***************************************************************************)
(* The web editor of the DAG: DagDocumentStore keeps the document and its  *)
(* revision over the configuration file, DagEditorServer serves it to      *)
(* browser tabs (resources/dag_editor/app.js), tells them of changes by    *)
(* events, and watches the file for edits by other programs.               *)
(*                                                                         *)
(* Contents are numbered as they are written: document n is the text n,    *)
(* and -n is that text as text mode writes it where it translates the ends *)
(* of the lines (Windows), which is the same document.  A request and its  *)
(* answer are one step; events reach a tab later, in order.                *)
(***************************************************************************)
EXTENDS Integers, Sequences

CONSTANTS Tab,         \* browser tabs
          OutsideEdits,\* what other programs write: valid contents (TRUE), broken ones
          MaxContents, \* bound on the contents written
          MaxStarts    \* bound on the starts of the program

VARIABLES
  file,     \* the configuration file: its content, valid or not, its revision, its text,
            \* and whether the platform translates the ends of lines in text mode
  written,  \* contents written so far; content 0 is no file at all
  store,    \* DagDocumentStore
  watch,    \* the file watcher and its debounce timer; failed is observed: the last change
            \* was not looked at, since the file could not be opened
  tab       \* each tab: the server it talks to and what it has loaded

vars == <<file, written, store, watch, tab>>

NoTab == [server |-> 0, base |-> 0, rev |-> 0, doc |-> 0, forced |-> FALSE, events |-> <<>>]

NotWatched == [alive |-> FALSE, debounce |-> FALSE, failed |-> FALSE]

Init ==
  /\ \E ok, translates \in BOOLEAN :
       file \in {[doc |-> 0, ok |-> FALSE, rev |-> 0, text |-> 0, translates |-> translates],
                [doc |-> 1, ok |-> ok, rev |-> 1, text |-> 1, translates |-> translates]}
  /\ written = 1
  /\ store = [server |-> 0,       \* m_token: the start it was made in, 0 when stopped
              starts |-> 0, doc |-> 0, rev |-> 0, print |-> 0]   \* m_fingerprint
  /\ watch = NotWatched
  /\ tab = [t \in Tab |-> NoTab]

-----------------------------------------------------------------------------
(* DagEditorServer::Start, with DagDocumentStore::Initialize *)

Start ==
  /\ store.server = 0 /\ store.starts < MaxStarts
  /\ IF file.doc # 0 /\ ~file.ok
     THEN store' = [store EXCEPT !.starts = @ + 1] /\ UNCHANGED watch
     ELSE /\ store' = [server |-> store.starts + 1, starts |-> store.starts + 1,
                       doc |-> file.doc, rev |-> file.rev + 1, print |-> file.text]
          /\ watch' = [NotWatched EXCEPT !.alive = file.doc # 0]
  /\ UNCHANGED <<file, written, tab>>

Stop ==
  /\ store.server # 0
  /\ store' = [store EXCEPT !.server = 0]
  /\ watch' = NotWatched
  /\ UNCHANGED <<file, written, tab>>

\* A tab is opened with the URL of the running server, or reloaded.
Opened(t) == [NoTab EXCEPT !.server = store.server]
OpenTab(t) ==
  /\ store.server # 0
  /\ tab' = [tab EXCEPT ![t] = [Opened(t) EXCEPT !.base = store.rev, !.rev = store.rev,
                                                 !.doc = store.doc]]
  /\ UNCHANGED <<file, written, store, watch>>

-----------------------------------------------------------------------------
(* The file and its watcher *)

\* A file that is written in place stays watched; one that is replaced may not be, and
\* only a change of the directory, which is not watched, would watch it again.
Noticed(replaced) ==
  \E alive \in (IF replaced THEN {watch.alive, FALSE} ELSE {watch.alive}) :
    watch' = [watch EXCEPT !.alive = alive, !.debounce = watch.debounce \/ watch.alive]

ExternalEdit(ok, replaced) ==
  /\ written < MaxContents
  /\ written' = written + 1
  /\ file' = [file EXCEPT !.doc = written + 1, !.ok = ok, !.text = written + 1]
  /\ Noticed(replaced)
  /\ UNCHANGED <<store, tab>>

Broadcast(tabs, rev) ==
  [t \in Tab |-> IF tabs[t].server = store.server
                 THEN [tabs[t] EXCEPT !.events = Append(@, rev)] ELSE tabs[t]]

\* OnConfigFileChanged and AdoptExternalFile
AdoptedSilently(x, f) == [x EXCEPT !.doc = f.doc, !.print = f.text]
Adopted(x, f) == [x EXCEPT !.doc = f.doc, !.rev = @ + 1, !.print = f.text]
\* opened: a file that cannot be opened is reported to the tabs and not looked at again.
OnConfigFileChanged(opened) ==
  /\ store.server # 0 /\ watch.debounce
  /\ watch' = [watch EXCEPT !.debounce = FALSE, !.failed = ~opened]
  /\ IF opened /\ file.ok /\ file.text # store.print
     THEN /\ store' = Adopted(store, file)
          /\ tab' = Broadcast(tab, Adopted(store, file).rev)
     ELSE UNCHANGED <<store, tab>>
  /\ UNCHANGED <<file, written>>

-----------------------------------------------------------------------------
(* Requests of a tab: refused without the token of the server that runs *)

Admits(t) == store.server # 0 /\ tab[t].server = store.server

\* DagDocumentStore::Save: a copy of the file to .bak, then an atomic replacement, written
\* in text mode; the fingerprint is that of the text before its line ends were translated.
\* An invalid document and a failing disk change nothing but the copy.
Save(t) ==
  /\ Admits(t) /\ written < MaxContents
  /\ tab[t].base = store.rev
  /\ written' = written + 1
  /\ file' = [file EXCEPT !.doc = written + 1, !.ok = TRUE, !.rev = store.rev + 1,
                         !.text = IF file.translates THEN -(written + 1) ELSE written + 1]
  /\ store' = [store EXCEPT !.doc = written + 1, !.rev = @ + 1, !.print = written + 1]
  /\ Noticed(TRUE)
  /\ tab' = [Broadcast(tab, store.rev + 1) EXCEPT ![t] =
       [@ EXCEPT !.base = store.rev + 1, !.rev = store.rev + 1, !.doc = written + 1,
                 !.forced = FALSE]]

\* A conflict asks the user, who loads the document or overwrites it.
Conflict(t, overwrite) ==
  /\ Admits(t) /\ tab[t].base # store.rev
  /\ tab' = [tab EXCEPT ![t] =
       IF overwrite THEN [@ EXCEPT !.base = store.rev, !.forced = TRUE]
       ELSE [@ EXCEPT !.base = store.rev, !.rev = store.rev, !.doc = store.doc,
                      !.forced = FALSE]]
  /\ UNCHANGED <<file, written, store, watch>>

\* graph.saved and graph.external_changed
OnEvent(t) ==
  /\ tab[t].events # <<>>
  /\ tab' = [tab EXCEPT ![t] =
       [@ EXCEPT !.base = Head(tab[t].events), !.events = Tail(tab[t].events)]]
  /\ UNCHANGED <<file, written, store, watch>>

Next ==
  \/ Start \/ Stop
  \/ \E ok \in OutsideEdits, replaced \in BOOLEAN : ExternalEdit(ok, replaced)
  \/ \E opened \in BOOLEAN : OnConfigFileChanged(opened)
  \/ \E t \in Tab : \/ OpenTab(t) \/ Save(t) \/ OnEvent(t)
                    \/ \E overwrite \in BOOLEAN : Conflict(t, overwrite)

Spec == Init /\ [][Next]_vars

-----------------------------------------------------------------------------
(***************************************************************************)
(* As long as a revision is the current one of its server it names one     *)
(* content: a tab that has loaded it has that content, whatever was        *)
(* saved, edited outside or adopted in between, its own save included,     *)
(* which is adopted where text mode translates the ends of lines.  And a   *)
(* watched file that was not touched lately is the one the document came   *)
(* from, unless it could not be opened after its last change, which is not *)
(* tried again (dag_editor_server.cpp:694).                                *)
(***************************************************************************)
RevisionNamesContent ==
  /\ \A t \in Tab : Admits(t) /\ tab[t].rev = store.rev => tab[t].doc = store.doc
  /\ store.server # 0 /\ watch.alive /\ ~watch.debounce /\ file.ok /\ ~watch.failed =>
       store.print = file.text /\ store.doc = file.doc

(***************************************************************************)
(* docs/dag_web_editor_plan.md:493: of two tabs that edit at once, the one *)
(* that saves later is told of the conflict: unless the user has chosen to *)
(* overwrite, a save replaces the document the tab had loaded.             *)
(***************************************************************************)
LaterSaveConflicts ==
  [][\A t \in Tab : Save(t) /\ ~tab[t].forced => tab[t].doc = store.doc]_vars

=============================================================================
