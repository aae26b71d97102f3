------------------------- MODULE LanguageProperties -------------------------
(* What LanguageServer owes the user: answers that fit the text they are    *)
(* applied to, saves that end and are answered, a server that is current.  *)
EXTENDS LanguageServer

-----------------------------------------------------------------------------
(* Answers.                                                                *)

\* An answer that would be installed, and the lenses on screen, are about the
\* text in the buffer: editing, crashes and restarts between the question and
\* the answer never make one pass for another's (App.applyLenses, applyFormat,
\* resumeSave).  A reload and, for formatting, a reopened tab restart the
\* versions answers are compared by, and are set aside; see FormatFits.
AnswersFit ==
    /\ \A ans \in slot :
         Accepts(ans) /\ ans.reloads = reloads /\ (ans.kind = "format" => ans.tab = tab)
             => ans.on \subseteq {text}
    /\ \A w \in write, ans \in saveSlot :
         ans.fresh /\ open /\ w.tab = tab /\ ans.version = version /\ ans.reloads = reloads
             => ans.on \subseteq {text}
    /\ thread = "idle" => \A l \in lenses : l.reloads = reloads => l.on \subseteq {text}

-----------------------------------------------------------------------------
(* Saves.                                                                  *)

\* Every save gesture is told an outcome once: it was told, or waits on the
\* deferred write or the open question, whatever superseded, paused or dropped
\* its write, or another question replaced the one it waited on (App.write,
\* resumeSave).
SavesAreAnsweredOnce == asked = reported + replaced + Waits(write) + Waits(prompt)

\* A write, deferred or not, puts nothing on disk once its tab is closed, never
\* installs the server's edits over a change set that arrived while the server
\* was thinking, and writes such a set only with a question open, unless none
\* is asked about it (App.resumeSave, savePane); see LateWorkIsShown.
LateSaveRespectsTheUser ==
    [][disk' # disk /\ stamp' = "known" =>
         open /\ (pending => text' = text /\ (confirm => prompt # {}))]_vars

\* A deferred write ends with its answer, its failure or its deadline, as long
\* as no superseded save can still park its answer over the newer one
\* (App.parkSave); see SaveIsNotLost.
Lone == ~\E ans \in asks : ans.kind = "save" /\ ~ans.fresh /\ ans.at # "parked"
LoneSaveSettles == []Lone => (write # {} ~> write = {})

-----------------------------------------------------------------------------
(* The server's copy.                                                      *)

\* A buffer left with unsaved text reaches a running server through the idle
\* tick alone (App.syncDirtyDocs); a buffer that was reloaded is set aside,
\* see ServerFollowsReload.
Behind == open /\ text # saved /\ Live /\ reloads = 0 /\ holds # {text}
ServerCatchesUp == Behind ~> ~Behind

-----------------------------------------------------------------------------
(* What comments of the code say and the code does not do.  Each fails with *)
(* MCLanguage and the bounds named here; the README says how.               *)

\* "A save must not be lost" (willsave.go:212): the answer of a superseded
\* save comes last and replaces the newer one in saveAnswer, and the write
\* waits for ever.  Fails as it is.
SaveIsNotLost == write # {} ~> write = {}

\* "A buffer that moved under a slow formatter drops the answer"
\* (format.go:88): a reload or a reopened tab counts versions from 0 again,
\* and an old answer fits the number.  Fails as it is.
FormatFits == \A ans \in slot : Accepts(ans) => ans.on \subseteq {text}

\* "Dropping it would leave the server's copy frozen at whatever it held
\* before the reload" (sync.go:119): Sync.Change sends it, but needsSync
\* compares versions and does not ask.  Fails as it is.
ServerFollowsReload ==
    LET behind == open /\ text # saved /\ Live /\ holds # {text} IN behind ~> ~behind

\* "Every continuation waiting on the old save rides the new one, so a close
\* or quit that was waiting still completes" (app.go:3233): a question that
\* another one replaces takes its continuation with it.  Fails as it is.
QuestionsAreAnswered == replaced = 0

\* "Applying the server's edits over it, or letting File.Save accept it, would
\* approve work the user never saw" (willsave.go:174): a deferred write whose
\* change set arrived after the gesture goes through savePane, which asks
\* nothing with save_confirm off or no room for the review, and the set is
\* written and accepted.  Fails as it is.
LateWorkIsShown ==
    [][disk' # disk /\ stamp' = "known" /\ pending /\ asked' = asked => prompt # {}]_vars

\* The same words: a proposal that arrives while the conflict question is open
\* is approved by its answer, also when proposals are asked about.  Fails with
\* MaxUpsets = 2.
ApprovedWorkWasShown ==
    [][disk' # disk /\ stamp' = "known" /\ pending /\ confirm => \E p \in prompt : p.listed]_vars

\* A server is asked only once its handshake is over (Sync.IsOpen): a new
\* connection counts as live while the sync object is the old one's, whose
\* failed Change is recorded as told.  Fails as it is.
AskedAfterHandshake ==
    [][\A r \in asks' \ asks : r.at = "spawned" /\ r.fresh => Initialised]_vars

\* An answer that would be installed stays until the event thread takes it
\* (App.park): all kinds but saves share one slot.  Fails as it is.
AnswersStay ==
    [][\A ans \in slot :
         Accepts(ans) => ans \in slot' \/ thread = "answers" \/ ~Accepts(ans)']_vars
=============================================================================
