---------------------------- MODULE LanguageProofs ----------------------------
(***************************************************************************)
(* Proofs about a file and its language server, for any texts and any      *)
(* number of edits, saves, reloads, reopened tabs and restarts of the      *)
(* server: every save gesture is answered once, a late save writes what    *)
(* the user may see, and an answer is applied to the text it is about.     *)
(***************************************************************************)
EXTENDS LanguageProperties, TLAPS

-----------------------------------------------------------------------------
(* Saves.                                                                  *)

LEMMA NobodyWaits == Waits({}) = 0
  BY DEF Waits, MapThenSumSet, MapThenFoldSet

LEMMA OneWaits ==
  ASSUME NEW w, w.thens \in Nat PROVE Waits({w}) = w.thens
<1> DEFINE Body(f) == [s \in SUBSET {w} |->
               IF s = {} THEN 0
               ELSE (CHOOSE x \in s : TRUE).thens + f[s \ {CHOOSE x \in s : TRUE}]]
           K == CHOOSE f : f = Body(f)
           F == [s \in {{}, {w}} |-> IF s = {} THEN 0 ELSE w.thens]
<1>1. /\ SUBSET {w} = {{}, {w}} /\ (CHOOSE x \in {w} : TRUE) = w /\ {w} \ {w} = {}
      /\ {w} # {}
  OBVIOUS
<1>2. F = Body(F)
  <2>1. F[{}] = 0 /\ Body(F)[{}] = 0
    BY <1>1
  <2>2. F[{w}] = w.thens /\ Body(F)[{w}] = w.thens
    <3>1. Body(F)[{w}] = w.thens + F[{}]
      BY <1>1, Zenon
    <3> QED BY <1>1, <2>1, <3>1
  <2> QED BY <1>1, <2>1, <2>2, Zenon
<1> HIDE DEF F
<1>3. K = Body(K)
  BY <1>2, Zenon
<1>4. Waits({w}) = K[{w}]
  BY DEF Waits, MapThenSumSet, MapThenFoldSet
<1> HIDE DEF K
<1>5. K[{}] = 0
  BY <1>1, <1>3, Zenon
<1>6. K[{w}] = w.thens + K[{}]
  <2>1. \A s \in SUBSET {w} : s # {} =>
            K[s] = (CHOOSE x \in s : TRUE).thens + K[s \ {CHOOSE x \in s : TRUE}]
    BY <1>3, Zenon
  <2>2. K[{w}] = (CHOOSE x \in {w} : TRUE).thens + K[{w} \ {CHOOSE x \in {w} : TRUE}]
    BY <1>1, <2>1
  <2> QED BY <1>1, <2>2
<1> QED BY <1>4, <1>5, <1>6

\* One continuation, or none.
AtMostOne(S) == S = {} \/ \E r : S = {r} /\ r.thens \in Nat

SaveInv ==
    /\ asked \in Nat /\ reported \in Nat /\ replaced \in Nat
    /\ AtMostOne(write) /\ AtMostOne(prompt)
    /\ SavesAreAnsweredOnce

LEMMA WaitsAreCounted ==
  ASSUME NEW S, AtMostOne(S) PROVE Waits(S) \in Nat
  BY NobodyWaits, OneWaits DEF AtMostOne

LEMMA PromptCounts ==
  ASSUME NEW kind, NEW thens \in Nat, NEW onScreen, AtMostOne(onScreen),
         Prompt(kind, thens, onScreen), replaced \in Nat
  PROVE  /\ AtMostOne(prompt') /\ replaced' \in Nat
         /\ replaced' + Waits(prompt') = replaced + thens + Waits(onScreen)
<1> DEFINE q == [kind |-> kind, thens |-> thens, listed |-> pending]
<1>1. prompt' = {q} /\ q.thens = thens /\ replaced' = replaced + Waits(onScreen)
  BY DEF Prompt
<1> HIDE DEF q
<1>2. Waits(prompt') = thens /\ AtMostOne(prompt')
  BY <1>1, OneWaits DEF AtMostOne
<1> QED BY <1>1, <1>2, WaitsAreCounted

LEMMA FinishCounts ==
  ASSUME NEW thens \in Nat, NEW force, NEW onScreen, AtMostOne(onScreen),
         FinishWrite(thens, force, onScreen), reported \in Nat, replaced \in Nat
  PROVE  /\ AtMostOne(prompt') /\ reported' \in Nat /\ replaced' \in Nat
         /\ reported' + replaced' + Waits(prompt')
                = reported + replaced + thens + Waits(onScreen)
<1>1. Waits(onScreen) \in Nat
  BY WaitsAreCounted
<1>2. CASE reported' = reported + thens /\ prompt' = onScreen /\ UNCHANGED replaced
  BY <1>1, <1>2
<1>3. CASE Prompt("conflict", thens, onScreen) /\ UNCHANGED reported
  <2>1. /\ AtMostOne(prompt') /\ replaced' \in Nat
        /\ replaced' + Waits(prompt') = replaced + thens + Waits(onScreen)
    BY <1>3, PromptCounts
  <2>2. Waits(prompt') \in Nat
    BY <2>1, WaitsAreCounted
  <2> QED BY <1>1, <1>3, <2>1, <2>2
<1> QED BY <1>2, <1>3 DEF FinishWrite

LEMMA WriteCounts ==
  ASSUME NEW thens \in Nat, NEW force, Write(thens, force),
         reported \in Nat, replaced \in Nat, AtMostOne(write)
  PROVE  /\ AtMostOne(write') /\ AtMostOne(prompt') /\ reported' \in Nat /\ replaced' \in Nat
         /\ reported' + replaced' + Waits(write') + Waits(prompt')
                = reported + replaced + Waits(write) + thens
<1> DEFINE mine == {w \in write : w.tab = tab}
           all  == thens + Waits(mine)
<1>1. AtMostOne({}) /\ Waits({}) = 0 /\ Waits(write) \in Nat
  BY NobodyWaits, WaitsAreCounted DEF AtMostOne
<1>2. CASE write # mine
  <2>1. FinishWrite(thens, force, {}) /\ UNCHANGED write
    BY <1>2 DEF Write
  <2>2. /\ AtMostOne(prompt') /\ reported' \in Nat /\ replaced' \in Nat
        /\ reported' + replaced' + Waits(prompt') = reported + replaced + thens + Waits({})
    BY <1>1, <2>1, FinishCounts
  <2>3. Waits(prompt') \in Nat /\ Waits(write') = Waits(write)
    BY <2>1, <2>2, WaitsAreCounted
  <2> QED BY <1>1, <2>1, <2>2, <2>3
<1>3. CASE write = mine
  <2>1. all = thens + Waits(write) /\ all \in Nat
    <3>1. Waits(mine) = Waits(write)
      BY <1>3
    <3> HIDE DEF mine
    <3> QED BY <1>1, <3>1
  <2>2. \/ Defer(all, force)
        \/ write' = {} /\ FinishWrite(all, force, {})
    BY <1>3, Zenon DEF Write
  <2> HIDE DEF all
  <2>3. CASE Defer(all, force)
    <3> DEFINE w == [tab |-> tab, version |-> version, thens |-> all, force |-> force]
    <3>1. write' = {w} /\ w.thens = all /\ prompt' = {} /\ UNCHANGED <<reported, replaced>>
      BY <2>3 DEF Defer
    <3> HIDE DEF w
    <3>2. AtMostOne(write') /\ Waits(write') = all
      BY <2>1, <3>1, OneWaits DEF AtMostOne
    <3> QED BY <1>1, <2>1, <3>1, <3>2
  <2>4. CASE write' = {} /\ FinishWrite(all, force, {})
    <3>1. /\ AtMostOne(prompt') /\ reported' \in Nat /\ replaced' \in Nat
          /\ reported' + replaced' + Waits(prompt') = reported + replaced + all + Waits({})
      BY <1>1, <2>1, <2>4, FinishCounts
    <3>2. Waits(prompt') \in Nat
      BY <3>1, WaitsAreCounted
    <3> QED BY <1>1, <2>1, <2>4, <3>1, <3>2
  <2> QED BY <2>2, <2>3, <2>4
<1> QED BY <1>2, <1>3

LEMMA ResumeCounts ==
  ASSUME SaveInv, NEW w \in write, NEW ans, Resume(w, ans), write' = {}, UNCHANGED asked
  PROVE  SaveInv'
<1>1. write = {w} /\ w.thens \in Nat /\ Waits(write) = w.thens
  BY OneWaits DEF SaveInv, AtMostOne
<1>2. AtMostOne(write') /\ Waits(write') = 0 /\ Waits(prompt) \in Nat
  BY NobodyWaits, WaitsAreCounted DEF SaveInv, AtMostOne
<1>3. /\ AtMostOne(prompt') /\ reported' \in Nat /\ replaced' \in Nat
      /\ reported' + replaced' + Waits(prompt') = reported + replaced + w.thens + Waits(prompt)
  <2>1. CASE reported' = reported + w.thens /\ UNCHANGED <<prompt, replaced>>
    BY <1>1, <1>2, <2>1 DEF SaveInv
  <2>2. CASE Prompt("review", w.thens, prompt) /\ UNCHANGED reported
    <3>1. /\ AtMostOne(prompt') /\ replaced' \in Nat
          /\ replaced' + Waits(prompt') = replaced + w.thens + Waits(prompt)
      BY <1>1, <2>2, PromptCounts DEF SaveInv
    <3> QED BY <1>1, <1>2, <2>2, <3>1, WaitsAreCounted DEF SaveInv
  <2>3. ASSUME NEW force, FinishWrite(w.thens, force, prompt)
        PROVE  /\ AtMostOne(prompt') /\ reported' \in Nat /\ replaced' \in Nat
               /\ reported' + replaced' + Waits(prompt')
                     = reported + replaced + w.thens + Waits(prompt)
    BY <1>1, <2>3, FinishCounts DEF SaveInv
  <2> QED BY <2>1, <2>2, <2>3 DEF Resume
<1>4. Waits(prompt') \in Nat
  BY <1>3, WaitsAreCounted
<1> QED BY <1>1, <1>2, <1>3, <1>4 DEF SaveInv, SavesAreAnsweredOnce

LEMMA SaveInvStep == ASSUME SaveInv, [Next]_vars PROVE SaveInv'
<1>0. /\ asked \in Nat /\ reported \in Nat /\ replaced \in Nat
      /\ AtMostOne(write) /\ AtMostOne(prompt)
      /\ Waits(write) \in Nat /\ Waits(prompt) \in Nat
      /\ asked = reported + replaced + Waits(write) + Waits(prompt)
  BY WaitsAreCounted DEF SaveInv, SavesAreAnsweredOnce
<1>1. ASSUME UNCHANGED <<write, prompt, asked, reported, replaced>> PROVE SaveInv'
  BY <1>1 DEF SaveInv, SavesAreAnsweredOnce
<1>2. CASE Save
  <2>1. asked' = asked + 1 /\ prompt = {} /\ Waits(prompt) = 0
    BY <1>2, NobodyWaits DEF Save, Free
  <2>2. \/ Prompt("review", 1, {}) /\ UNCHANGED <<write, reported>>
        \/ Write(1, FALSE)
    BY <1>2 DEF Save
  <2>3. CASE Prompt("review", 1, {}) /\ UNCHANGED <<write, reported>>
    <3>1. AtMostOne({}) /\ Waits({}) = 0 /\ 1 \in Nat
      BY NobodyWaits DEF AtMostOne
    <3>2. /\ AtMostOne(prompt') /\ replaced' \in Nat
          /\ replaced' + Waits(prompt') = replaced + 1 + Waits({})
      BY <1>0, <2>3, <3>1, PromptCounts
    <3>3. Waits(prompt') \in Nat
      BY <3>2, WaitsAreCounted
    <3> QED BY <1>0, <2>1, <2>3, <3>1, <3>2, <3>3 DEF SaveInv, SavesAreAnsweredOnce
  <2>4. CASE Write(1, FALSE)
    <3>1. /\ AtMostOne(write') /\ AtMostOne(prompt') /\ reported' \in Nat /\ replaced' \in Nat
          /\ reported' + replaced' + Waits(write') + Waits(prompt')
                = reported + replaced + Waits(write) + 1
      BY <1>0, <2>4, WriteCounts
    <3>2. Waits(prompt') \in Nat /\ Waits(write') \in Nat
      BY <3>1, WaitsAreCounted
    <3> QED BY <1>0, <2>1, <3>1, <3>2 DEF SaveInv, SavesAreAnsweredOnce
  <2> QED BY <2>2, <2>3, <2>4
<1>3. CASE Answer
  <2>1. PICK p \in prompt :
            \/ prompt' = {} /\ reported' = reported + p.thens /\ UNCHANGED <<write, replaced>>
            \/ Write(p.thens, p.kind = "conflict")
    BY <1>3 DEF Answer
  <2>2. prompt = {p} /\ p.thens \in Nat /\ Waits(prompt) = p.thens /\ UNCHANGED asked
    BY <1>0, <1>3, OneWaits DEF AtMostOne, Answer
  <2>3. CASE prompt' = {} /\ reported' = reported + p.thens /\ UNCHANGED <<write, replaced>>
    <3>1. AtMostOne(prompt') /\ Waits(prompt') = 0
      BY <2>3, NobodyWaits DEF AtMostOne
    <3>2. AtMostOne(write') /\ Waits(write') = Waits(write)
      BY <1>0, <2>3
    <3>3. /\ asked' = asked /\ reported' = reported + p.thens /\ replaced' = replaced
          /\ asked = reported + replaced + Waits(write) + p.thens
      BY <1>0, <2>2, <2>3
    <3>4. asked' \in Nat /\ reported' \in Nat /\ replaced' \in Nat
      BY <1>0, <2>2, <3>3
    <3>5. asked' = reported' + replaced' + Waits(write') + Waits(prompt')
      BY <1>0, <2>2, <3>1, <3>2, <3>3
    <3> QED BY <3>1, <3>2, <3>4, <3>5 DEF SaveInv, SavesAreAnsweredOnce
  <2>4. CASE Write(p.thens, p.kind = "conflict")
    <3>1. /\ AtMostOne(write') /\ AtMostOne(prompt') /\ reported' \in Nat /\ replaced' \in Nat
          /\ reported' + replaced' + Waits(write') + Waits(prompt')
                = reported + replaced + Waits(write) + p.thens
      BY <1>0, <2>2, <2>4, WriteCounts
    <3>2. Waits(prompt') \in Nat /\ Waits(write') \in Nat
      BY <3>1, WaitsAreCounted
    <3> QED BY <1>0, <2>2, <3>1, <3>2 DEF SaveInv, SavesAreAnsweredOnce
  <2> QED BY <2>1, <2>3, <2>4
<1>4. CASE Wake
  <2>1. CASE UNCHANGED <<write, prompt, reported, replaced>>
    BY <1>1, <1>4, <2>1 DEF Wake
  <2>2. ASSUME NEW w \in write, NEW ans \in saveSlot, write' = {}, Resume(w, ans) PROVE SaveInv'
    BY <1>4, <2>2, ResumeCounts DEF Wake
  <2> QED BY <1>4, <2>1, <2>2 DEF Wake
<1>5. CASE Type \/ Propose \/ Accept \/ CloseTab \/ Reopen \/ Format \/ SetConfirm
           \/ Outside \/ Tick \/ EventThread
  BY <1>1, <1>5 DEF Type, Propose, Accept, CloseTab, Reopen, Format, SetConfirm, Outside, Tick,
     EventThread, Answers, SyncDirtyDocs, RequestLenses, Draw, saveVars
<1>6. CASE Starter \/ HandshakeFails \/ Crash \/ Rested
  BY <1>1, <1>6 DEF Starter, Launch, Handshake, HandshakeFails, Crash, Rested, SrvOnly, saveVars
<1>7. ASSUME NEW kind, Waiting(kind) PROVE SaveInv'
  BY <1>1, <1>7 DEF Waiting, Reach, Return, PostWake, Goroutine
<1>8. CASE UNCHANGED vars
  BY <1>1, <1>8 DEF vars, saveVars
<1> QED BY <1>2, <1>3, <1>4, <1>5, <1>6, <1>7, <1>8 DEF Next, User

\* Every save gesture is told an outcome once, or its question was replaced and is
\* counted: through any saves that supersede, deferrals, answers, deadlines, closed
\* tabs, conflicts and questions over questions (App.write, resumeSave, finishWrite).
THEOREM SavesHaveOneAnswer == Spec => []SavesAreAnsweredOnce
<1>1. Init => SaveInv
  BY NobodyWaits DEF Init, SaveInv, AtMostOne, SavesAreAnsweredOnce
<1>2. SaveInv /\ [Next]_vars => SaveInv'
  BY SaveInvStep
<1>3. SaveInv => SavesAreAnsweredOnce
  BY DEF SaveInv
<1> QED BY <1>1, <1>2, <1>3, PTL DEF Spec

\* A question is about an open tab.
AboutOpenTab == prompt # {} => open

LEMMA AboutOpenTabStep == ASSUME AboutOpenTab, [Next]_vars PROVE AboutOpenTab'
<1>1. ASSUME UNCHANGED <<open, prompt>> PROVE AboutOpenTab'
  BY <1>1 DEF AboutOpenTab
<1>2. CASE Save \/ Answer
  <2>1. open /\ UNCHANGED open
    BY <1>2 DEF Save, Answer, Free, docVars, Write, Reload, AboutOpenTab
  <2> QED BY <2>1 DEF AboutOpenTab
<1>3. CASE CloseTab \/ Reopen
  BY <1>3 DEF CloseTab, Reopen, Free, saveVars, AboutOpenTab
<1>4. CASE Wake
  <2>1. UNCHANGED <<open, prompt>> \/ (open /\ UNCHANGED open)
    BY <1>4 DEF Wake, Resume, docVars
  <2> QED BY <2>1 DEF AboutOpenTab
<1>5. CASE Type \/ Propose \/ Accept \/ Format \/ SetConfirm \/ Outside \/ Tick \/ EventThread
  BY <1>1, <1>5 DEF Type, Propose, Accept, Format, SetConfirm, Outside, Tick, EventThread, Reload,
     Answers, SyncDirtyDocs, RequestLenses, Draw, saveVars, docVars
<1>6. CASE Starter \/ HandshakeFails \/ Crash \/ Rested
  BY <1>1, <1>6 DEF Starter, Launch, Handshake, HandshakeFails, Crash, Rested, SrvOnly, saveVars, docVars
<1>7. ASSUME NEW kind, Waiting(kind) PROVE AboutOpenTab'
  BY <1>1, <1>7 DEF Waiting, Reach, Return, PostWake, Goroutine, docVars
<1>8. CASE UNCHANGED vars
  BY <1>1, <1>8 DEF vars, saveVars, docVars
<1> QED BY <1>2, <1>3, <1>4, <1>5, <1>6, <1>7, <1>8 DEF Next, User

\* A deferred write that reaches the disk finds its tab, and leaves a change set its text.
LEMMA ResumeLeavesProposals ==
  ASSUME NEW w, NEW ans, Resume(w, ans), disk' # disk
  PROVE  open /\ (pending => UNCHANGED text /\ ~confirm)
  BY DEF Resume, Prompt, docVars

\* A write that was deferred is dropped when its tab is closed, and a change set that
\* arrived in the meantime keeps its text and goes through savePane: no step puts the
\* buffer on disk without the tab or with the server's edits over a pending change set,
\* or, while proposals are asked about, with one and no question (App.resumeSave,
\* savePane, write).
THEOREM LateSavesRespectTheUser == Spec => LateSaveRespectsTheUser
<1>1. Init => AboutOpenTab
  BY DEF Init, AboutOpenTab
<1>2. AboutOpenTab /\ [Next]_vars => AboutOpenTab'
  BY AboutOpenTabStep
<1>3. AboutOpenTab /\ [Next]_vars
          => [disk' # disk /\ stamp' = "known" =>
                open /\ (pending => text' = text /\ (confirm => prompt # {}))]_vars
  <2> SUFFICES ASSUME AboutOpenTab, [Next]_vars, disk' # disk, stamp' = "known"
               PROVE  open /\ (pending => text' = text /\ (confirm => prompt # {}))
    OBVIOUS
  <2>1. CASE Save
    <3>1. open /\ (Write(1, FALSE) /\ (~pending \/ ~confirm))
      BY <2>1 DEF Save, docVars
    <3> QED BY <3>1 DEF Write
  <2>2. CASE Answer
    <3>1. prompt # {} /\ UNCHANGED text
      BY <2>2 DEF Answer, Write, Reload, docVars
    <3> QED BY <3>1 DEF AboutOpenTab
  <2>3. CASE Wake
    <3>1. PICK w \in write, ans \in saveSlot : Resume(w, ans)
      BY <2>3 DEF Wake, docVars
    <3> QED BY <3>1, ResumeLeavesProposals
  <2>4. CASE Outside
    BY <2>4 DEF Outside
  <2>5. CASE \/ Type \/ Propose \/ Accept \/ CloseTab \/ Reopen \/ Format \/ SetConfirm
             \/ Tick \/ EventThread
    BY <2>5 DEF Type, Propose, Accept, CloseTab, Reopen, Format, SetConfirm, Tick, EventThread,
       Reload, Answers, SyncDirtyDocs, RequestLenses, Draw, docVars
  <2>6. CASE Starter \/ HandshakeFails \/ Crash \/ Rested
    BY <2>6 DEF Starter, Launch, Handshake, HandshakeFails, Crash, Rested, SrvOnly, docVars
  <2>7. ASSUME NEW kind, Waiting(kind) PROVE FALSE
    BY <2>7 DEF Waiting, Reach, Return, PostWake, Goroutine, docVars
  <2>8. CASE UNCHANGED vars
    BY <2>8 DEF vars, docVars
  <2> QED BY <2>1, <2>2, <2>3, <2>4, <2>5, <2>6, <2>7, <2>8 DEF Next, User
<1> QED BY <1>1, <1>2, <1>3, PTL DEF Spec, LateSaveRespectsTheUser

-----------------------------------------------------------------------------
(* Answers.                                                                *)

Requests == [kind : {"lens", "format", "save"}, fresh : BOOLEAN,
             at : {"spawned", "asked", "parked"}, conn : Nat, on : SUBSET Texts,
             version : Nat, tab : Nat, reloads : Nat]

FileTypes ==
    /\ open \in BOOLEAN /\ text \in Texts /\ disk \in Texts
    /\ tab \in Nat /\ version \in Nat /\ reloads \in Nat

AnswerTypes ==
    /\ asks \in SUBSET Requests
    /\ \A ans \in slot : ans \in Requests /\ ans.kind # "save"
    /\ \A ans \in saveSlot : ans \in Requests /\ ans.kind = "save"

\* No server that is not initialised has been told anything.
ServerInv ==
    /\ holds \in SUBSET Texts
    /\ conn \in Nat /\ sync \in Nat /\ sync <= conn /\ up \in BOOLEAN
    /\ starting = "handshake" => sync # conn
    /\ ~Initialised => holds = {}

\* Versions of one session of one tab only grow.
NotAhead(a) ==
    /\ a.tab <= tab /\ a.reloads <= reloads
    /\ a.tab = tab /\ a.reloads = reloads => a.version <= version

\* Asked of the buffer as it is.
Fits(a) == a.fresh /\ a.tab = tab /\ a.reloads = reloads /\ a.version = version

\* What a request is or will be answered about.  One that waits for the handshake
\* reaches the server before any other word of the buffer it does not know of.
AsksFit == \A a \in asks :
    /\ NotAhead(a)
    /\ Fits(a) /\ a.at = "spawned" /\ a.conn = conn /\ Initialised => holds \subseteq {text}
    /\ Fits(a) /\ a.at = "asked" => a.on \subseteq {text}

SlotsFit == \A ans \in slot \cup saveSlot :
    NotAhead(ans) /\ (Fits(ans) => ans.on \subseteq {text})

\* Lenses and their requests do not outlive their tab, and a deferred save waits for
\* the request of its own.
OfTheirTab ==
    /\ ~open => memo = {} /\ lenses = {}
    /\ \A a \in asks \cup slot : a.kind = "lens" /\ a.fresh => memo # {} /\ a.tab = tab
    /\ \A a \in asks \cup saveSlot, w \in write : a.kind = "save" /\ a.fresh => a.tab = w.tab

LensesFit == \A l \in lenses :
    /\ l.reloads \in Nat /\ l.reloads <= reloads /\ l.version \in Nat
    /\ l.reloads = reloads => l.version <= version
    /\ l.reloads = reloads /\ l.version = version => l.on \subseteq {text}
    /\ thread = "idle" => l.version = version

AnswerInv ==
    FileTypes /\ AnswerTypes /\ ServerInv /\ AsksFit /\ SlotsFit /\ OfTheirTab /\ LensesFit

\* How a step may change what requests are compared with.
SameFile == UNCHANGED <<text, version, tab, reloads>>
MovedFile ==
    \/ version' = version + 1 /\ UNCHANGED <<tab, reloads>>
    \/ reloads' = reloads + 1 /\ UNCHANGED tab
    \/ tab' = tab + 1 /\ UNCHANGED reloads

\* A request from before fits afterwards only if nothing has changed.
LEMMA OldRequest ==
  ASSUME FileTypes, FileTypes', SameFile \/ MovedFile, NEW a \in Requests, NotAhead(a)
  PROVE  NotAhead(a)' /\ (Fits(a)' => Fits(a) /\ SameFile)
<1>1. /\ a.tab \in Nat /\ a.reloads \in Nat /\ a.version \in Nat
      /\ tab \in Nat /\ reloads \in Nat /\ version \in Nat
      /\ tab' \in Nat /\ reloads' \in Nat /\ version' \in Nat
      /\ a.tab <= tab /\ a.reloads <= reloads
      /\ a.tab = tab /\ a.reloads = reloads => a.version <= version
  BY DEF Requests, FileTypes, NotAhead
<1>2. CASE SameFile
  BY <1>2 DEF SameFile, NotAhead, Fits
<1>3. CASE MovedFile
  <2>1. NotAhead(a)' /\ ~(a.tab = tab' /\ a.reloads = reloads' /\ a.version = version')
    BY <1>1, <1>3, SMT DEF MovedFile, NotAhead
  <2> QED BY <2>1 DEF Fits
<1> QED BY <1>2, <1>3

Forgotten(a) == ~a.fresh /\ a.version = 0 /\ a.tab = 0 /\ a.reloads = 0

LEMMA ForgottenIsHarmless ==
  ASSUME FileTypes', NEW a \in Requests, Forgotten(a)
  PROVE  NotAhead(a)' /\ ~Fits(a)'
  BY DEF FileTypes, NotAhead, Fits, Forgotten

\* A newer request forgets those of its kind.
LEMMA SupersededFrom ==
  ASSUME NEW S \in SUBSET Requests, NEW kind
  PROVE  \A s \in Superseded(kind, S) :
             /\ s \in Requests
             /\ s \in S \/ Forgotten(s)
             /\ s.kind = kind => Forgotten(s)
             /\ \E a \in S : a.kind = s.kind
<1> SUFFICES ASSUME NEW s \in Superseded(kind, S)
             PROVE  /\ s \in Requests
                    /\ s \in S \/ Forgotten(s)
                    /\ s.kind = kind => Forgotten(s)
                    /\ \E a \in S : a.kind = s.kind
  OBVIOUS
<1>1. PICK a \in S : s = IF a.kind = kind
          THEN [a EXCEPT !.fresh = FALSE, !.version = 0, !.tab = 0, !.reloads = 0]
          ELSE a
  BY DEF Superseded
<1>2. CASE a.kind # kind
  BY <1>1, <1>2
<1>3. CASE a.kind = kind
  <2>1. s = [kind |-> a.kind, fresh |-> FALSE, at |-> a.at, conn |-> a.conn, on |-> a.on,
             version |-> 0, tab |-> 0, reloads |-> 0]
    BY <1>1, <1>3 DEF Requests
  <2>2. a \in Requests
    OBVIOUS
  <2> QED BY <2>1, <2>2 DEF Requests, Forgotten
<1> QED BY <1>2, <1>3

\* A request just asked, of a server that holds the text if it is initialised.
JustAsked(a) ==
    /\ a.at = "spawned" /\ a.tab = tab' /\ a.reloads = reloads' /\ a.version = version'
    /\ Initialised' => holds' \subseteq {text'}

LEMMA AnswersFollow ==
  ASSUME AnswerInv, FileTypes', AnswerTypes', SameFile \/ MovedFile,
         holds' \subseteq {text'} \/ (UNCHANGED <<holds, conn>> /\ (Initialised' => Initialised)),
         \A a \in asks' : a \in asks \/ Forgotten(a) \/ JustAsked(a),
         \A ans \in slot' : ans \in slot \/ Forgotten(ans),
         \A ans \in saveSlot' : ans \in saveSlot \/ Forgotten(ans)
  PROVE  AsksFit' /\ SlotsFit'
<1>1. ASSUME NEW a \in asks'
      PROVE  /\ NotAhead(a)'
             /\ Fits(a)' /\ a.at = "spawned" /\ a.conn = conn' /\ Initialised' => holds' \subseteq {text'}
             /\ Fits(a)' /\ a.at = "asked" => a.on \subseteq {text'}
  <2>1. a \in Requests
    BY DEF AnswerTypes
  <2>2. CASE a \in asks
    <3>1. /\ NotAhead(a)
          /\ Fits(a) /\ a.at = "spawned" /\ a.conn = conn /\ Initialised => holds \subseteq {text}
          /\ Fits(a) /\ a.at = "asked" => a.on \subseteq {text}
      BY <2>2 DEF AnswerInv, AsksFit
    <3>2. NotAhead(a)' /\ (Fits(a)' => Fits(a) /\ SameFile)
      BY <2>1, <3>1, OldRequest DEF AnswerInv
    <3> QED BY <3>1, <3>2 DEF SameFile
  <2>3. CASE Forgotten(a)
    BY <2>1, <2>3, ForgottenIsHarmless
  <2>4. CASE JustAsked(a)
    BY <2>1, <2>4 DEF JustAsked, NotAhead, FileTypes
  <2> QED BY <2>2, <2>3, <2>4
<1>2. ASSUME NEW a \in slot' \cup saveSlot'
      PROVE  NotAhead(a)' /\ (Fits(a)' => a.on \subseteq {text'})
  <2>1. a \in Requests
    BY DEF AnswerTypes
  <2>2. CASE a \in slot \cup saveSlot
    <3>1. NotAhead(a) /\ (Fits(a) => a.on \subseteq {text})
      BY <2>2 DEF AnswerInv, SlotsFit
    <3>2. NotAhead(a)' /\ (Fits(a)' => Fits(a) /\ SameFile)
      BY <2>1, <3>1, OldRequest DEF AnswerInv
    <3> QED BY <3>1, <3>2 DEF SameFile
  <2>3. CASE Forgotten(a)
    BY <2>1, <2>3, ForgottenIsHarmless
  <2> QED BY <2>2, <2>3
<1> QED BY <1>1, <1>2 DEF AsksFit, SlotsFit

LEMMA TabsFollow ==
  ASSUME AnswerInv, UNCHANGED tab, memo' = memo \/ memo' # {},
         \A a \in asks' \cup slot' : a.kind = "lens" /\ a.fresh
             => a \in asks \cup slot \/ (a.tab = tab /\ memo' # {}),
         \A a \in asks' \cup saveSlot', w \in write' : a.kind = "save" /\ a.fresh
             => (a \in asks \cup saveSlot /\ w \in write) \/ a.tab = w.tab,
         ~open' => memo' = {} /\ lenses' = {}
  PROVE  OfTheirTab'
<1>1. ASSUME NEW a \in asks' \cup slot', a.kind = "lens", a.fresh PROVE memo' # {} /\ a.tab = tab'
  BY <1>1 DEF AnswerInv, OfTheirTab
<1>2. ASSUME NEW a \in asks' \cup saveSlot', NEW w \in write', a.kind = "save", a.fresh
      PROVE  a.tab = w.tab
  BY <1>2 DEF AnswerInv, OfTheirTab
<1> QED BY <1>1, <1>2 DEF OfTheirTab

LEMMA LensesFollow ==
  ASSUME AnswerInv, FileTypes', lenses' \in SUBSET lenses,
         \/ lenses' = {}
         \/ SameFile
         \/ version' = version + 1 /\ UNCHANGED <<tab, reloads>>
         \/ reloads' = reloads + 1 /\ UNCHANGED tab,
         thread' = "idle" => \/ lenses' = {}
                             \/ thread = "idle" /\ SameFile
                             \/ \A l \in lenses' : l.version = version'
  PROVE  LensesFit'
<1>1. ASSUME NEW l \in lenses'
      PROVE  /\ l.reloads \in Nat /\ l.reloads <= reloads' /\ l.version \in Nat
             /\ l.reloads = reloads' => l.version <= version'
             /\ l.reloads = reloads' /\ l.version = version' => l.on \subseteq {text'}
             /\ thread' = "idle" => l.version = version'
  <2>1. /\ l.reloads \in Nat /\ l.reloads <= reloads /\ l.version \in Nat
        /\ l.reloads = reloads => l.version <= version
        /\ l.reloads = reloads /\ l.version = version => l.on \subseteq {text}
        /\ thread = "idle" => l.version = version
        /\ version \in Nat /\ reloads \in Nat /\ version' \in Nat /\ reloads' \in Nat
    BY DEF AnswerInv, LensesFit, FileTypes
  <2>2. CASE SameFile
    BY <2>1, <2>2 DEF SameFile
  <2>3. CASE \/ version' = version + 1 /\ UNCHANGED <<tab, reloads>>
             \/ reloads' = reloads + 1 /\ UNCHANGED tab
    <3>1. /\ l.reloads <= reloads' /\ (l.reloads = reloads' => l.version <= version')
          /\ ~(l.reloads = reloads' /\ l.version = version')
      BY <2>1, <2>3
    <3>2. ~SameFile
      BY <2>1, <2>3 DEF SameFile
    <3> QED BY <1>1, <2>1, <3>1, <3>2
  <2> QED BY <1>1, <2>2, <2>3
<1> QED BY <1>1 DEF LensesFit

LEMMA ServerKept ==
  ASSUME FileTypes, ServerInv, holds' = holds \/ holds' = {} \/ holds' = {text}, UNCHANGED <<conn, up, sync>>, starting' = starting \/ starting' = "asked",
         ~Initialised => holds' = holds
  PROVE  ServerInv' /\ (Initialised' <=> Initialised)
  BY DEF FileTypes, ServerInv, Initialised

-----------------------------------------------------------------------------
(* Each step keeps the answers.                                            *)

LEMMA SyncDocTells ==
  ASSUME SyncDoc
  PROVE  /\ UNCHANGED sync /\ (~Initialised => UNCHANGED holds)
         /\ Initialised => holds' = {text}
  BY DEF SyncDoc

LEMMA NewRequest ==
  ASSUME FileTypes, ServerInv, NEW kind \in {"lens", "format", "save"}
  PROVE  /\ Request(kind) \in Requests /\ Request(kind).kind = kind
         /\ Request(kind).at = "spawned" /\ Request(kind).tab = tab
         /\ Request(kind).reloads = reloads /\ Request(kind).version = version
  BY DEF Request, Requests, FileTypes, ServerInv

\* What Ask leaves of the requests, the file and the server being as told.
LEMMA AskFollows ==
  ASSUME AnswerInv, NEW kind \in {"lens", "format", "save"}, Ask(kind), SameFile, SyncDoc,
         UNCHANGED <<conn, up>>
  PROVE  /\ asks' \in SUBSET Requests
         /\ \A a \in asks' : a \in asks \/ Forgotten(a) \/ JustAsked(a)
         /\ \A a \in asks' : a.kind = kind => Forgotten(a) \/ a.tab = tab
         /\ \A a \in asks' : a.kind # kind => a \in asks \/ Forgotten(a)
<1> DEFINE r == Request(kind)
<1>1. asks' = Superseded(kind, asks) \cup {r}
  BY DEF Ask
<1>2. /\ r \in Requests /\ r.kind = kind /\ r.at = "spawned" /\ r.tab = tab
      /\ r.reloads = reloads /\ r.version = version
  BY NewRequest DEF AnswerInv
<1> HIDE DEF r
<1>3. Initialised' => holds' \subseteq {text'}
  BY SyncDocTells DEF Initialised, SameFile
<1>4. JustAsked(r)
  BY <1>2, <1>3 DEF JustAsked, SameFile
<1>5. \A s \in Superseded(kind, asks) : s \in Requests /\ (s \in asks \/ Forgotten(s))
                                        /\ (s.kind = kind => Forgotten(s))
  BY SupersededFrom DEF AnswerInv, AnswerTypes
<1> QED BY <1>1, <1>2, <1>4, <1>5

LEMMA EditsKeepAnswers ==
  ASSUME AnswerInv, Type \/ Propose \/ Accept \/ SetConfirm \/ Outside PROVE AnswerInv'
<1> USE DEF srvVars, syncVars, askVars, saveVars
<1>1. /\ UNCHANGED <<srvVars, syncVars, askVars, saveVars, lenses, open, tab, reloads>>
      /\ (version' = version + 1 /\ text' \in Texts) \/ UNCHANGED <<version, text>>
      /\ disk' \in Texts
      /\ thread' = (IF lenses' = {} THEN "idle" ELSE "draw")
             \/ (UNCHANGED <<thread, version, text>>)
  BY DEF Type, Propose, Accept, SetConfirm, Outside, NewText, Ends, Upset, AnswerInv, FileTypes,
     docVars
<1>2. FileTypes' /\ AnswerTypes'
  BY <1>1 DEF AnswerInv, FileTypes, AnswerTypes
<1>3. SameFile \/ (version' = version + 1 /\ UNCHANGED <<tab, reloads>>)
  BY <1>1 DEF SameFile
<1>4. ServerInv' /\ (Initialised' <=> Initialised)
  BY <1>1, ServerKept DEF AnswerInv
<1>5. AsksFit' /\ SlotsFit'
  BY <1>1, <1>2, <1>3, <1>4, AnswersFollow DEF MovedFile
<1>6. OfTheirTab'
  BY <1>1, TabsFollow DEF AnswerInv, OfTheirTab
<1>7. LensesFit'
  <2>1. thread' = "idle" => lenses' = {} \/ (thread = "idle" /\ SameFile)
    BY <1>1 DEF SameFile
  <2> QED BY <1>1, <1>2, <1>3, <2>1, LensesFollow
<1> QED BY <1>2, <1>4, <1>5, <1>6, <1>7 DEF AnswerInv

\* A tab that closes takes its lenses and their requests with it.
LEMMA CloseTabKeepsAnswers ==
  ASSUME AnswerInv, CloseTab PROVE AnswerInv'
<1> USE DEF srvVars, saveVars
<1>1. /\ UNCHANGED <<conn, up, starting, sync, saveSlot, write, text, version, tab, reloads, disk>>
      /\ open' = FALSE /\ memo' = {} /\ lenses' = {}
      /\ holds' = (IF Initialised THEN {} ELSE holds)
      /\ asks' = (IF memo = {} THEN asks ELSE Superseded("lens", asks))
      /\ slot' = (IF memo = {} THEN slot ELSE Superseded("lens", slot))
      /\ thread' = "idle"
  BY DEF CloseTab, Ends
<1>2. SameFile /\ FileTypes'
  BY <1>1 DEF SameFile, AnswerInv, FileTypes
<1>3. /\ asks \in SUBSET Requests /\ slot \in SUBSET Requests
      /\ \A ans \in slot : ans.kind # "save"
  BY DEF AnswerInv, AnswerTypes
<1>4. \A a \in asks' : a \in Requests /\ (a \in asks \/ Forgotten(a))
  BY <1>1, <1>3, SupersededFrom
<1>5. \A a \in slot' : a \in Requests /\ (a \in slot \/ Forgotten(a)) /\ a.kind # "save"
  BY <1>1, <1>3, SupersededFrom
<1>6. \A a \in asks' \cup slot' : ~(a.kind = "lens" /\ a.fresh)
  <2>1. CASE memo = {}
    BY <1>1, <2>1 DEF AnswerInv, OfTheirTab
  <2>2. CASE memo # {}
    BY <1>1, <1>3, <2>2, SupersededFrom DEF Forgotten
  <2> QED BY <2>1, <2>2
<1>7. AnswerTypes'
  BY <1>1, <1>4, <1>5 DEF AnswerInv, AnswerTypes
<1>8. ServerInv' /\ (Initialised' <=> Initialised)
  BY <1>1, ServerKept DEF AnswerInv
<1>9. AsksFit' /\ SlotsFit'
  BY <1>1, <1>2, <1>4, <1>5, <1>7, <1>8, AnswersFollow
<1>10. OfTheirTab'
  BY <1>1, <1>4, <1>6 DEF AnswerInv, OfTheirTab, Forgotten
<1>11. LensesFit'
  BY <1>1 DEF LensesFit
<1> QED BY <1>2, <1>7, <1>8, <1>9, <1>10, <1>11 DEF AnswerInv

\* A tab that opens again has none to take over.
LEMMA ReopenKeepsAnswers ==
  ASSUME AnswerInv, Reopen PROVE AnswerInv'
<1> USE DEF srvVars, syncVars, askVars, saveVars
<1>1. /\ UNCHANGED <<conn, up, starting, sync, holds, asks, slot, saveSlot, memo, lenses, write,
                     reloads, disk>>
      /\ ~open /\ open' = TRUE /\ tab' = tab + 1 /\ text' = disk /\ version' = 0
  BY DEF Reopen
<1>2. FileTypes' /\ MovedFile /\ AnswerTypes'
  BY <1>1 DEF MovedFile, AnswerInv, FileTypes, AnswerTypes
<1>3. ServerInv' /\ (Initialised' <=> Initialised)
  BY <1>1, ServerKept DEF AnswerInv
<1>4. AsksFit' /\ SlotsFit'
  BY <1>1, <1>2, <1>3, AnswersFollow
<1>5. memo = {} /\ lenses = {}
  BY <1>1 DEF AnswerInv, OfTheirTab
<1>6. OfTheirTab'
  BY <1>1, <1>5 DEF AnswerInv, OfTheirTab
<1>7. LensesFit'
  BY <1>1, <1>5 DEF LensesFit
<1> QED BY <1>2, <1>3, <1>4, <1>6, <1>7 DEF AnswerInv

LEMMA FormatKeepsAnswers ==
  ASSUME AnswerInv, Format PROVE AnswerInv'
<1> USE DEF docVars, saveVars, syncVars
<1>1. /\ UNCHANGED <<open, tab, text, version, reloads, disk, conn, up, memo, lenses, saveSlot, write>>
      /\ open
      /\ starting' = starting \/ starting' = "asked"
      /\ SyncDoc \/ UNCHANGED <<sync, holds>>
      /\ \/ SyncDoc /\ Ask("format") /\ slot' = Superseded("format", slot)
         \/ UNCHANGED <<asks, slot>>
      /\ thread' = "idle" => lenses' = {}
  BY DEF Format, Ends
<1>2. SameFile /\ FileTypes'
  BY <1>1 DEF SameFile, AnswerInv, FileTypes
<1>3. UNCHANGED sync /\ (~Initialised => UNCHANGED holds) /\ (holds' = holds \/ holds' = {text})
  BY <1>1, SyncDocTells
<1>4. ServerInv' /\ (Initialised' <=> Initialised)
  BY <1>1, <1>3, ServerKept DEF AnswerInv
<1>5. /\ asks \in SUBSET Requests /\ slot \in SUBSET Requests
      /\ \A ans \in slot : ans.kind # "save"
  BY DEF AnswerInv, AnswerTypes
<1>6. /\ asks' \in SUBSET Requests /\ slot' \in SUBSET Requests
      /\ \A a \in asks' : a \in asks \/ Forgotten(a) \/ JustAsked(a)
      /\ \A a \in asks' : a.kind # "format" => a \in asks \/ Forgotten(a)
      /\ \A a \in slot' : (a \in slot \/ Forgotten(a)) /\ a.kind # "save"
  <2>1. CASE SyncDoc /\ Ask("format") /\ slot' = Superseded("format", slot)
    <3>1. /\ asks' \in SUBSET Requests
          /\ \A a \in asks' : a \in asks \/ Forgotten(a) \/ JustAsked(a)
          /\ \A a \in asks' : a.kind # "format" => a \in asks \/ Forgotten(a)
      BY <1>1, <1>2, <2>1, AskFollows
    <3>2. \A a \in slot' : a \in Requests /\ (a \in slot \/ Forgotten(a)) /\ a.kind # "save"
      BY <1>5, <2>1, SupersededFrom
    <3> QED BY <3>1, <3>2
  <2>2. CASE UNCHANGED <<asks, slot>>
    BY <1>5, <2>2
  <2> QED BY <1>1, <2>1, <2>2
<1>7. AnswerTypes'
  BY <1>1, <1>6 DEF AnswerInv, AnswerTypes
<1>8. AsksFit' /\ SlotsFit'
  BY <1>1, <1>2, <1>3, <1>4, <1>6, <1>7, AnswersFollow DEF SameFile
<1>9. OfTheirTab'
  BY <1>1, <1>6, TabsFollow DEF Forgotten, AnswerInv, OfTheirTab
<1>10. LensesFit'
  BY <1>1, <1>2, LensesFollow
<1> QED BY <1>2, <1>4, <1>7, <1>8, <1>9, <1>10 DEF AnswerInv

\* A write leaves the file as it is, and its request is the only one that is fresh.
LEMMA WriteFollows ==
  ASSUME AnswerInv, NEW thens, NEW force, Write(thens, force), UNCHANGED <<conn, up>>
  PROVE  /\ SameFile /\ UNCHANGED <<open, sync>> /\ disk' \in Texts
         /\ ~Initialised => UNCHANGED holds
         /\ holds' = holds \/ holds' = {text}
         /\ asks' \in SUBSET Requests /\ saveSlot' \in SUBSET Requests
         /\ \A a \in asks' : a \in asks \/ Forgotten(a) \/ JustAsked(a)
         /\ \A a \in asks' : a.kind # "save" => a \in asks \/ Forgotten(a)
         /\ \A ans \in saveSlot' : (ans \in saveSlot \/ Forgotten(ans)) /\ ans.kind = "save"
         /\ \A a \in asks' \cup saveSlot', w \in write' : a.kind = "save" /\ a.fresh
               => (a \in asks \cup saveSlot /\ w \in write) \/ a.tab = w.tab
<1> DEFINE mine == {w \in write : w.tab = tab}
           all  == thens + Waits(mine)
<1>1. /\ asks \in SUBSET Requests /\ saveSlot \in SUBSET Requests
      /\ \A ans \in saveSlot : ans.kind = "save"
  BY DEF AnswerInv, AnswerTypes
<1>2. SameFile /\ UNCHANGED open
  BY DEF Write, SameFile
<1>3. ASSUME NEW t, NEW f, FinishWrite(t, f, {}) PROVE disk' \in Texts
  BY <1>2, <1>3 DEF FinishWrite, SameFile, AnswerInv, FileTypes
<1>4. CASE write # mine
  <2>1. FinishWrite(thens, force, {}) /\ UNCHANGED <<write, asks, saveSlot, syncVars>>
    BY <1>4 DEF Write
  <2>2. disk' \in Texts
    BY <1>3, <2>1
  <2> QED BY <1>1, <1>2, <2>1, <2>2 DEF syncVars
<1>5. CASE write = mine
  <2>1. saveSlot' = Superseded("save", saveSlot)
    BY <1>5 DEF Write
  <2>2. \/ Defer(all, force)
        \/ /\ write' = {} /\ asks' = Superseded("save", asks)
           /\ \/ ~SyncedOk /\ SyncDoc
              \/ UNCHANGED syncVars
           /\ FinishWrite(all, force, {})
    BY <1>5, Zenon DEF Write
  <2>3. \A ans \in saveSlot' : Forgotten(ans) /\ ans.kind = "save" /\ ans \in Requests
    BY <1>1, <2>1, SupersededFrom
  <2> HIDE DEF all
  <2>4. CASE Defer(all, force)
    <3> DEFINE w == [tab |-> tab, version |-> version, thens |-> all, force |-> force]
    <3>1. SyncDoc /\ Ask("save") /\ write' = {w} /\ w.tab = tab /\ UNCHANGED disk
      BY <2>4 DEF Defer
    <3> HIDE DEF w
    <3>2. /\ asks' \in SUBSET Requests
          /\ \A a \in asks' : a \in asks \/ Forgotten(a) \/ JustAsked(a)
          /\ \A a \in asks' : a.kind = "save" => Forgotten(a) \/ a.tab = tab
          /\ \A a \in asks' : a.kind # "save" => a \in asks \/ Forgotten(a)
      BY <1>2, <3>1, AskFollows
    <3>3. UNCHANGED sync /\ (~Initialised => UNCHANGED holds) /\ (holds' = holds \/ holds' = {text})
      BY <3>1, SyncDocTells
    <3>4. disk' \in Texts
      BY <3>1 DEF AnswerInv, FileTypes
    <3>5. \A a \in asks' \cup saveSlot', v \in write' : a.kind = "save" /\ a.fresh => a.tab = v.tab
      BY <2>3, <3>1, <3>2 DEF Forgotten
    <3> QED BY <1>2, <2>3, <3>2, <3>3, <3>4, <3>5
  <2>5. CASE /\ write' = {} /\ asks' = Superseded("save", asks)
             /\ \/ ~SyncedOk /\ SyncDoc
                \/ UNCHANGED syncVars
             /\ FinishWrite(all, force, {})
    <3>1. disk' \in Texts
      BY <1>3, <2>5
    <3>2. \A a \in asks' : a \in Requests /\ (a \in asks \/ Forgotten(a))
      BY <1>1, <2>5, SupersededFrom
    <3>3. UNCHANGED sync /\ (~Initialised => UNCHANGED holds) /\ (holds' = holds \/ holds' = {text})
      BY <2>5, SyncDocTells DEF syncVars
    <3> QED BY <1>2, <2>3, <2>5, <3>1, <3>2, <3>3
  <2> QED BY <2>2, <2>4, <2>5
<1> QED BY <1>4, <1>5

LEMMA WriteKeepsAnswers ==
  ASSUME AnswerInv, NEW thens, NEW force, Write(thens, force),
         UNCHANGED <<srvVars, slot, memo, lenses>>, Ends
  PROVE  AnswerInv'
<1>1. UNCHANGED <<conn, up, starting, slot, memo, lenses>> /\ (thread' = "idle" => lenses' = {})
  BY DEF srvVars, Ends
<1>2. /\ SameFile /\ UNCHANGED <<open, sync>> /\ disk' \in Texts
      /\ ~Initialised => UNCHANGED holds
      /\ holds' = holds \/ holds' = {text}
      /\ asks' \in SUBSET Requests /\ saveSlot' \in SUBSET Requests
      /\ \A a \in asks' : a \in asks \/ Forgotten(a) \/ JustAsked(a)
      /\ \A a \in asks' : a.kind # "save" => a \in asks \/ Forgotten(a)
      /\ \A ans \in saveSlot' : (ans \in saveSlot \/ Forgotten(ans)) /\ ans.kind = "save"
      /\ \A a \in asks' \cup saveSlot', w \in write' : a.kind = "save" /\ a.fresh
            => (a \in asks \cup saveSlot /\ w \in write) \/ a.tab = w.tab
  BY <1>1, WriteFollows
<1>3. FileTypes' /\ AnswerTypes'
  BY <1>1, <1>2 DEF SameFile, AnswerInv, FileTypes, AnswerTypes
<1>4. ServerInv' /\ (Initialised' <=> Initialised)
  BY <1>1, <1>2, ServerKept DEF AnswerInv
<1>5. AsksFit' /\ SlotsFit'
  BY <1>1, <1>2, <1>3, <1>4, AnswersFollow DEF SameFile
<1>6. OfTheirTab'
  <2>1. UNCHANGED tab /\ (~open' => memo' = {} /\ lenses' = {})
    BY <1>1, <1>2 DEF SameFile, AnswerInv, OfTheirTab
  <2>2. \A a \in asks' \cup slot' : a.kind = "lens" /\ a.fresh => a \in asks \cup slot
    BY <1>1, <1>2 DEF Forgotten
  <2> QED BY <1>1, <1>2, <2>1, <2>2, TabsFollow
<1>7. LensesFit'
  BY <1>1, <1>2, <1>3, LensesFollow
<1> QED BY <1>3, <1>4, <1>5, <1>6, <1>7 DEF AnswerInv

\* What leaves the requests, their answers and the server alone.
LEMMA QuietFollows ==
  ASSUME AnswerInv, UNCHANGED <<open, tab, conn, up, starting, sync, holds, asks, memo>>,
         slot' \in SUBSET slot, saveSlot' \in SUBSET saveSlot, write' \in SUBSET write,
         lenses' \in SUBSET lenses, disk' \in Texts,
         \/ UNCHANGED <<text, version, reloads>>
         \/ version' = version + 1 /\ text' \in Texts /\ UNCHANGED reloads
         \/ reloads' = reloads + 1 /\ version' = 0 /\ text' \in Texts,
         thread' = "idle" => \/ lenses' = {}
                             \/ thread = "idle" /\ UNCHANGED <<text, version, reloads>>
  PROVE  AnswerInv'
<1>1. FileTypes' /\ AnswerTypes'
  BY DEF AnswerInv, FileTypes, AnswerTypes
<1>2. \/ SameFile
      \/ version' = version + 1 /\ UNCHANGED <<tab, reloads>>
      \/ reloads' = reloads + 1 /\ UNCHANGED tab
  BY DEF SameFile
<1>3. ServerInv' /\ (Initialised' <=> Initialised)
  BY ServerKept DEF AnswerInv
<1>4. AsksFit' /\ SlotsFit'
  BY <1>1, <1>2, <1>3, AnswersFollow DEF MovedFile
<1>5. OfTheirTab'
  BY TabsFollow DEF AnswerInv, OfTheirTab
<1>6. LensesFit'
  <2>1. thread' = "idle" => lenses' = {} \/ (thread = "idle" /\ SameFile)
    BY DEF SameFile
  <2> QED BY <1>1, <1>2, <2>1, LensesFollow
<1> QED BY <1>1, <1>3, <1>4, <1>5, <1>6 DEF AnswerInv

LEMMA SaveKeepsAnswers ==
  ASSUME AnswerInv, Save PROVE AnswerInv'
<1>1. UNCHANGED <<srvVars, slot, memo, lenses>> /\ Ends
  BY DEF Save
<1>2. CASE UNCHANGED <<docVars, syncVars, asks, saveSlot, write>>
  <2>1. disk' \in Texts /\ (thread' = "idle" => lenses' = {})
    BY <1>1, <1>2 DEF Ends, AnswerInv, FileTypes, docVars
  <2> QED BY <1>1, <1>2, <2>1, QuietFollows DEF docVars, syncVars, srvVars
<1>3. CASE Write(1, FALSE)
  BY <1>1, <1>3, WriteKeepsAnswers
<1> QED BY <1>2, <1>3 DEF Save

LEMMA AnswerKeepsAnswers ==
  ASSUME AnswerInv, Answer PROVE AnswerInv'
<1>1. UNCHANGED <<srvVars, slot, memo, lenses>> /\ Ends
  BY DEF Answer
<1>2. PICK p \in prompt :
          \/ UNCHANGED <<docVars, syncVars, asks, saveSlot, write>>
          \/ Write(p.thens, p.kind = "conflict")
          \/ Reload /\ UNCHANGED <<syncVars, asks, saveSlot, write>>
  BY DEF Answer
<1>3. thread' = "idle" => lenses' = {}
  BY <1>1 DEF Ends
<1>4. CASE UNCHANGED <<docVars, syncVars, asks, saveSlot, write>>
  <2>1. disk' \in Texts
    BY <1>4 DEF AnswerInv, FileTypes, docVars
  <2> QED BY <1>1, <1>3, <1>4, <2>1, QuietFollows DEF docVars, syncVars, srvVars
<1>5. CASE Write(p.thens, p.kind = "conflict")
  BY <1>1, <1>5, WriteKeepsAnswers
<1>6. CASE Reload /\ UNCHANGED <<syncVars, asks, saveSlot, write>>
  <2>1. /\ UNCHANGED <<open, tab, disk>> /\ disk' \in Texts /\ text' \in Texts
        /\ reloads' = reloads + 1 /\ version' = 0
    BY <1>6 DEF Reload, AnswerInv, FileTypes
  <2> QED BY <1>1, <1>3, <1>6, <2>1, QuietFollows DEF syncVars, srvVars
<1> QED BY <1>2, <1>4, <1>5, <1>6

LEMMA TickKeepsAnswers ==
  ASSUME AnswerInv, Tick PROVE AnswerInv'
<1>1. /\ UNCHANGED <<open, tab, conn, up, starting, sync, holds, asks, memo, slot, saveSlot, write,
                     lenses, disk>>
      /\ \/ UNCHANGED <<text, version, reloads>>
         \/ reloads' = reloads + 1 /\ version' = 0 /\ text' = disk
      /\ thread' = "sync"
  BY DEF Tick, Reload, docVars, srvVars, syncVars, askVars, saveVars
<1>2. disk \in Texts
  BY DEF AnswerInv, FileTypes
<1> QED BY <1>1, <1>2, QuietFollows

LEMMA WakeKeepsAnswers ==
  ASSUME AnswerInv, Wake PROVE AnswerInv'
<1> USE DEF docVars, srvVars, syncVars, askVars
<1>1. /\ UNCHANGED <<conn, up, starting, sync, holds, asks, slot, memo, lenses>>
      /\ thread' = "answers" /\ saveSlot' = {}
  BY DEF Wake
<1>2. disk \in Texts /\ text \in Texts /\ version \in Nat
  BY DEF AnswerInv, FileTypes
<1>3. /\ UNCHANGED <<open, tab, reloads>> /\ write' \in SUBSET write /\ disk' \in Texts
      /\ UNCHANGED <<text, version>> \/ (version' = version + 1 /\ text' \in Texts)
  <2>1. CASE UNCHANGED <<docVars, write>>
    BY <1>2, <2>1
  <2>2. ASSUME NEW w \in write, NEW ans \in saveSlot, write' = {}, Resume(w, ans)
        PROVE  /\ UNCHANGED <<open, tab, reloads>> /\ write' \in SUBSET write /\ disk' \in Texts
               /\ UNCHANGED <<text, version>> \/ (version' = version + 1 /\ text' \in Texts)
    <3>1. CASE UNCHANGED docVars
      BY <1>2, <2>2, <3>1
    <3>2. CASE Install(ans) /\ FinishWrite(w.thens, w.force, prompt) /\ UNCHANGED <<open, tab, reloads>>
      <4>1. UNCHANGED <<text, version>> \/ (version' = version + 1 /\ text' \in Texts)
        BY <3>2 DEF Install, NewText
      <4>2. disk' \in Texts
        BY <1>2, <3>2, <4>1 DEF FinishWrite
      <4> QED BY <2>2, <3>2, <4>1, <4>2
    <3>3. CASE FinishWrite(w.thens, FALSE, prompt) /\ UNCHANGED <<open, tab, text, version, reloads>>
      <4>1. disk' \in Texts
        BY <1>2, <3>3 DEF FinishWrite
      <4> QED BY <2>2, <3>3, <4>1
    <3> QED BY <2>2, <3>1, <3>2, <3>3 DEF Resume
  <2> QED BY <2>1, <2>2 DEF Wake
<1> QED BY <1>1, <1>3, QuietFollows

\* Lenses go on screen with the version and the session they were asked of.
LEMMA AnswersKeepAnswers ==
  ASSUME AnswerInv, Answers PROVE AnswerInv'
<1> USE DEF srvVars, syncVars, saveVars
<1>1. /\ UNCHANGED <<open, tab, reloads, disk, conn, up, starting, sync, holds, asks, memo,
                     saveSlot, write>>
      /\ slot' = {} /\ (thread' = "idle" => lenses' = {})
  BY DEF Answers, Ends
<1>2. disk' \in Texts /\ text \in Texts
  BY <1>1 DEF AnswerInv, FileTypes
<1>3. ASSUME NEW ans \in slot, Accepts(ans), ans.kind = "lens", UNCHANGED <<text, version>>,
             lenses' = (IF ans.on = {} THEN {}
                        ELSE {[version |-> version, reloads |-> ans.reloads, on |-> ans.on]})
      PROVE  AnswerInv'
  <2>1. FileTypes' /\ AnswerTypes' /\ SameFile
    BY <1>1, <1>3 DEF AnswerInv, FileTypes, AnswerTypes, SameFile
  <2>2. ServerInv' /\ (Initialised' <=> Initialised)
    BY <1>1, ServerKept DEF AnswerInv
  <2>3. AsksFit' /\ SlotsFit'
    BY <1>1, <2>1, <2>2, AnswersFollow
  <2>4. ~open' => memo' = {} /\ lenses' = {}
    BY <1>1, <1>3 DEF Accepts
  <2>5. OfTheirTab'
    BY <1>1, <2>4, TabsFollow
  <2>6. LensesFit'
    <3>1. ans \in Requests /\ NotAhead(ans) /\ (Fits(ans) => ans.on \subseteq {text})
          /\ ans.fresh /\ ans.version = version /\ ans.tab = tab
      BY <1>3 DEF Accepts, AnswerInv, AnswerTypes, SlotsFit, OfTheirTab
    <3>2. /\ ans.reloads \in Nat /\ ans.reloads <= reloads /\ version \in Nat
          /\ ans.reloads = reloads => ans.on \subseteq {text}
      BY <3>1 DEF Requests, NotAhead, Fits, AnswerInv, FileTypes
    <3>3. \A l \in lenses' : l.version = version /\ l.reloads = ans.reloads /\ l.on = ans.on
      BY <1>3
    <3> QED BY <1>1, <1>3, <3>2, <3>3 DEF LensesFit
  <2> QED BY <2>1, <2>2, <2>3, <2>5, <2>6 DEF AnswerInv
<1>4. ASSUME UNCHANGED lenses,
             UNCHANGED <<text, version>> \/ (version' = version + 1 /\ text' \in Texts)
      PROVE  AnswerInv'
  BY <1>1, <1>2, <1>4, QuietFollows
<1>5. ASSUME NEW ans \in slot, Install(ans), UNCHANGED lenses PROVE AnswerInv'
  <2>1. UNCHANGED <<text, version>> \/ (version' = version + 1 /\ text' \in Texts)
    BY <1>5 DEF Install, NewText
  <2> QED BY <1>4, <1>5, <2>1
<1> QED BY <1>3, <1>4, <1>5 DEF Answers

LEMMA SyncDirtyDocsKeepsAnswers ==
  ASSUME AnswerInv, SyncDirtyDocs PROVE AnswerInv'
<1> USE DEF docVars, srvVars, askVars, saveVars
<1>1. /\ UNCHANGED <<open, tab, text, version, reloads, disk, conn, up, starting, asks, slot, memo,
                     lenses, saveSlot, write>>
      /\ thread' = "lenses" /\ (SyncDoc \/ UNCHANGED <<sync, holds>>)
  BY DEF SyncDirtyDocs, syncVars
<1>2. UNCHANGED sync /\ (~Initialised => UNCHANGED holds) /\ (holds' = holds \/ holds' = {text})
  BY <1>1, SyncDocTells
<1>3. FileTypes' /\ AnswerTypes' /\ SameFile
  BY <1>1 DEF AnswerInv, FileTypes, AnswerTypes, SameFile
<1>4. ServerInv' /\ (Initialised' <=> Initialised)
  BY <1>1, <1>2, ServerKept DEF AnswerInv
<1>5. AsksFit' /\ SlotsFit'
  BY <1>1, <1>2, <1>3, <1>4, AnswersFollow
<1>6. OfTheirTab'
  BY <1>1, TabsFollow DEF AnswerInv, OfTheirTab
<1>7. LensesFit'
  BY <1>1, <1>3, LensesFollow
<1> QED BY <1>3, <1>4, <1>5, <1>6, <1>7 DEF AnswerInv

LEMMA RequestLensesKeepsAnswers ==
  ASSUME AnswerInv, RequestLenses PROVE AnswerInv'
<1> USE DEF docVars, saveVars, syncVars, askVars
<1>1. /\ UNCHANGED <<open, tab, text, version, reloads, disk, conn, up, lenses, saveSlot, write>>
      /\ starting' = starting \/ starting' = "asked"
      /\ SyncDoc \/ UNCHANGED <<sync, holds>>
      /\ \/ SyncDoc /\ Ask("lens") /\ slot' = Superseded("lens", slot) /\ memo' = {version} /\ open
         \/ UNCHANGED <<asks, slot, memo>>
      /\ thread' = "idle" => lenses' = {}
  BY DEF RequestLenses, Ends
<1>2. SameFile /\ FileTypes'
  BY <1>1 DEF SameFile, AnswerInv, FileTypes
<1>3. UNCHANGED sync /\ (~Initialised => UNCHANGED holds) /\ (holds' = holds \/ holds' = {text})
  BY <1>1, SyncDocTells
<1>4. ServerInv' /\ (Initialised' <=> Initialised)
  BY <1>1, <1>3, ServerKept DEF AnswerInv
<1>5. /\ asks \in SUBSET Requests /\ slot \in SUBSET Requests
      /\ \A ans \in slot : ans.kind # "save"
  BY DEF AnswerInv, AnswerTypes
<1>6. /\ asks' \in SUBSET Requests /\ slot' \in SUBSET Requests
      /\ \A a \in asks' : a \in asks \/ Forgotten(a) \/ JustAsked(a)
      /\ \A a \in asks' : a.kind = "lens" =>
             a \in asks \/ Forgotten(a) \/ (a.tab = tab /\ memo' # {})
      /\ \A a \in asks' : a.kind # "lens" => a \in asks \/ Forgotten(a)
      /\ \A a \in slot' : (a \in slot \/ Forgotten(a)) /\ a.kind # "save"
      /\ memo' = memo \/ memo' # {}
      /\ ~open => UNCHANGED memo
  <2>1. CASE SyncDoc /\ Ask("lens") /\ slot' = Superseded("lens", slot) /\ memo' = {version} /\ open
    <3>1. /\ asks' \in SUBSET Requests
          /\ \A a \in asks' : a \in asks \/ Forgotten(a) \/ JustAsked(a)
          /\ \A a \in asks' : a.kind = "lens" => Forgotten(a) \/ a.tab = tab
          /\ \A a \in asks' : a.kind # "lens" => a \in asks \/ Forgotten(a)
      BY <1>1, <1>2, <2>1, AskFollows
    <3>2. \A a \in slot' : a \in Requests /\ (a \in slot \/ Forgotten(a)) /\ a.kind # "save"
      BY <1>5, <2>1, SupersededFrom
    <3>3. memo' # {}
      BY <2>1
    <3> QED BY <2>1, <3>1, <3>2, <3>3
  <2>2. CASE UNCHANGED <<asks, slot, memo>>
    BY <1>5, <2>2
  <2> QED BY <1>1, <2>1, <2>2
<1>7. AnswerTypes'
  BY <1>1, <1>6 DEF AnswerInv, AnswerTypes
<1>8. AsksFit' /\ SlotsFit'
  BY <1>1, <1>2, <1>3, <1>4, <1>6, <1>7, AnswersFollow DEF SameFile
<1>9. OfTheirTab'
  <2>1. ~open' => memo' = {} /\ lenses' = {}
    BY <1>1, <1>6 DEF AnswerInv, OfTheirTab
  <2> QED BY <1>1, <1>6, <2>1, TabsFollow DEF Forgotten
<1>10. LensesFit'
  BY <1>1, <1>2, LensesFollow
<1> QED BY <1>2, <1>4, <1>7, <1>8, <1>9, <1>10 DEF AnswerInv

LEMMA DrawKeepsAnswers ==
  ASSUME AnswerInv, Draw PROVE AnswerInv'
<1> USE DEF docVars, srvVars, saveVars, syncVars
<1>1. /\ UNCHANGED <<open, tab, text, version, reloads, disk, conn, up, starting, sync, holds,
                     memo, saveSlot, write>>
      /\ \/ /\ lenses' = {}
            /\ asks' = Superseded("lens", asks) /\ slot' = Superseded("lens", slot)
         \/ /\ ~open \/ \A l \in lenses : l.version = version
            /\ UNCHANGED <<lenses, asks, slot>>
  BY DEF Draw
<1>2. SameFile /\ FileTypes'
  BY <1>1 DEF SameFile, AnswerInv, FileTypes
<1>3. /\ asks \in SUBSET Requests /\ slot \in SUBSET Requests
      /\ \A ans \in slot : ans.kind # "save"
  BY DEF AnswerInv, AnswerTypes
<1>4. \A a \in asks' : a \in Requests /\ (a \in asks \/ Forgotten(a))
  BY <1>1, <1>3, SupersededFrom
<1>5. \A a \in slot' : a \in Requests /\ (a \in slot \/ Forgotten(a)) /\ a.kind # "save"
  BY <1>1, <1>3, SupersededFrom
<1>6. AnswerTypes'
  BY <1>1, <1>4, <1>5 DEF AnswerInv, AnswerTypes
<1>7. ServerInv' /\ (Initialised' <=> Initialised)
  BY <1>1, ServerKept DEF AnswerInv
<1>8. AsksFit' /\ SlotsFit'
  BY <1>1, <1>2, <1>4, <1>5, <1>6, <1>7, AnswersFollow
<1>9. OfTheirTab'
  <2>1. ~open' => memo' = {} /\ lenses' = {}
    BY <1>1 DEF AnswerInv, OfTheirTab
  <2> QED BY <1>1, <1>4, <1>5, <2>1, TabsFollow DEF Forgotten
<1>10. LensesFit'
  <2>1. lenses' = {} \/ \A l \in lenses' : l.version = version'
    BY <1>1 DEF AnswerInv, OfTheirTab
  <2> QED BY <1>1, <1>2, <2>1, LensesFollow
<1> QED BY <1>2, <1>6, <1>7, <1>8, <1>9, <1>10 DEF AnswerInv

\* The server starts, is told to be ready, fails or goes; its copy is empty until it
\* is initialised and told.
LEMMA ServerKeepsAnswers ==
  ASSUME AnswerInv, Starter \/ HandshakeFails \/ Crash \/ Rested PROVE AnswerInv'
<1> USE DEF docVars, askVars, saveVars, syncVars
<1>1. UNCHANGED <<open, tab, text, version, reloads, disk, asks, slot, memo, lenses, saveSlot,
                  write, thread>>
  BY DEF Starter, Launch, Handshake, HandshakeFails, Crash, Rested, SrvOnly
<1>2. FileTypes' /\ AnswerTypes' /\ SameFile
  BY <1>1 DEF AnswerInv, FileTypes, AnswerTypes, SameFile
<1>3. /\ conn \in Nat /\ sync \in Nat /\ sync <= conn /\ up \in BOOLEAN /\ holds \in SUBSET Texts
      /\ starting = "handshake" => sync # conn
      /\ ~Initialised => holds = {}
  BY DEF AnswerInv, ServerInv
<1>4. ServerInv' /\ (holds' = {} \/ (UNCHANGED <<holds, conn>> /\ (Initialised' => Initialised)))
  <2>1. CASE Launch
    BY <1>3, <2>1 DEF Launch, ServerInv, Initialised
  <2>2. CASE Handshake
    <3>1. /\ starting = "handshake" /\ starting' = "no" /\ sync' = conn
          /\ UNCHANGED <<conn, up, holds>>
      BY <2>2 DEF Handshake
    <3>2. ~Initialised
      BY <1>3, <3>1 DEF Initialised
    <3> QED BY <1>3, <3>1, <3>2 DEF ServerInv, Initialised
  <2>3. CASE HandshakeFails
    BY <1>3, <2>3 DEF HandshakeFails, ServerInv, Initialised
  <2>4. CASE Crash
    BY <1>3, <2>4 DEF Crash, ServerInv, Initialised
  <2>5. CASE Rested
    BY <1>3, <2>5 DEF Rested, ServerInv, Initialised
  <2> QED BY <2>1, <2>2, <2>3, <2>4, <2>5 DEF Starter
<1>5. AsksFit' /\ SlotsFit'
  BY <1>1, <1>2, <1>4, AnswersFollow
<1>6. OfTheirTab'
  BY <1>1, TabsFollow DEF AnswerInv, OfTheirTab
<1>7. LensesFit'
  BY <1>1, <1>2, LensesFollow
<1> QED BY <1>2, <1>4, <1>5, <1>6, <1>7 DEF AnswerInv

\* A request further on its way, or its answer.
Onward(a, b) ==
    /\ b \in Requests /\ b.at # "spawned"
    /\ b.kind = a.kind /\ b.fresh = a.fresh
    /\ b.version = a.version /\ b.tab = a.tab /\ b.reloads = a.reloads

LEMMA GoroutineFollows ==
  ASSUME AnswerInv, Goroutine, NEW a \in asks,
         \A b \in asks' : b \in asks \/ (Onward(a, b)
                                         /\ (b.at = "asked" /\ Fits(a) => b.on \subseteq {text})),
         \A b \in slot' : b \in slot \/ (Onward(a, b) /\ a.kind # "save"
                                         /\ (Fits(a) => b.on \subseteq {text})),
         \A b \in saveSlot' : b \in saveSlot \/ (Onward(a, b) /\ a.kind = "save"
                                                 /\ (Fits(a) => b.on \subseteq {text}))
  PROVE  AnswerInv'
<1>1. UNCHANGED <<open, tab, text, version, reloads, disk, conn, up, starting, sync, holds, memo,
                  lenses, write, thread>>
  BY DEF Goroutine, docVars, srvVars, syncVars
<1>2. FileTypes' /\ ServerInv' /\ SameFile
  BY <1>1 DEF AnswerInv, FileTypes, ServerInv, SameFile, Initialised
<1>3. AnswerTypes'
  BY DEF AnswerInv, AnswerTypes, Onward
<1>4. AsksFit'
  <2>1. NotAhead(a) /\ (Fits(a) /\ a.at = "asked" => a.on \subseteq {text})
    BY DEF AnswerInv, AsksFit
  <2>2. ASSUME NEW b \in asks'
        PROVE  /\ NotAhead(b)'
               /\ Fits(b)' /\ b.at = "spawned" /\ b.conn = conn' /\ Initialised' => holds' \subseteq {text'}
               /\ Fits(b)' /\ b.at = "asked" => b.on \subseteq {text'}
    <3>1. CASE b \in asks
      BY <1>1, <3>1 DEF AnswerInv, AsksFit, NotAhead, Fits, Initialised
    <3>2. CASE Onward(a, b) /\ (b.at = "asked" /\ Fits(a) => b.on \subseteq {text})
      BY <1>1, <2>1, <3>2 DEF Onward, NotAhead, Fits
    <3> QED BY <3>1, <3>2
  <2> QED BY <2>2 DEF AsksFit
<1>5. SlotsFit'
  <2>1. NotAhead(a)
    BY DEF AnswerInv, AsksFit
  <2>2. ASSUME NEW b \in slot' \cup saveSlot' PROVE NotAhead(b)' /\ (Fits(b)' => b.on \subseteq {text'})
    <3>1. CASE b \in slot \cup saveSlot
      BY <1>1, <3>1 DEF AnswerInv, SlotsFit, NotAhead, Fits
    <3>2. CASE Onward(a, b) /\ (Fits(a) => b.on \subseteq {text})
      BY <1>1, <2>1, <3>2 DEF Onward, NotAhead, Fits
    <3> QED BY <3>1, <3>2
  <2> QED BY <2>2 DEF SlotsFit
<1>6. OfTheirTab'
  <2>1. /\ ~open => memo = {} /\ lenses = {}
        /\ \A b \in asks \cup slot : b.kind = "lens" /\ b.fresh => memo # {} /\ b.tab = tab
        /\ \A b \in asks \cup saveSlot, w \in write : b.kind = "save" /\ b.fresh => b.tab = w.tab
    BY DEF AnswerInv, OfTheirTab
  <2>2. \A b \in asks' \cup slot' : b.kind = "lens" /\ b.fresh => memo # {} /\ b.tab = tab
    BY <2>1 DEF Onward
  <2>3. \A b \in asks' \cup saveSlot', w \in write : b.kind = "save" /\ b.fresh => b.tab = w.tab
    BY <2>1 DEF Onward
  <2> QED BY <1>1, <2>1, <2>2, <2>3 DEF OfTheirTab
<1>7. LensesFit'
  BY <1>1 DEF AnswerInv, LensesFit
<1> QED BY <1>2, <1>3, <1>4, <1>5, <1>6, <1>7 DEF AnswerInv

LEMMA Moves ==
  ASSUME NEW a \in Requests, NEW at \in {"asked", "parked"}, NEW on \in SUBSET Texts
  PROVE  LET b == [a EXCEPT !.at = at, !.on = on]
             c == [a EXCEPT !.at = at, !.conn = 0, !.on = on]
         IN  /\ Onward(a, b) /\ b.at = at /\ b.on = on
             /\ Onward(a, c) /\ c.at = at /\ c.on = on
<1>1. a \in Requests /\ on \in SUBSET Texts /\ at # "spawned" /\ at \in {"spawned", "asked", "parked"}
  OBVIOUS
<1>2. [a EXCEPT !.at = at, !.on = on] \in Requests /\ [a EXCEPT !.at = at, !.conn = 0, !.on = on] \in Requests
  BY <1>1 DEF Requests
<1> QED BY <1>1, <1>2 DEF Requests, Onward

\* The request reaches the server after the text it was asked of did.
LEMMA ReachKeepsAnswers ==
  ASSUME AnswerInv, NEW a \in asks, Reach(a) PROVE AnswerInv'
<1> DEFINE on == IF a.conn = conn /\ Initialised THEN holds ELSE {}
           b == [a EXCEPT !.at = "asked", !.conn = 0, !.on = on]
<1>1. /\ Goroutine /\ UNCHANGED <<slot, saveSlot>> /\ a.at = "spawned"
      /\ asks' = (asks \ {a}) \cup {b}
  BY DEF Reach
<1>2. a \in Requests /\ on \in SUBSET Texts /\ (Fits(a) => on \subseteq {text})
  BY <1>1 DEF AnswerInv, AnswerTypes, ServerInv, AsksFit
<1> HIDE DEF on
<1>3. Onward(a, b) /\ b.at = "asked" /\ b.on = on
  BY <1>2, Moves
<1> HIDE DEF b
<1> QED BY <1>1, <1>2, <1>3, GoroutineFollows

\* What comes back is about what the request was answered about, or nothing.
LEMMA ReturnKeepsAnswers ==
  ASSUME AnswerInv, NEW a \in asks, Return(a) PROVE AnswerInv'
<1>1. PICK on \in {a.on, {}} : Returns(a, [a EXCEPT !.at = "parked", !.on = on])
  BY DEF Return
<1> DEFINE b == [a EXCEPT !.at = "parked", !.on = on]
           c == [a EXCEPT !.at = "parked"]
<1>2. Goroutine /\ a.at = "asked"
  BY DEF Return
<1>3. a \in Requests /\ on \in SUBSET Texts /\ (Fits(a) => on \subseteq {text})
  BY <1>2 DEF AnswerInv, AnswerTypes, AsksFit, Requests
<1>4. Onward(a, b) /\ b.on = on
  BY <1>3, Moves
<1>5. Onward(a, c) /\ c.at = "parked"
  BY <1>3 DEF Requests, Onward
<1>6. /\ \A x \in asks' : x \in asks \/ x = c
      /\ slot' = slot \/ (slot' = {b} /\ a.kind # "save")
      /\ saveSlot' = saveSlot \/ (saveSlot' = {b} /\ a.kind = "save")
  BY <1>1 DEF Returns, ParkAnswer
<1> HIDE DEF b, c
<1> QED BY <1>2, <1>3, <1>4, <1>5, <1>6, GoroutineFollows

LEMMA WaitingKeepsAnswers ==
  ASSUME AnswerInv, NEW kind, Waiting(kind) PROVE AnswerInv'
<1>1. PICK a \in asks : Reach(a) \/ Return(a) \/ PostWake(a)
  BY DEF Waiting
<1>2. CASE PostWake(a)
  <2>1. Goroutine /\ asks' = asks \ {a} /\ UNCHANGED <<slot, saveSlot>>
    BY <1>2 DEF PostWake
  <2> QED BY <2>1, GoroutineFollows
<1> QED BY <1>1, <1>2, ReachKeepsAnswers, ReturnKeepsAnswers

LEMMA AnswerInvInit == ASSUME Init PROVE AnswerInv
<1>1. /\ text \in Texts /\ disk \in Texts /\ open = TRUE /\ tab = 0 /\ version = 0 /\ reloads = 0
      /\ conn = 0 /\ up = FALSE /\ starting = "no" /\ sync = 0 /\ holds = {}
      /\ asks = {} /\ slot = {} /\ saveSlot = {} /\ lenses = {} /\ memo = {}
  BY TextsAssumption DEF Init
<1>2. FileTypes /\ AnswerTypes
  BY <1>1 DEF FileTypes, AnswerTypes
<1>3. ServerInv /\ AsksFit
  <2>1. up \in BOOLEAN
    BY <1>1
  <2> QED BY <1>1, <2>1 DEF ServerInv, AsksFit
<1>4. SlotsFit /\ OfTheirTab /\ LensesFit
  BY <1>1 DEF SlotsFit, OfTheirTab, LensesFit
<1> QED BY <1>2, <1>3, <1>4 DEF AnswerInv

LEMMA AnswerInvStep == ASSUME AnswerInv, [Next]_vars PROVE AnswerInv'
<1>1. CASE User
  BY <1>1, EditsKeepAnswers, CloseTabKeepsAnswers, ReopenKeepsAnswers, FormatKeepsAnswers,
     SaveKeepsAnswers, AnswerKeepsAnswers DEF User
<1>2. CASE EventThread
  BY <1>2, AnswersKeepAnswers, SyncDirtyDocsKeepsAnswers, RequestLensesKeepsAnswers,
     DrawKeepsAnswers DEF EventThread
<1>3. CASE UNCHANGED vars
  <2>1. disk' \in Texts
    BY <1>3 DEF AnswerInv, FileTypes, vars, docVars
  <2> QED BY <1>3, <2>1, QuietFollows DEF vars, docVars, srvVars, syncVars, askVars, saveVars
<1> QED BY <1>1, <1>2, <1>3, EditsKeepAnswers, WakeKeepsAnswers, TickKeepsAnswers,
           ServerKeepsAnswers, WaitingKeepsAnswers DEF Next

\* An answer is installed, and lenses are shown, over the text they are about and no
\* other (App.applyLenses, applyFormat, resumeSave).
THEOREM AnswersFitTheText == Spec => []AnswersFit
<1>1. ASSUME AnswerInv PROVE AnswersFit
  <2>1. ASSUME NEW ans \in slot, Accepts(ans), ans.reloads = reloads,
               ans.kind = "format" => ans.tab = tab
        PROVE  ans.on \subseteq {text}
    <3>1. ans.fresh /\ ans.version = version /\ ans.kind \in {"lens", "format"}
      BY <1>1, <2>1 DEF Accepts, AnswerInv, AnswerTypes, Requests
    <3>2. ans.tab = tab
      BY <1>1, <2>1, <3>1 DEF AnswerInv, OfTheirTab
    <3> QED BY <1>1, <2>1, <3>1, <3>2 DEF AnswerInv, SlotsFit, Fits
  <2>2. ASSUME NEW w \in write, NEW ans \in saveSlot, ans.fresh, w.tab = tab,
               ans.version = version, ans.reloads = reloads
        PROVE  ans.on \subseteq {text}
    <3>1. ans.tab = w.tab
      BY <1>1, <2>2 DEF AnswerInv, AnswerTypes, OfTheirTab
    <3> QED BY <1>1, <2>2, <3>1 DEF AnswerInv, SlotsFit, Fits
  <2>3. thread = "idle" => \A l \in lenses : l.reloads = reloads => l.on \subseteq {text}
    BY <1>1 DEF AnswerInv, LensesFit
  <2> QED BY <2>1, <2>2, <2>3 DEF AnswersFit
<1> QED BY <1>1, AnswerInvInit, AnswerInvStep, PTL DEF Spec
=============================================================================
