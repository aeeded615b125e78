-------------------------- MODULE WebServer_proofs --------------------------
(***************************************************************************)
(* The web config server: what a request is answered while the plan and the  *)
(* files change under it (WebConfig), for any levels and titles, any number   *)
(* of saves and any time; and a layout that comes out of _resolve as it lies  *)
(* (RocrailLayout), whatever its size and the order of the plan's lists.      *)
(*                                                                          *)
(* The argument for a request: what it has read is a plan that was there      *)
(* since it began, dated by the file's time; nothing else outlives a step.    *)
(*                                                                          *)
(* The argument for a layout: a piece accepts exactly the sides it really     *)
(* connects on.  Such a side has a neighbour, which accepts everything while  *)
(* it has no ports and connects back once it has; on any other side lies a    *)
(* piece whose direction is known before the turn of this one, and does not   *)
(* connect.  For a switch that takes the order of the two loops: switches     *)
(* start when the last curve and buffer have their ports.                    *)
(***************************************************************************)
EXTENDS WebConfig, RocrailLayout, TLAPS

-----------------------------------------------------------------------------
(* A request: WebConfig.                                                    *)
(* The modification time is that of the last write, and a complete plan       *)
(* carries it.                                                              *)
PlanDated ==
    /\ now \in Nat /\ mtime \in Nat /\ mtime <= now
    /\ IsComplete(plan) => plan.saved = mtime

PlanWatched ==
    /\ Running /\ IsComplete(plan) => plan \in whole
    /\ ~Running => ~disturbed

\* What a request holds after its first read, and after its second.
TextRead ==
    pc \in {"mtime", "build"} =>
        /\ ~disturbed => plan = text
        /\ IsComplete(text) => text \in whole /\ text.saved \in Nat /\ text.saved <= mtime

SessionRead ==
    pc = "build" =>
        /\ session_id \in Nat
        /\ IsComplete(text) => text.saved <= session_id
        /\ ~disturbed => session_id = mtime

\* Which way a request went, for a real file that is there throughout or never.
FileSeen ==
    /\ was_real = "yes" => real
    /\ was_real = "no"  => ~real
    /\ pc \in {"read", "mtime", "build", "default"} => was_real # "yes"
    /\ pc = "file" /\ HasDefault(path) /\ was_real # "at times" => real

\* A page request gives up on a plan only when the plan has no such page.
PageMissing ==
    pc \in {"default", "file"} /\ path.kind = "page" /\ ~disturbed /\ was_real = "no"
        /\ IsComplete(plan)
      => Matches(Pages(plan), path.name) = {}

Answered ==
    /\ AnswerWasCurrent /\ SessionTells /\ StationRecognised /\ RealFileWins
    /\ ListedPageFound

WebInv ==
    /\ PlanDated /\ PlanWatched
    /\ TextRead /\ SessionRead /\ FileSeen /\ PageMissing
    /\ Answered

LEMMA Kinds ==
    /\ Absent.kind = "absent" /\ Partial.kind = "partial"
    /\ ~IsComplete(Absent) /\ ~IsComplete(Partial)
    /\ \A v, t, d : IsComplete(Complete(v, t, d)) /\ Complete(v, t, d).saved = t
    /\ Real.kind = "file" /\ Default.kind = "default" /\ NotFound.kind = "404"
    /\ Real # NotFound /\ Default # NotFound
    /\ \A p, s, n, k : /\ FromPlan(p, s, n, k).kind = "plan"
                       /\ FromPlan(p, s, n, k).plan = p
                       /\ FromPlan(p, s, n, k).session = s
                       /\ FromPlan(p, s, n, k) # NotFound
BY DEF Absent, Partial, IsComplete, Complete, Real, Default, NotFound, FromPlan

LEMMA WebInit == RequestsInit => WebInv
<1> SUFFICES ASSUME RequestsInit PROVE WebInv
    OBVIOUS
<1>1. PlanDated
    <2>1. IsComplete(plan) => plan.saved = 0
        BY Kinds DEF RequestsInit
    <2> QED BY <2>1 DEF RequestsInit, PlanDated
<1>2. PlanWatched /\ TextRead /\ SessionRead /\ FileSeen /\ PageMissing
    BY DEF RequestsInit, PlanWatched, Running, TextRead, SessionRead, FileSeen, PageMissing
<1>3. Answered
    BY DEF RequestsInit, Answered, AnswerWasCurrent, SessionTells, StationRecognised, RealFileWins,
           ListedPageFound, Generates
<1> QED BY <1>1, <1>2, <1>3 DEF WebInv

-----------------------------------------------------------------------------
(* The world.                                                               *)

\* A plan that changes under a request spoils nothing that it was told.
LEMMA PlanChangeKeeps ==
    ASSUME WebInv, NEW p, PlanBecomes(p), PlanDated',
           mtime <= mtime', UNCHANGED <<request, was_real>>
    PROVE  WebInv'
<1> USE DEF request
<1>1. /\ plan' = p
      /\ whole \subseteq whole'
      /\ Running' = Running /\ disturbed' = Running
      /\ Running /\ IsComplete(p) => p \in whole'
    BY DEF PlanBecomes, Running
<1>2. PlanWatched'
    BY <1>1 DEF PlanWatched
<1>3. pc # "idle" => disturbed'
    BY <1>1, Zenon DEF Running
<1>4. TextRead' /\ SessionRead'
    <2>1. pc \in {"mtime", "build"} => disturbed'
        BY <1>3
    <2> QED BY <1>1, <2>1 DEF WebInv, PlanDated, TextRead, SessionRead
<1>5. FileSeen' /\ PageMissing'
    BY <1>1, <1>3 DEF WebInv, FileSeen, PageMissing
<1>6. pc = "answered" => disturbed'
    BY <1>3
<1>7. Answered'
    BY <1>1, <1>6 DEF WebInv, Answered, AnswerWasCurrent, SessionTells, StationRecognised,
                      RealFileWins, ListedPageFound, Generates
<1> QED BY <1>2, <1>4, <1>5, <1>7 DEF WebInv

LEMMA WorldKeeps == WebInv /\ World => WebInv'
<1> SUFFICES ASSUME WebInv, World PROVE WebInv'
    OBVIOUS
<1>1. CASE SaveBegins
    <2>1. PlanBecomes(Partial) /\ mtime < now /\ mtime' = now /\ now' = now
          /\ UNCHANGED <<request, was_real>>
        BY <1>1 DEF SaveBegins, WebInv, PlanDated
    <2>2. PlanDated' /\ mtime <= mtime'
        BY <2>1, Kinds DEF WebInv, PlanDated, PlanBecomes
    <2> QED BY <2>1, <2>2, PlanChangeKeeps
<1>2. CASE SaveEnds
    <2>1. PICK d \in Diagrams : PlanBecomes(Complete(saves + 1, now, d))
        BY <1>2 DEF SaveEnds
    <2>2. mtime' = now /\ now' = now /\ UNCHANGED <<request, was_real>>
        BY <1>2 DEF SaveEnds
    <2>3. PlanDated' /\ mtime <= mtime'
        BY <2>1, <2>2, Kinds DEF WebInv, PlanDated, PlanBecomes
    <2> QED BY <2>1, <2>2, <2>3, PlanChangeKeeps
<1>3. CASE PlanRemoved
    <2>1. PlanBecomes(Absent) /\ UNCHANGED <<now, mtime, request, was_real>>
        BY <1>3 DEF PlanRemoved
    <2>2. PlanDated' /\ mtime <= mtime'
        BY <2>1, Kinds DEF WebInv, PlanDated, PlanBecomes
    <2> QED BY <2>1, <2>2, PlanChangeKeeps
<1>4. CASE FileChanges
    <2>1. /\ was_real' = "at times"
          /\ UNCHANGED <<now, plan, mtime, pc, path, text, session_id, answer, whole, disturbed>>
        BY <1>4 DEF FileChanges, world
    <2>2. PlanDated' /\ PlanWatched' /\ TextRead' /\ SessionRead'
        BY <2>1 DEF WebInv, PlanDated, PlanWatched, Running, TextRead, SessionRead
    <2>3. FileSeen' /\ PageMissing'
        BY <2>1 DEF FileSeen, PageMissing
    <2>4. Answered'
        BY <2>1 DEF WebInv, Answered, AnswerWasCurrent, SessionTells, StationRecognised,
                    RealFileWins, ListedPageFound, Generates
    <2> QED BY <2>2, <2>3, <2>4 DEF WebInv
<1>5. CASE Tick
    <2>1. now' = now + 1 /\ UNCHANGED <<plan, mtime, request, history>>
        BY <1>5 DEF Tick
    <2>2. PlanDated'
        BY <2>1 DEF WebInv, PlanDated
    <2>3. PlanWatched' /\ TextRead' /\ SessionRead' /\ FileSeen' /\ PageMissing'
        BY <2>1 DEF WebInv, PlanWatched, Running, TextRead, SessionRead, FileSeen, PageMissing,
                    request, history
    <2>4. Answered'
        BY <2>1 DEF WebInv, Answered, AnswerWasCurrent, SessionTells, StationRecognised,
                    RealFileWins, ListedPageFound, Generates, request, history
    <2> QED BY <2>2, <2>3, <2>4 DEF WebInv
<1> QED BY <1>1, <1>2, <1>3, <1>4, <1>5 DEF World

-----------------------------------------------------------------------------
(* The request.                                                             *)

\* Steps of the handler leave the world and what is known of it alone.
LEMMA WorldStands ==
    ASSUME WebInv, UNCHANGED <<world, whole, disturbed>>, Running, Running'
    PROVE  PlanDated' /\ PlanWatched'
BY DEF WebInv, PlanDated, PlanWatched, world

\* Nothing is said of an answer before there is one.
LEMMA NoAnswerYet ==
    pc' # "answered" => Answered'
BY DEF Answered, AnswerWasCurrent, SessionTells, StationRecognised, RealFileWins,
       ListedPageFound, Generates

LEMMA RequestKeeps ==
    ASSUME WebInv, NEW p \in Paths, Request(p)
    PROVE  WebInv'
<1> USE DEF Request
<1>1. PlanDated'
    BY DEF WebInv, PlanDated, world
<1>2. PlanWatched'
    BY DEF WebInv, PlanWatched, Running, world
<1>3. TextRead' /\ SessionRead' /\ PageMissing'
    BY DEF TextRead, SessionRead, PageMissing
<1>4. FileSeen'
    BY DEF FileSeen
<1> QED BY <1>1, <1>2, <1>3, <1>4, NoAnswerYet DEF WebInv

LEMMA ReadingKeeps ==
    WebInv /\ (FileExists \/ ReadPlan \/ GetMtime \/ PlanUnreadable \/ ParseFails) => WebInv'
<1> SUFFICES ASSUME WebInv, FileExists \/ ReadPlan \/ GetMtime \/ PlanUnreadable \/ ParseFails
             PROVE  WebInv'
    OBVIOUS
<1> USE DEF world, history
<1>1. CASE FileExists
    <2>1. /\ pc = "exists" /\ UNCHANGED <<world, path, real, text, session_id, answer, history>>
          /\ \/ pc' = "file" /\ real
             \/ pc' = "read" /\ ~real
             \/ pc' = "default" /\ ~real /\ ~Generated(path)
        <3>1. CASE real
            BY <1>1, <3>1 DEF FileExists, Goes
        <3>2. CASE ~real /\ Generated(path)
            BY <1>1, <3>2 DEF FileExists, Goes
        <3>3. CASE ~real /\ ~Generated(path)
            BY <1>1, <3>3 DEF FileExists, Goes
        <3> QED BY <3>1, <3>2, <3>3
    <2>2. PlanDated' /\ PlanWatched'
        BY <2>1, WorldStands DEF Running
    <2>3. TextRead' /\ SessionRead' /\ FileSeen'
        BY <2>1 DEF WebInv, TextRead, SessionRead, FileSeen
    <2>4. PageMissing'
        BY <2>1 DEF WebInv, FileSeen, PageMissing, Generated
    <2> QED BY <2>1, <2>2, <2>3, <2>4, NoAnswerYet DEF WebInv
<1>2. CASE ReadPlan
    <2>1. /\ pc = "read" /\ pc' = "mtime" /\ text' = plan
          /\ UNCHANGED <<world, path, real, session_id, answer, history>>
        BY <1>2 DEF ReadPlan
    <2>2. PlanDated' /\ PlanWatched'
        BY <2>1, WorldStands DEF Running
    <2>3. TextRead'
        BY <2>1 DEF WebInv, PlanDated, PlanWatched, Running, TextRead
    <2>4. SessionRead' /\ FileSeen' /\ PageMissing'
        BY <2>1 DEF WebInv, SessionRead, FileSeen, PageMissing
    <2> QED BY <2>1, <2>2, <2>3, <2>4, NoAnswerYet DEF WebInv
<1>3. CASE GetMtime
    <2>1. /\ pc = "mtime" /\ pc' = "build" /\ session_id' = mtime
          /\ UNCHANGED <<world, path, real, text, answer, history>>
        BY <1>3 DEF GetMtime
    <2>2. PlanDated' /\ PlanWatched'
        BY <2>1, WorldStands DEF Running
    <2>3. TextRead' /\ SessionRead'
        BY <2>1 DEF WebInv, PlanDated, TextRead, SessionRead
    <2>4. FileSeen' /\ PageMissing'
        BY <2>1 DEF WebInv, FileSeen, PageMissing
    <2> QED BY <2>1, <2>2, <2>3, <2>4, NoAnswerYet DEF WebInv
<1>4. CASE PlanUnreadable \/ ParseFails
    <2>1. /\ pc \in {"read", "mtime", "build"} /\ pc' = "default"
          /\ UNCHANGED <<world, path, real, text, session_id, answer, history>>
          /\ plan = Absent \/ (pc = "build" /\ ~IsComplete(text))
        BY <1>4 DEF PlanUnreadable, ParseFails, Goes
    <2>2. PlanDated' /\ PlanWatched'
        BY <2>1, WorldStands DEF Running
    <2>3. ~disturbed => ~IsComplete(plan)
        BY <2>1, Kinds DEF WebInv, TextRead
    <2>4. TextRead' /\ SessionRead' /\ FileSeen' /\ PageMissing'
        BY <2>1, <2>3 DEF WebInv, TextRead, SessionRead, FileSeen, PageMissing
    <2> QED BY <2>1, <2>2, <2>4, NoAnswerYet DEF WebInv
<1> QED BY <1>1, <1>2, <1>3, <1>4

\* An answer made of the text that was read, of a request that is no page's.
LEMMA ListMade ==
    ASSUME WebInv, pc = "build", IsComplete(text), path.kind # "page",
           Answers(FromPlan(text, session_id, NoPage, 0))
               \/ (path # CS2List /\ Answers(FromPlan(text, 0, NoPage, 0)))
    PROVE  WebInv'
<1>1. /\ pc' = "answered" /\ UNCHANGED <<world, path, real, text, session_id, history>>
      /\ answer'.kind = "plan" /\ answer'.plan = text /\ answer' # NotFound
      /\ path = CS2List => answer'.session = session_id
    BY Kinds DEF Answers
<1> USE DEF world, history
<1>2. PlanDated' /\ PlanWatched'
    BY <1>1, WorldStands DEF Running
<1>3. TextRead' /\ SessionRead' /\ FileSeen' /\ PageMissing'
    BY <1>1 DEF WebInv, TextRead, SessionRead, FileSeen, PageMissing
<1>4. text \in whole /\ text.saved <= session_id /\ was_real # "yes"
      /\ (~disturbed => plan = text /\ session_id = mtime)
    BY DEF WebInv, TextRead, SessionRead, FileSeen
<1>5. ~disturbed => session_id = text.saved
    BY <1>4 DEF WebInv, PlanDated
<1>6. AnswerWasCurrent' /\ StationRecognised' /\ RealFileWins' /\ ListedPageFound'
    BY <1>1, <1>4 DEF AnswerWasCurrent, StationRecognised, RealFileWins, ListedPageFound
<1>7. SessionTells'
    BY <1>1, <1>4, <1>5 DEF SessionTells, WebInv, TextRead, SessionRead
<1> QED BY <1>2, <1>3, <1>6, <1>7 DEF WebInv, Answered

LEMMA BuildingKeeps == WebInv /\ (BuildList \/ BuildMaster \/ BuildPage) => WebInv'
<1> SUFFICES ASSUME WebInv, BuildList \/ BuildMaster \/ BuildPage PROVE WebInv'
    OBVIOUS
<1>1. pc = "build" /\ IsComplete(text)
    BY DEF BuildList, BuildMaster, BuildPage
<1>2. CS2List.kind # "page" /\ JsonList.kind # "page" /\ Master.kind # "page"
      /\ JsonList # CS2List /\ Master # CS2List
    BY DEF CS2List, JsonList, Master
<1>3. CASE BuildList
    BY <1>1, <1>2, <1>3, ListMade DEF BuildList
<1> DEFINE GivesUp == Goes("default") /\ (path.kind = "page" => Matches(Pages(text), path.name) = {})
<1>4. ASSUME GivesUp PROVE WebInv'
    <2>1. /\ pc' = "default"
          /\ UNCHANGED <<world, path, real, text, session_id, answer, history>>
        BY <1>4 DEF Goes
    <2> USE DEF world, history
    <2>2. PlanDated' /\ PlanWatched'
        BY <1>1, <2>1, WorldStands DEF Running
    <2>3. ~disturbed => plan = text
        BY <1>1 DEF WebInv, TextRead
    <2>4. TextRead' /\ SessionRead' /\ FileSeen'
        BY <1>1, <2>1 DEF WebInv, TextRead, SessionRead, FileSeen
    <2>5. PageMissing'
        BY <1>4, <2>1, <2>3 DEF PageMissing
    <2> QED BY <2>1, <2>2, <2>4, <2>5, NoAnswerYet DEF WebInv
<1>5. CASE BuildMaster
    BY <1>1, <1>2, <1>4, <1>5, ListMade DEF BuildMaster
<1>6. CASE BuildPage
    <2> DEFINE found == Matches(Pages(text), path.name)
    <2>1. path.kind = "page"
        BY <1>6 DEF BuildPage
    <2>2. CASE found = {}
        BY <1>4, <1>6, <2>2 DEF BuildPage
    <2>3. CASE found # {}
        <3>1. /\ pc' = "answered" /\ UNCHANGED <<world, path, real, text, session_id, history>>
              /\ answer' = FromPlan(text, 0, path.name, Min(found))
            BY <1>6, <2>3 DEF BuildPage, Answers
        <3> USE DEF world, history
        <3>2. PlanDated' /\ PlanWatched'
            BY <1>1, <3>1, WorldStands DEF Running
        <3>3. TextRead' /\ SessionRead' /\ FileSeen' /\ PageMissing'
            BY <1>1, <3>1 DEF WebInv, TextRead, SessionRead, FileSeen, PageMissing
        <3>4. text \in whole /\ was_real # "yes" /\ (~disturbed => plan = text)
            BY <1>1 DEF WebInv, TextRead, FileSeen
        <3>5. answer'.plan = text /\ answer' # NotFound
            BY <3>1, Kinds
        <3>6. path # CS2List
            BY <1>2, <2>1
        <3>7. AnswerWasCurrent' /\ SessionTells' /\ StationRecognised' /\ RealFileWins'
            BY <3>1, <3>4, <3>5, <3>6
               DEF AnswerWasCurrent, SessionTells, StationRecognised, RealFileWins
        <3>8. ListedPageFound'
            BY <2>3, <3>1, <3>4 DEF ListedPageFound, Matches
        <3> QED BY <3>2, <3>3, <3>7, <3>8 DEF WebInv, Answered
    <2> QED BY <2>2, <2>3
<1> QED BY <1>3, <1>5, <1>6

LEMMA ServingKeeps == WebInv /\ (Fallback \/ ServeFile) => WebInv'
<1> SUFFICES ASSUME WebInv, Fallback \/ ServeFile PROVE WebInv'
    OBVIOUS
<1> USE DEF world, history
<1>1. CASE Fallback /\ ~HasDefault(path)
    <2>1. /\ pc = "default" /\ pc' = "file"
          /\ UNCHANGED <<world, path, real, text, session_id, answer, history>>
        BY <1>1 DEF Fallback, Goes
    <2>2. PlanDated' /\ PlanWatched'
        BY <2>1, WorldStands DEF Running
    <2>3. TextRead' /\ SessionRead' /\ FileSeen' /\ PageMissing'
        BY <1>1, <2>1 DEF WebInv, TextRead, SessionRead, FileSeen, PageMissing, HasDefault
    <2> QED BY <2>1, <2>2, <2>3, NoAnswerYet DEF WebInv
<1>2. CASE Fallback /\ HasDefault(path)
    <2>1. /\ pc = "default" /\ pc' = "answered" /\ answer' = Default
          /\ UNCHANGED <<world, path, real, text, session_id, history>>
        BY <1>2 DEF Fallback, Answers
    <2>2. PlanDated' /\ PlanWatched'
        BY <2>1, WorldStands DEF Running
    <2>3. TextRead' /\ SessionRead' /\ FileSeen' /\ PageMissing'
        BY <2>1 DEF WebInv, TextRead, SessionRead, FileSeen, PageMissing
    <2>4. path.kind # "page" /\ was_real # "yes"
        BY <1>2, <2>1 DEF HasDefault, WebInv, FileSeen
    <2>5. Answered'
        BY <2>1, <2>4, Kinds DEF Answered, AnswerWasCurrent, SessionTells, StationRecognised,
                                 RealFileWins, ListedPageFound, Generates
    <2> QED BY <2>2, <2>3, <2>5 DEF WebInv
<1>3. CASE ServeFile
    <2>1. /\ pc = "file" /\ pc' = "answered" /\ answer' = IF real THEN Real ELSE NotFound
          /\ UNCHANGED <<world, path, real, text, session_id, history>>
        BY <1>3 DEF ServeFile, Answers
    <2>2. PlanDated' /\ PlanWatched'
        BY <2>1, WorldStands DEF Running
    <2>3. TextRead' /\ SessionRead' /\ FileSeen' /\ PageMissing'
        BY <2>1 DEF WebInv, TextRead, SessionRead, FileSeen, PageMissing
    <2>4. AnswerWasCurrent' /\ SessionTells'
        BY <2>1, Kinds DEF AnswerWasCurrent, SessionTells, Generates
    <2>5. StationRecognised' /\ RealFileWins'
        BY <2>1, Kinds DEF StationRecognised, RealFileWins, WebInv, FileSeen
    <2>6. ListedPageFound'
        BY <2>1 DEF ListedPageFound, WebInv, FileSeen, PageMissing, Matches
    <2> QED BY <2>2, <2>3, <2>4, <2>5, <2>6 DEF WebInv, Answered
<1> QED BY <1>1, <1>2, <1>3

LEMMA DoneKeeps == WebInv /\ (Done \/ UNCHANGED web_vars) => WebInv'
<1> SUFFICES ASSUME WebInv, Done \/ UNCHANGED web_vars PROVE WebInv'
    OBVIOUS
<1>1. CASE Done
    <2>1. PlanDated'
        BY <1>1 DEF Done, world, WebInv, PlanDated
    <2>2. PlanWatched' /\ TextRead' /\ SessionRead' /\ FileSeen' /\ PageMissing'
        BY <1>1 DEF Done, PlanWatched, Running, TextRead, SessionRead, FileSeen, PageMissing
    <2> QED BY <1>1, <2>1, <2>2, NoAnswerYet DEF Done, WebInv
<1>2. CASE UNCHANGED web_vars
    <2> USE DEF web_vars, world, request, history
    <2>1. PlanDated' /\ PlanWatched' /\ TextRead' /\ SessionRead' /\ FileSeen' /\ PageMissing'
        BY <1>2 DEF WebInv, PlanDated, PlanWatched, Running, TextRead, SessionRead, FileSeen,
                    PageMissing
    <2>2. Answered'
        BY <1>2 DEF WebInv, Answered, AnswerWasCurrent, SessionTells, StationRecognised,
                    RealFileWins, ListedPageFound, Generates
    <2> QED BY <2>1, <2>2 DEF WebInv
<1> QED BY <1>1, <1>2

LEMMA WebNext == WebInv /\ [RequestsNext]_web_vars => WebInv'
BY WorldKeeps, RequestKeeps, ReadingKeeps, BuildingKeeps, ServingKeeps, DoneKeeps DEF RequestsNext, Handler

THEOREM WebInvariant == RequestsSpec => []WebInv
BY WebInit, WebNext, PTL DEF RequestsSpec

(* What is generated comes from one complete plan of the request's own time.  *)
THEOREM AnswersAreCurrent == RequestsSpec => []AnswerWasCurrent
<1>1. WebInv => AnswerWasCurrent
    BY DEF WebInv, Answered
<1> QED BY <1>1, WebInvariant, PTL

(* The session id is never older than the list it goes with, although it is   *)
(* read after the list.                                                     *)
THEOREM SessionsTell == RequestsSpec => []SessionTells
<1>1. WebInv => SessionTells
    BY DEF WebInv, Answered
<1> QED BY <1>1, WebInvariant, PTL

(* A path with a default is answered, whatever becomes of the plan.           *)
THEOREM StationsRecognised == RequestsSpec => []StationRecognised
<1>1. WebInv => StationRecognised
    BY DEF WebInv, Answered
<1> QED BY <1>1, WebInvariant, PTL

(* A real file that is there throughout is what the client gets.              *)
THEOREM RealFilesWin == RequestsSpec => []RealFileWins
<1>1. WebInv => RealFileWins
    BY DEF WebInv, Answered
<1> QED BY <1>1, WebInvariant, PTL

(* A page that the plan lists is found, under its name and first number, for  *)
(* every plan that stays while the request runs.                             *)
THEOREM ListedPagesFound == RequestsSpec => []ListedPageFound
<1>1. WebInv => ListedPageFound
    BY DEF WebInv, Answered
<1> QED BY <1>1, WebInvariant, PTL

-----------------------------------------------------------------------------
(* A layout: RocrailLayout.                                                 *)
Fixed == {"curve", "buffer", "switch"}

(* What the first Init and both loops leave alone.                           *)
Ground ==
    /\ track \in Layouts
    /\ WellLaid(track)
    /\ \A p \in Positions : Kind(p) \in Known => p \in resolved /\ ports[p] = track[p].sides

SwitchesLast == \A p \in resolved : Kind(p) = "switch" => TracksDone

LayoutInv == TypeOK /\ Ground /\ SwitchesLast

RecoveredInv == LayoutInv /\ Reconstructed

-----------------------------------------------------------------------------
(* Sides and pieces.                                                        *)
LEMMA OppositeFacts ==
    ASSUME NEW side \in Sides
    PROVE  /\ Opposite(side) \in Sides
           /\ Opposite(Opposite(side)) = side
           /\ Opposite(side) # side
  BY SMT DEF Opposite, Sides

LEMMA BranchFacts ==
    ASSUME NEW t \in Sides, NEW h \in {"left", "right"}
    PROVE  /\ BranchOf(t, h) \in Sides
           /\ BranchOf(t, h) # t /\ BranchOf(t, h) # Opposite(t)
           /\ Through(t, BranchOf(t, h)) = Sides \ {Opposite(BranchOf(t, h))}
  BY SMT DEF BranchOf, Through, Clockwise, Opposite, Sides

LEMMA KindsOfPieces ==
    ASSUME NEW piece \in Pieces
    PROVE  /\ piece.kind \in Known \cup Fixed
           /\ piece.sides \in SUBSET Sides
           /\ piece.kind = "curve" => piece.sides \in Corners
           /\ piece.kind = "buffer" => piece.sides \in Stubs
           /\ piece.kind = "switch" =>
                 /\ piece.toe \in Sides /\ piece.hand \in {"left", "right"}
                 /\ piece.sides = Through(piece.toe, BranchOf(piece.toe, piece.hand))
<1>1. CASE piece \in [kind : {"straight", "feedback"}, sides : Lines]
  BY <1>1, SMT DEF Known, Fixed, Lines, Sides, N, E, S, W
<1>2. CASE piece \in [kind : {"curve"}, sides : Corners]
  BY <1>2, SMT DEF Known, Fixed, Corners, Sides, N, E, S, W
<1>3. CASE piece \in [kind : {"buffer"}, sides : {{side} : side \in Sides}]
  BY <1>3, SMT DEF Known, Fixed, Stubs, Sides
<1>4. CASE piece \in {[kind |-> "switch", toe |-> t, hand |-> h,
                       sides |-> Through(t, BranchOf(t, h))] :
                          t \in Sides, h \in {"left", "right"}}
  <2>1. PICK t \in Sides, h \in {"left", "right"} :
            piece = [kind |-> "switch", toe |-> t, hand |-> h,
                     sides |-> Through(t, BranchOf(t, h))]
    BY <1>4
  <2>2. Through(t, BranchOf(t, h)) \in SUBSET Sides
    BY BranchFacts
  <2> QED
    BY <2>1, <2>2, SMT DEF Known, Fixed
<1> QED
  BY <1>1, <1>2, <1>3, <1>4 DEF Pieces

LEMMA PiecesOfTrack ==
    ASSUME Ground, NEW p \in Positions
    PROVE  track[p] \in Pieces
  BY LayoutAssumption DEF Ground, Positions

-----------------------------------------------------------------------------
(* Initially, and by every step, the types, the known pieces and the order.  *)
LEMMA LayoutInitially == Init => LayoutInv /\ Reconstructed
<1> SUFFICES ASSUME Init PROVE LayoutInv /\ Reconstructed
  OBVIOUS
<1>1. Ground
  BY DEF Init, Ground
<1>2. ports \in [Positions -> SUBSET Sides]
  <2>1. \A p \in Positions : track[p].sides \in SUBSET Sides
    BY <1>1, PiecesOfTrack, KindsOfPieces
  <2> QED
    BY <2>1 DEF Init
<1>3. \A p \in Positions : p \in resolved => Kind(p) \in Known
  BY DEF Init
<1>4. TypeOK
  BY <1>2, <1>3, SMT DEF Init, TypeOK, Known
<1>5. SwitchesLast
  BY <1>3, <1>4, SMT DEF SwitchesLast, Known, TypeOK
<1>6. Reconstructed
  BY <1>1, <1>3, <1>4 DEF Reconstructed, Ground, TypeOK
<1> QED
  BY <1>1, <1>4, <1>5, <1>6 DEF LayoutInv

-----------------------------------------------------------------------------
(* What every step does to the ports.                                       *)
LEMMA ResolvesType ==
    ASSUME TypeOK, NEW p \in Positions, NEW sides \in SUBSET Sides, Resolves(p, sides)
    PROVE  /\ resolved' \subseteq Positions
           /\ ports' \in [Positions -> SUBSET Sides]
  BY DEF TypeOK, Resolves

LEMMA GroundStep ==
    ASSUME TypeOK, Ground, NEW p \in Positions, p \notin resolved,
           NEW sides, Resolves(p, sides), UNCHANGED track
    PROVE  Ground'
<1>1. ASSUME NEW q \in Positions, Kind(q) \in Known
      PROVE  q \in resolved' /\ ports'[q] = track[q].sides
  <2>1. q \in resolved /\ q # p
    BY <1>1 DEF Ground
  <2> QED
    BY <1>1, <2>1 DEF Ground, Resolves, TypeOK
<1> QED
  BY <1>1 DEF Ground, WellLaid, Positions, Kind

LEMMA SwitchesLastStep ==
    ASSUME TypeOK, SwitchesLast, NEW p \in Positions,
           NEW sides, Resolves(p, sides), UNCHANGED track,
           Kind(p) = "switch" => TracksDone
    PROVE  SwitchesLast'
  BY DEF TypeOK, SwitchesLast, Resolves, TracksDone, Positions, Kind

LEMMA AcceptingType ==
    ASSUME NEW p \in Positions
    PROVE  AcceptingSides(p) \in SUBSET Sides
  BY DEF AcceptingSides

LEMMA CornersAndStubs == Corners \subseteq SUBSET Sides /\ Stubs \subseteq SUBSET Sides
  BY SMT DEF Corners, Stubs, Sides, N, E, S, W

(* Every step resolves one piece, to sides, in its turn.                     *)
LEMMA StepShape ==
    ASSUME TypeOK, NEW p \in Positions, Resolve(p)
    PROVE  /\ p \notin resolved
           /\ \E sides \in SUBSET Sides : Resolves(p, sides)
           /\ UNCHANGED track
           /\ Kind(p) = "switch" => TracksDone
           /\ settled' \subseteq resolved'
           /\ IF Kind(p) = "switch"
              THEN \E t, b \in Sides : /\ toe' = [toe EXCEPT ![p] = t]
                                       /\ branch' = [branch EXCEPT ![p] = b]
              ELSE UNCHANGED <<toe, branch>>
<1>1. CASE ResolveCurve(p)
  BY <1>1, AcceptingType, CornersAndStubs
     DEF ResolveCurve, Settles, Falls, Resolves, TypeOK
<1>2. CASE ResolveBuffer(p)
  BY <1>2, AcceptingType, CornersAndStubs
     DEF ResolveBuffer, Settles, Falls, Resolves, TypeOK
<1>3. CASE SwitchSettled(p)
  <2>1. PICK b \in Sides, t \in Sides : Leans(p, b, t) /\ Directs(p, t, b)
    BY <1>3 DEF SwitchSettled
  <2>2. Through(t, b) \in SUBSET Sides
    BY OppositeFacts DEF Through
  <2> QED
    BY <1>3, <2>1, <2>2 DEF SwitchSettled, Directs, Resolves, TypeOK
<1>4. CASE SwitchAssumed(p)
  <2>1. PICK b \in {N, S} : Directs(p, W, b)
    BY <1>4 DEF SwitchAssumed
  <2>2. W \in Sides /\ b \in Sides
    BY <2>1, SMT DEF W, N, S, Sides
  <2>3. Through(W, b) \in SUBSET Sides
    BY <2>2, OppositeFacts DEF Through
  <2> QED
    BY <1>4, <2>1, <2>2, <2>3 DEF SwitchAssumed, Directs, Resolves, TypeOK
<1> QED
  BY <1>1, <1>2, <1>3, <1>4 DEF Resolve

LEMMA LayoutStep == LayoutInv /\ [Next]_vars => LayoutInv'
<1> SUFFICES ASSUME LayoutInv, [Next]_vars PROVE LayoutInv'
  OBVIOUS
<1>1. CASE UNCHANGED vars
  BY <1>1 DEF LayoutInv, TypeOK, Ground, SwitchesLast, TracksDone, WellLaid,
              Positions, Kind, vars
<1>2. CASE Next
  <2>1. PICK p \in Positions : Resolve(p)
    BY <1>2 DEF Next
  <2>2. PICK sides \in SUBSET Sides : Resolves(p, sides)
    BY <2>1, StepShape DEF LayoutInv
  <2>3. UNCHANGED track /\ p \notin resolved
    BY <2>1, StepShape DEF LayoutInv
  <2>4. Ground'
    BY <2>2, <2>3, GroundStep DEF LayoutInv
  <2>5. SwitchesLast'
    BY <2>1, <2>2, <2>3, StepShape, SwitchesLastStep DEF LayoutInv
  <2>6. TypeOK'
    <3>1. resolved' \subseteq Positions /\ ports' \in [Positions -> SUBSET Sides]
      BY <2>2, ResolvesType DEF LayoutInv
    <3>2. settled' \subseteq resolved'
      BY <2>1, StepShape DEF LayoutInv
    <3>3. resolved' = resolved \cup {p}
      BY <2>2 DEF Resolves
    <3>4. None \notin Sides
      BY SMT DEF None, Sides
    <3>5. CASE Kind(p) = "switch"
      BY <3>1, <3>2, <3>3, <3>4, <3>5, <2>1, <2>3, StepShape
         DEF LayoutInv, TypeOK, Positions, Kind
    <3>6. CASE Kind(p) # "switch"
      BY <3>1, <3>2, <3>3, <3>6, <2>1, <2>3, StepShape
         DEF LayoutInv, TypeOK, Positions, Kind
    <3> QED
      BY <3>5, <3>6
  <2> QED
    BY <2>4, <2>5, <2>6 DEF LayoutInv
<1> QED
  BY <1>1, <1>2

THEOREM LayoutAlways == Spec => []LayoutInv
<1>1. Init => LayoutInv
  BY LayoutInitially
<1> QED
  BY <1>1, LayoutStep, PTL DEF Spec

(* The types of the cells, and that a switch has toe and branch exactly when *)
(* it is resolved, for every set of layouts.                                *)
THEOREM LayoutTypeCorrect == Spec => []TypeOK
  BY LayoutAlways, PTL DEF LayoutInv

-----------------------------------------------------------------------------
(* A piece accepts exactly the sides it connects on.                         *)
LEMMA AcceptsItsSides ==
    ASSUME LayoutInv, Reconstructed, Recoverable,
           NEW p \in Positions, Kind(p) \in Fixed, Kind(p) = "switch" => TracksDone
    PROVE  AcceptingSides(p) = track[p].sides
<1>1. track[p].sides \in SUBSET Sides
  BY PiecesOfTrack, KindsOfPieces DEF LayoutInv
<1>2. Kind(p) \notin Known
  BY SMT DEF Fixed, Known
<1>3. ASSUME NEW q \in resolved PROVE ports[q] = track[q].sides
  BY Recoverable, Reconstructed DEF Reconstructed
<1>4. ASSUME NEW side \in track[p].sides PROVE side \in AcceptingSides(p)
  <2>1. side \in Sides /\ Beside(p, side) \in Positions
    BY <1>1, <1>2, <1>4, Recoverable DEF Recoverable
  <2>2. Opposite(side) \in track[Beside(p, side)].sides
    BY <1>4, <2>1 DEF LayoutInv, Ground, WellLaid, Positions
  <2> QED
    BY <1>3, <2>1, <2>2 DEF AcceptingSides
<1>5. ASSUME NEW side \in Sides, side \notin track[p].sides
      PROVE  side \notin AcceptingSides(p)
  <2>1. SUFFICES ASSUME Beside(p, side) \in Positions
                 PROVE  Beside(p, side) \in resolved /\ Opposite(side) \notin ports[Beside(p, side)]
    BY DEF AcceptingSides
  <2>2. Kind(Beside(p, side)) \in Known \/ (Kind(p) = "switch" /\ Kind(Beside(p, side)) \in {"curve", "buffer"})
    BY <1>2, <1>5, <2>1, Recoverable DEF Recoverable
  <2>3. Beside(p, side) \in resolved
    BY <2>1, <2>2 DEF TracksDone, LayoutInv, Ground
  <2>4. Opposite(side) \notin track[Beside(p, side)].sides
    BY <1>5, <2>1 DEF LayoutInv, Ground, WellLaid, Positions
  <2> QED
    BY <1>3, <2>3, <2>4
<1> QED
  BY <1>1, <1>4, <1>5 DEF AcceptingSides

(* Which way the curve on a switch's branch leans settles the switch.        *)
LEMMA CurveLeans ==
    ASSUME NEW b \in Sides, NEW sides \in Corners, Opposite(b) \in sides
    PROVE  \E t \in Sides \ {b, Opposite(b)} : sides = {Opposite(b), Opposite(t)}
<1> DEFINE Leaning(t) == sides = {Opposite(b), Opposite(t)}
<1>1. Leaning(Clockwise(b)) \/ Leaning(Opposite(Clockwise(b)))
  BY SMT DEF Corners, Sides, Opposite, Clockwise, N, E, S, W
<1>2. /\ Clockwise(b) \in Sides \ {b, Opposite(b)}
      /\ Opposite(Clockwise(b)) \in Sides \ {b, Opposite(b)}
  BY SMT DEF Sides, Opposite, Clockwise
<1> QED
  BY <1>1, <1>2

LEMMA BranchUnique ==
    ASSUME NEW b \in Sides, NEW c \in Sides,
           Sides \ {Opposite(b)} = Sides \ {Opposite(c)}
    PROVE  b = c
  BY OppositeFacts

LEMMA ThroughBranch ==
    ASSUME NEW b \in Sides, NEW t \in Sides \ {b, Opposite(b)}
    PROVE  /\ Through(t, b) = Sides \ {Opposite(b)}
           /\ Opposite(t) \in Sides \ {b, Opposite(b)}
  BY SMT DEF Through, Sides, Opposite

LEMMA SwitchChoice ==
    ASSUME LayoutInv, Reconstructed, Recoverable,
           NEW p \in Positions, Kind(p) = "switch", TracksDone,
           SwitchSettled(p) \/ SwitchAssumed(p)
    PROVE  LET b0 == BranchOf(track[p].toe, track[p].hand)
           IN  \E t \in Sides \ {b0, Opposite(b0)} :
                  /\ track[Beside(p, b0)].sides = {Opposite(b0), Opposite(t)}
                  /\ Directs(p, t, b0)
<1> DEFINE b0 == BranchOf(track[p].toe, track[p].hand)
<1>1. /\ b0 \in Sides
      /\ track[p].sides = Sides \ {Opposite(b0)}
  BY PiecesOfTrack, KindsOfPieces, BranchFacts DEF LayoutInv, Kind
<1>2. AcceptingSides(p) = Sides \ {Opposite(b0)}
  BY <1>1, AcceptsItsSides DEF Fixed
<1>3. b0 \in track[p].sides
  BY <1>1, OppositeFacts
<1>4. Beside(p, b0) \in Positions /\ Kind(Beside(p, b0)) = "curve"
  BY <1>3, Recoverable, SMT DEF Recoverable, Known
<1>5. Beside(p, b0) \in resolved /\ ports[Beside(p, b0)] \in Corners
  <2>1. Beside(p, b0) \in resolved
    BY <1>4 DEF TracksDone
  <2> QED
    BY <1>4, <2>1, PiecesOfTrack, KindsOfPieces, Recoverable, Reconstructed
       DEF Reconstructed, LayoutInv, Kind
<1>6. Opposite(b0) \in ports[Beside(p, b0)]
  <2>1. Opposite(b0) \in track[Beside(p, b0)].sides
    BY <1>1, <1>3, <1>4 DEF LayoutInv, Ground, WellLaid, Positions
  <2> QED
    BY <1>5, <2>1, Recoverable, Reconstructed DEF Reconstructed
<1>7. PICK t0 \in Sides \ {b0, Opposite(b0)} : ports[Beside(p, b0)] = {Opposite(b0), Opposite(t0)}
  BY <1>1, <1>5, <1>6, CurveLeans
<1>8. Leans(p, b0, t0)
  BY <1>1, <1>2, <1>5, <1>7, ThroughBranch DEF Leans, IsBranch
<1>9. PICK b \in Sides, t \in Sides : Leans(p, b, t) /\ Directs(p, t, b)
  BY <1>1, <1>7, <1>8 DEF SwitchSettled, SwitchAssumed
<1>10. b = b0
  BY <1>1, <1>2, <1>9, BranchUnique DEF Leans, IsBranch
<1>11. Opposite(t) \in Sides \ {b0, Opposite(b0)}
  BY <1>2, <1>9, <1>10 DEF Leans
<1>12. t \in Sides \ {b0, Opposite(b0)}
  BY <1>1, <1>9, <1>11, ThroughBranch, OppositeFacts
<1>13. track[Beside(p, b0)].sides = {Opposite(b0), Opposite(t)}
  BY <1>5, <1>9, <1>10, Recoverable, Reconstructed DEF Leans, Reconstructed
<1> QED
  BY <1>9, <1>10, <1>12, <1>13

LEMMA SwitchSides ==
    ASSUME LayoutInv, Reconstructed, Recoverable,
           NEW p \in Positions, Kind(p) = "switch", TracksDone,
           SwitchSettled(p) \/ SwitchAssumed(p)
    PROVE  ports' = [ports EXCEPT ![p] = track[p].sides]
<1> DEFINE b0 == BranchOf(track[p].toe, track[p].hand)
<1>1. b0 \in Sides /\ track[p].sides = Sides \ {Opposite(b0)}
  BY PiecesOfTrack, KindsOfPieces, BranchFacts DEF LayoutInv, Kind
<1>2. PICK t \in Sides \ {b0, Opposite(b0)} : Directs(p, t, b0)
  BY SwitchChoice
<1> QED
  BY <1>1, <1>2, ThroughBranch DEF Directs, Resolves

(* A switch that diverges forward is directed as it lies.                    *)
LEMMA SwitchDirection ==
    ASSUME LayoutInv, Reconstructed, Recoverable,
           NEW p \in Positions, Kind(p) = "switch", TracksDone,
           SwitchSettled(p) \/ SwitchAssumed(p), DivergesForward(p)
    PROVE  /\ toe' = [toe EXCEPT ![p] = track[p].toe]
           /\ branch' = [branch EXCEPT ![p] = BranchOf(track[p].toe, track[p].hand)]
<1> DEFINE b0 == BranchOf(track[p].toe, track[p].hand)
<1>1. /\ track[p].toe \in Sides /\ b0 \in Sides
      /\ b0 # track[p].toe
  BY PiecesOfTrack, KindsOfPieces, BranchFacts DEF LayoutInv, Kind
<1>2. PICK t \in Sides \ {b0, Opposite(b0)} :
          /\ track[Beside(p, b0)].sides = {Opposite(b0), Opposite(t)}
          /\ Directs(p, t, b0)
  BY SwitchChoice
<1>3. Opposite(track[p].toe) \in {Opposite(b0), Opposite(t)}
  BY <1>2 DEF DivergesForward
<1>4. t = track[p].toe
  BY <1>1, <1>3, OppositeFacts
<1> QED
  BY <1>2, <1>4 DEF Directs


-----------------------------------------------------------------------------
(* The piece whose turn it is gets the sides it connects on.                 *)
LEMMA ResolvedAsItLies ==
    ASSUME LayoutInv, Reconstructed, Recoverable, NEW p \in Positions, Resolve(p)
    PROVE  ports' = [ports EXCEPT ![p] = track[p].sides]
<1>1. track[p] \in Pieces
  BY PiecesOfTrack DEF LayoutInv
<1>2. CASE ResolveCurve(p)
  <2>1. AcceptingSides(p) = track[p].sides
    BY <1>2, AcceptsItsSides, SMT DEF ResolveCurve, Fixed
  <2>2. track[p].sides \in Corners
    BY <1>1, <1>2, KindsOfPieces DEF ResolveCurve, Kind
  <2> QED
    BY <1>2, <2>1, <2>2 DEF ResolveCurve, Settles, Resolves
<1>3. CASE ResolveBuffer(p)
  <2>1. AcceptingSides(p) = track[p].sides
    BY <1>3, AcceptsItsSides, SMT DEF ResolveBuffer, Fixed
  <2>2. track[p].sides \in Stubs
    BY <1>1, <1>3, KindsOfPieces DEF ResolveBuffer, Kind
  <2> QED
    BY <1>3, <2>1, <2>2 DEF ResolveBuffer, Settles, Resolves
<1>4. CASE SwitchSettled(p) \/ SwitchAssumed(p)
  BY <1>4, SwitchSides DEF SwitchSettled, SwitchAssumed
<1> QED
  BY <1>2, <1>3, <1>4 DEF Resolve

LEMMA ReconstructedStep == RecoveredInv /\ [Next]_vars => RecoveredInv'
<1> SUFFICES ASSUME RecoveredInv, [Next]_vars PROVE RecoveredInv'
  OBVIOUS
<1>1. LayoutInv'
  BY LayoutStep DEF RecoveredInv
<1>2. CASE UNCHANGED vars
  BY <1>1, <1>2 DEF RecoveredInv, Reconstructed, Recoverable, Positions, Kind, vars
<1>3. CASE Next
  <2>1. PICK p \in Positions : Resolve(p)
    BY <1>3 DEF Next
  <2>2. UNCHANGED track /\ resolved' = resolved \cup {p}
    BY <2>1, StepShape DEF RecoveredInv, LayoutInv, Resolves
  <2>3. Recoverable' = Recoverable
    BY <2>2 DEF Recoverable, Positions, Kind
  <2>4. CASE ~Recoverable
    BY <1>1, <2>3, <2>4 DEF Reconstructed, RecoveredInv
  <2>5. CASE Recoverable
    <3>1. ports' = [ports EXCEPT ![p] = track[p].sides]
      BY <2>1, <2>5, ResolvedAsItLies DEF RecoveredInv
    <3> QED
      BY <1>1, <2>2, <2>5, <3>1 DEF Reconstructed, RecoveredInv, LayoutInv, TypeOK
  <2> QED
    BY <1>1, <2>4, <2>5 DEF RecoveredInv
<1> QED
  BY <1>1, <1>2, <1>3 DEF RecoveredInv

(* Where the neighbours can settle every piece, the layout comes out as it   *)
(* lies, whatever the order of the plan.                                    *)
THEOREM LayoutReconstructed == Spec => []Reconstructed
<1>1. Init => RecoveredInv
  BY LayoutInitially DEF RecoveredInv
<1>2. RecoveredInv => Reconstructed
  BY DEF RecoveredInv
<1> QED
  BY <1>1, <1>2, ReconstructedStep, PTL DEF Spec

-----------------------------------------------------------------------------
(* The shape of a resolved cell, which is all that the tile is drawn from.   *)
Shape(p) ==
    /\ Kind(p) \in Known => ports[p] \in Lines
    /\ Kind(p) = "curve" => ports[p] \in Corners
    /\ Kind(p) = "buffer" => ports[p] \in Stubs
    /\ Kind(p) = "switch" =>
          /\ toe[p] \in Sides /\ branch[p] \in Sides \ {toe[p], Opposite(toe[p])}
          /\ ports[p] = Through(toe[p], branch[p])

ShapeInv == LayoutInv /\ \A p \in resolved : Shape(p)

LEMMA LinesOfKnown ==
    ASSUME NEW piece \in Pieces, piece.kind \in Known
    PROVE  piece.sides \in Lines
<1>1. piece \notin {[kind |-> "switch", toe |-> t, hand |-> h,
                      sides |-> Through(t, BranchOf(t, h))] :
                          t \in Sides, h \in {"left", "right"}}
  BY SMT DEF Known
<1> QED
  BY <1>1, SMT DEF Pieces, Known

LEMMA ShapeKept ==
    ASSUME ShapeInv, NEW p \in Positions, p \notin resolved,
           UNCHANGED track, NEW sides, Resolves(p, sides),
           \A q \in resolved : toe'[q] = toe[q] /\ branch'[q] = branch[q],
           Shape(p)'
    PROVE  \A q \in resolved' : Shape(q)'
  BY DEF ShapeInv, LayoutInv, TypeOK, Shape, Resolves, Kind, Positions

LEMMA ShapeStep == ShapeInv /\ [Next]_vars => ShapeInv'
<1> SUFFICES ASSUME ShapeInv, [Next]_vars PROVE ShapeInv'
  OBVIOUS
<1>1. LayoutInv'
  BY LayoutStep DEF ShapeInv
<1>2. CASE UNCHANGED vars
  BY <1>1, <1>2 DEF ShapeInv, Shape, Kind, vars
<1>3. CASE Next
  <2>1. PICK p \in Positions : Resolve(p)
    BY <1>3 DEF Next
  <2>2. p \notin resolved /\ UNCHANGED track
    BY <2>1, StepShape DEF ShapeInv, LayoutInv
  <2>3. PICK sides \in SUBSET Sides : Resolves(p, sides)
    BY <2>1, StepShape DEF ShapeInv, LayoutInv
  <2>4. p \in DOMAIN ports /\ p \in DOMAIN toe /\ p \in DOMAIN branch
    BY DEF ShapeInv, LayoutInv, TypeOK
  <2>5. \A q \in resolved : toe'[q] = toe[q] /\ branch'[q] = branch[q]
    BY <2>1, <2>2, StepShape DEF ShapeInv, LayoutInv, TypeOK
  <2>6. Shape(p)'
    <3>1. CASE ResolveCurve(p)
      BY <2>4, <3>1, SMT DEF ResolveCurve, Settles, Falls, Resolves, Shape, Known, Kind
    <3>2. CASE ResolveBuffer(p)
      BY <2>4, <3>2, SMT DEF ResolveBuffer, Settles, Falls, Resolves, Shape, Known, Kind
    <3>3. CASE SwitchSettled(p)
      <4>1. PICK b \in Sides, t \in Sides : Leans(p, b, t) /\ Directs(p, t, b)
        BY <3>3 DEF SwitchSettled
      <4>2. Opposite(t) \in Sides \ {b, Opposite(b)}
        BY <4>1 DEF Leans, IsBranch
      <4>3. b \notin {t, Opposite(t)}
        BY <4>2, OppositeFacts
      <4> QED
        BY <2>2, <2>4, <3>3, <4>1, <4>3, SMT DEF SwitchSettled, Directs, Resolves, Shape, Known, Kind
    <3>4. CASE SwitchAssumed(p)
      <4>1. PICK b \in {N, S} : Directs(p, W, b)
        BY <3>4 DEF SwitchAssumed
      <4>2. W \in Sides /\ b \in Sides \ {W, Opposite(W)}
        BY SMT DEF W, N, S, Sides, Opposite
      <4> QED
        BY <2>2, <2>4, <3>4, <4>1, <4>2, SMT DEF SwitchAssumed, Directs, Resolves, Shape, Known, Kind
    <3> QED
      BY <2>1, <3>1, <3>2, <3>3, <3>4 DEF Resolve
  <2>7. \A q \in resolved' : Shape(q)'
    BY <2>2, <2>3, <2>5, <2>6, ShapeKept
  <2> QED
    BY <1>1, <2>7 DEF ShapeInv
<1> QED
  BY <1>2, <1>3

LEMMA ShapeInitially == Init => ShapeInv
<1> SUFFICES ASSUME Init PROVE ShapeInv
  OBVIOUS
<1>1. LayoutInv
  BY LayoutInitially
<1>2. ASSUME NEW p \in resolved PROVE Shape(p)
  <2>1. p \in Positions /\ Kind(p) \in Known /\ ports[p] = track[p].sides
    BY <1>2 DEF Init
  <2>2. ports[p] \in Lines
    BY <1>1, <2>1, PiecesOfTrack, LinesOfKnown DEF LayoutInv, Kind
  <2> QED
    BY <2>1, <2>2, SMT DEF Shape, Known
<1> QED
  BY <1>1, <1>2 DEF ShapeInv

-----------------------------------------------------------------------------
(* The tiles, each turned as _element turns it.                              *)
LEMMA LineDrawn ==
    ASSUME NEW p, Kind(p) \in Known, ports[p] \in Lines
    PROVE  TilePorts(Element(p)) = ports[p]
<1> DEFINE r == IF N \in ports[p] THEN 1 ELSE 0
           typ == IF Kind(p) = "straight" THEN "gerade" ELSE "s88kontakt"
<1>1. Element(p) = [typ |-> typ, rotation |-> r]
  BY SMT DEF Element, Known
<1>2. TilePorts([typ |-> typ, rotation |-> r]) = {Ccw(side, r) : side \in {E, W}}
  BY SMT DEF TilePorts
<1>3. {Ccw(side, r) : side \in {E, W}} = ports[p]
  BY SMT DEF Lines, Ccw, N, E, S, W
<1> QED
  BY <1>1, <1>2, <1>3

LEMMA BufferDrawn ==
    ASSUME NEW p, Kind(p) = "buffer", ports[p] \in Stubs
    PROVE  TilePorts(Element(p)) = ports[p]
<1>1. PICK stub \in Sides : ports[p] = {stub}
  BY DEF Stubs
<1> DEFINE r == (N - stub) % 4
<1>2. BufferRotation(ports[p]) = r
  <2>1. (CHOOSE s \in ports[p] : TRUE) = stub
    BY <1>1
  <2> QED
    BY <2>1 DEF BufferRotation
<1>3. Element(p) = [typ |-> "prellbock", rotation |-> r]
  BY <1>2, SMT DEF Element
<1>4. TilePorts([typ |-> "prellbock", rotation |-> r]) = {Ccw(side, r) : side \in {N}}
  BY SMT DEF TilePorts
<1>5. Ccw(N, r) = stub
  BY SMT DEF Ccw, N, Sides
<1> QED
  BY <1>1, <1>3, <1>4, <1>5

LEMMA CurveDrawn ==
    ASSUME NEW p, Kind(p) = "curve", ports[p] \in Corners
    PROVE  TilePorts(Element(p)) = ports[p]
<1> DEFINE turned == {r \in Rotations : {Ccw(E, r), Ccw(S, r)} = ports[p]}
<1>1. PICK r0 \in Rotations : turned = {r0}
  <2>1. CASE ports[p] = {E, S}
    <3>1. turned = {0}
      BY <2>1, SMT DEF Rotations, Ccw, E, S
    <3> QED
      BY <3>1, SMT DEF Rotations
  <2>2. CASE ports[p] = {N, E}
    <3>1. turned = {1}
      BY <2>2, SMT DEF Rotations, Ccw, E, S, N
    <3> QED
      BY <3>1, SMT DEF Rotations
  <2>3. CASE ports[p] = {W, N}
    <3>1. turned = {2}
      BY <2>3, SMT DEF Rotations, Ccw, E, S, W, N
    <3> QED
      BY <3>1, SMT DEF Rotations
  <2>4. CASE ports[p] = {S, W}
    <3>1. turned = {3}
      BY <2>4, SMT DEF Rotations, Ccw, E, S, W
    <3> QED
      BY <3>1, SMT DEF Rotations
  <2> QED
    BY <2>1, <2>2, <2>3, <2>4 DEF Corners
<1>2. CurveRotation(ports[p]) = r0
  <2>1. (CHOOSE r \in turned : \A q \in turned : r <= q) = r0
    BY <1>1, SMT DEF Rotations
  <2>2. turned # {}
    BY <1>1
  <2> QED
    BY <2>1, <2>2 DEF CurveRotation
<1>4. Element(p) = [typ |-> "bogen", rotation |-> r0]
  BY <1>2, SMT DEF Element
<1>5. TilePorts([typ |-> "bogen", rotation |-> r0]) = {Ccw(side, r0) : side \in {E, S}}
  BY SMT DEF TilePorts
<1>6. {Ccw(E, r0), Ccw(S, r0)} = ports[p]
  BY <1>1
<1> QED
  BY <1>4, <1>5, <1>6

LEMMA SwitchDrawn ==
    ASSUME NEW p, Kind(p) = "switch", Shape(p)
    PROVE  TilePorts(Element(p)) = ports[p]
<1> DEFINE t == toe[p]
           b == branch[p]
           r == (S - t) % 4
           typ == IF b = Ccw(W, r) THEN "linksweiche" ELSE "rechtsweiche"
           side0 == IF b = Ccw(W, r) THEN W ELSE E
<1>1. t \in Sides /\ b \in Sides \ {t, Opposite(t)} /\ ports[p] = {t, Opposite(t), b}
  BY DEF Shape, Through
<1>2. Element(p) = [typ |-> typ, rotation |-> r]
  BY SMT DEF Element
<1>3. TilePorts([typ |-> typ, rotation |-> r]) = {Ccw(side, r) : side \in {S, N, side0}}
  BY SMT DEF TilePorts
<1>4. Ccw(S, r) = t /\ Ccw(N, r) = Opposite(t)
  BY <1>1, SMT DEF Ccw, Opposite, Sides, S, N
<1>5. Ccw(side0, r) = b
  BY <1>1, SMT DEF Ccw, Opposite, Sides, S, E, W
<1> QED
  BY <1>1, <1>2, <1>3, <1>4, <1>5

(* Every tile drawn connects on the sides its piece was resolved to.         *)
THEOREM TilesDrawnAsResolved == Spec => []DrawnAsResolved
<1>1. ShapeInv => DrawnAsResolved
  <2> SUFFICES ASSUME ShapeInv, NEW p \in resolved
               PROVE  TilePorts(Element(p)) = ports[p]
    BY DEF DrawnAsResolved
  <2>1. Shape(p) /\ p \in Positions
    BY DEF ShapeInv, LayoutInv, TypeOK
  <2>2. Kind(p) \in Known \cup Fixed
    BY <2>1, PiecesOfTrack, KindsOfPieces DEF ShapeInv, LayoutInv, Kind
  <2> QED
    BY <2>1, <2>2, LineDrawn, BufferDrawn, CurveDrawn, SwitchDrawn DEF Fixed, Shape
<1> QED
  BY <1>1, ShapeInitially, ShapeStep, PTL DEF Spec

-----------------------------------------------------------------------------
(* The direction of the switches.                                           *)
Directed(p) ==
    /\ toe[p] = track[p].toe
    /\ branch[p] = BranchOf(track[p].toe, track[p].hand)

DirectedInv ==
    /\ RecoveredInv
    /\ Recoverable => \A p \in resolved : Kind(p) = "switch" /\ DivergesForward(p) => Directed(p)

LEMMA HandDrawn ==
    ASSUME NEW t \in Sides, NEW h \in {"left", "right"}
    PROVE  BranchOf(t, h) = Ccw(W, (S - t) % 4) <=> h = "left"
  BY SMT DEF BranchOf, Ccw, Clockwise, Opposite, Sides, S, W

LEMMA DirectedIsDrawn == DirectedInv => SwitchDirected
<1> SUFFICES ASSUME DirectedInv, Recoverable, NEW p \in resolved,
                    Kind(p) = "switch", DivergesForward(p)
             PROVE  /\ toe[p] = track[p].toe
                    /\ Element(p).typ = IF track[p].hand = "left" THEN "linksweiche" ELSE "rechtsweiche"
  BY DEF SwitchDirected
<1>1. Directed(p) /\ p \in Positions
  BY DEF DirectedInv, RecoveredInv, LayoutInv, TypeOK
<1>2. track[p].toe \in Sides /\ track[p].hand \in {"left", "right"}
  BY <1>1, PiecesOfTrack, KindsOfPieces DEF DirectedInv, RecoveredInv, LayoutInv, Kind
<1>3. branch[p] = Ccw(W, (S - toe[p]) % 4) <=> track[p].hand = "left"
  BY <1>1, <1>2, HandDrawn DEF Directed
<1>4. Element(p).typ = IF branch[p] = Ccw(W, (S - toe[p]) % 4) THEN "linksweiche" ELSE "rechtsweiche"
  BY SMT DEF Element
<1> QED
  BY <1>1, <1>3, <1>4 DEF Directed

LEMMA DirectedStep == DirectedInv /\ [Next]_vars => DirectedInv'
<1> SUFFICES ASSUME DirectedInv, [Next]_vars PROVE DirectedInv'
  OBVIOUS
<1>1. RecoveredInv'
  BY ReconstructedStep DEF DirectedInv
<1>2. CASE UNCHANGED vars
  BY <1>1, <1>2 DEF DirectedInv, Directed, DivergesForward, Recoverable, Positions, Kind, vars
<1>3. CASE Next
  <2>1. PICK p \in Positions : Resolve(p)
    BY <1>3 DEF Next
  <2>2. /\ p \notin resolved /\ UNCHANGED track /\ resolved' = resolved \cup {p}
        /\ Kind(p) = "switch" => TracksDone
    BY <2>1, StepShape DEF DirectedInv, RecoveredInv, LayoutInv, Resolves
  <2>3. Recoverable' = Recoverable
    BY <2>2 DEF Recoverable, Positions, Kind
  <2>4. \A q \in resolved : toe'[q] = toe[q] /\ branch'[q] = branch[q]
    BY <2>1, <2>2, StepShape DEF DirectedInv, RecoveredInv, LayoutInv, TypeOK
  <2>5. ASSUME Recoverable, NEW q \in resolved', (Kind(q) = "switch" /\ DivergesForward(q))'
        PROVE  Directed(q)'
    <3>1. Kind(q) = "switch" /\ DivergesForward(q)
      BY <2>2, <2>5 DEF Kind, DivergesForward
    <3>2. CASE q \in resolved
      BY <2>2, <2>4, <2>5, <3>1, <3>2 DEF DirectedInv, Directed
    <3>3. CASE q = p
      <4>1. SwitchSettled(p) \/ SwitchAssumed(p)
        BY <2>1, <3>1, <3>3, SMT DEF Resolve, ResolveCurve, ResolveBuffer
      <4>2. /\ toe' = [toe EXCEPT ![p] = track[p].toe]
            /\ branch' = [branch EXCEPT ![p] = BranchOf(track[p].toe, track[p].hand)]
        BY <2>2, <2>5, <3>1, <3>3, <4>1, SwitchDirection DEF DirectedInv, RecoveredInv
      <4> QED
        BY <2>2, <3>3, <4>2 DEF Directed, DirectedInv, RecoveredInv, LayoutInv, TypeOK
    <3> QED
      BY <2>2, <3>2, <3>3
  <2> QED
    BY <1>1, <2>3, <2>5 DEF DirectedInv
<1> QED
  BY <1>2, <1>3

(* A switch whose diverging route leans away from its toe is drawn with its  *)
(* toe where it lies and with its own hand.                                 *)
THEOREM SwitchesDirected == Spec => []SwitchDirected
<1>1. Init => DirectedInv
  <2>1. Init => \A p \in resolved : Kind(p) # "switch"
    BY SMT DEF Init, Known
  <2> QED
    BY <2>1, LayoutInitially DEF DirectedInv, RecoveredInv
<1> QED
  BY <1>1, DirectedStep, DirectedIsDrawn, PTL DEF Spec
=============================================================================
