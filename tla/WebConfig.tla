----------------------------- MODULE WebConfig -----------------------------
(***************************************************************************)
(* The CS2-style web server, gateway/webconfig.py: one request, from the     *)
(* test for a real file to the answer, while the world it reads changes.     *)
(* Every request has a thread and a handler object of its own and they share *)
(* nothing but the files, which a request never writes: one request at a     *)
(* time against files that change at any moment shows each of them.          *)
(*                                                                          *)
(* The plan is Rocrail's plan.xml: absent, being written ("partial": what a  *)
(* read returns then does not parse, or does not decode), or complete.  Of   *)
(* its contents the track diagram's pages are kept; locomotives and switches *)
(* are its version.  HEAD is GET without the body.                           *)
(***************************************************************************)
EXTENDS Integers, Sequences, FiniteSets, FiniteSetsExt

CONSTANTS
    Levels,      \* Rocrail levels (z)
    Titles,      \* what levels are called in Rocrail
    MaxSaves,    \* bound: how often Rocrail saves the plan
    MaxTime      \* bound: seconds that pass

ASSUME WebAssumption ==
    /\ Levels \subseteq Nat /\ IsFiniteSet(Levels)
    /\ Titles \subseteq {"Yard", "Yard!", "?"}
    /\ MaxSaves \in Nat /\ MaxTime \in Nat

VARIABLES
    now,        \* seconds
    plan,       \* plan.xml
    mtime,      \* its modification time
    saves,      \* how often it was completed
    real,       \* PITC_WEB_ROOT has a real file at the requested path
    pc,         \* where the request is
    path,       \* what is asked for
    text,       \* what reading the plan returned
    session_id, \* the plan's modification time, as read after the text
    answer      \* what the client gets

\* History of the present request, for the properties.
VARIABLES
    whole,      \* complete plans that were there while it ran
    disturbed,  \* the plan file was touched while it ran
    was_real    \* a real file was there all the time it ran ("yes"), at times, or never ("no")

request  == <<pc, path, real, text, session_id, answer>>
history  == <<whole, disturbed, was_real>>
world    == <<now, plan, mtime, saves>>
web_vars == <<world, request, history>>

Absent  == [kind |-> "absent"]
Partial == [kind |-> "partial"]
Diagrams == UNION {[L -> Titles] : L \in SUBSET Levels}
Complete(v, t, d) == [kind |-> "complete", version |-> v, saved |-> t, titles |-> d]
IsComplete(p) == p.kind = "complete"

-----------------------------------------------------------------------------
(* gateway/rocrail_layout.py: the name of a level's page, with every other   *)
(* character than letters, digits, space, "_", "." and "-" dropped.          *)
Cleaned(title) ==
    CASE title \in {"Yard", "Yard!"} -> "Yard"
      [] title = "?"                 -> ""

LevelName(z) == <<"Level", z>>
TitleName(s) == <<s>>

PageName(title, z) ==
    IF Cleaned(title) = "" THEN LevelName(z) ELSE TitleName(Cleaned(title))

Names == {PageName(t, z) : t \in Titles, z \in Levels}

\* parse_pages: one page per level that holds track, by increasing level.
Pages(p) ==
    LET L == DOMAIN p.titles
        ZOf(k) == CHOOSE z \in L : Cardinality({y \in L : y < z}) = k - 1
    IN  [k \in 1..Cardinality(L) |-> [z |-> ZOf(k), name |-> PageName(p.titles[ZOf(k)], ZOf(k))]]

-----------------------------------------------------------------------------
(* What can be asked for.                                                   *)
Page(name) == [kind |-> "page", name |-> name]
CS2List    == [kind |-> "cs2list"]    \* lokomotive.cs2, magnetartikel.cs2
JsonList   == [kind |-> "jsonlist"]   \* /app/api/locos, /app/api/mags
Master     == [kind |-> "master"]     \* gleisbild.cs2
Static     == [kind |-> "static"]     \* geraet.vrs, fahrstrassen.cs2, /app/api/automatics
Unknown    == [kind |-> "unknown"]

Paths == {CS2List, JsonList, Master, Static, Unknown} \cup {Page(n) : n \in Names}

Generated(p)  == p.kind \in {"cs2list", "jsonlist", "master", "page"}
HasDefault(p) == p.kind \in {"cs2list", "jsonlist", "master", "static"}

NoAnswer == [kind |-> "none"]
Real     == [kind |-> "file"]
Default  == [kind |-> "default"]
NotFound == [kind |-> "404"]
FromPlan(p, session, page, index) ==
    [kind |-> "plan", plan |-> p, session |-> session, page |-> page, index |-> index]
NoPage == 0

RequestsInit ==
    /\ now = 1
    /\ plan \in {Absent} \cup {Complete(0, 0, d) : d \in Diagrams}
    /\ mtime = 0
    /\ saves = 0
    /\ pc = "idle" /\ path = Unknown /\ real = FALSE
    /\ text = Absent /\ session_id = 0 /\ answer = NoAnswer
    /\ whole = {} /\ disturbed = FALSE /\ was_real = "no"

-----------------------------------------------------------------------------
(* The world: Rocrail, the user, the clock.                                 *)
Running == pc # "idle"

PlanBecomes(p) ==
    /\ plan' = p
    /\ whole' = IF Running /\ IsComplete(p) THEN whole \cup {p} ELSE whole
    /\ disturbed' = Running

\* Rocrail saves at most once a second (assumed: the modification time is cut
\* to seconds); the file is truncated, then written.
SaveBegins ==
    /\ saves < MaxSaves
    /\ plan # Partial /\ now > mtime
    /\ PlanBecomes(Partial)
    /\ mtime' = now
    /\ UNCHANGED <<now, saves, request, was_real>>

SaveEnds ==
    /\ plan = Partial
    /\ \E d \in Diagrams : PlanBecomes(Complete(saves + 1, now, d))
    /\ mtime' = now
    /\ saves' = saves + 1
    /\ UNCHANGED <<now, request, was_real>>

PlanRemoved ==
    /\ IsComplete(plan)
    /\ PlanBecomes(Absent)
    /\ UNCHANGED <<now, mtime, saves, request, was_real>>

\* The user copies a real file in, or takes it away.
FileChanges ==
    /\ Running
    /\ real' = ~real
    /\ was_real' = "at times"
    /\ UNCHANGED <<world, pc, path, text, session_id, answer, whole, disturbed>>

Tick ==
    /\ now < MaxTime
    /\ now' = now + 1
    /\ UNCHANGED <<plan, mtime, saves, request, history>>

World ==
    SaveBegins \/ SaveEnds \/ PlanRemoved \/ FileChanges \/ Tick

-----------------------------------------------------------------------------
(* do_GET, do_HEAD.                                                         *)
Request(p) ==
    /\ pc = "idle"
    /\ path' = p
    /\ real' \in BOOLEAN
    /\ pc' = "exists"
    /\ whole' = IF IsComplete(plan) THEN {plan} ELSE {}
    /\ was_real' = IF real' THEN "yes" ELSE "no"
    /\ UNCHANGED <<world, text, session_id, answer, disturbed>>

Goes(stage) ==
    /\ pc' = stage
    /\ UNCHANGED <<world, path, real, text, session_id, answer, history>>

Answers(a) ==
    /\ answer' = a
    /\ pc' = "answered"
    /\ UNCHANGED <<world, path, real, text, session_id, history>>

\* Mutant: the generated answer goes first.
PlanFirst ==
    /\ pc = "exists"
    /\ Goes(IF Generated(path) THEN "read" ELSE IF real THEN "file" ELSE "default")

\* _file_exists(); generated_body() gives up early on what it does not make.
FileExists ==
    /\ pc = "exists"
    /\ Goes(CASE real                     -> "file"
              [] ~real /\ Generated(path)  -> "read"
              [] ~real /\ ~Generated(path) -> "default")

\* open() and read() of the plan.
ReadPlan ==
    /\ pc = "read" /\ plan # Absent
    /\ text' = plan
    /\ pc' = "mtime"
    /\ UNCHANGED <<world, path, real, session_id, answer, history>>

\* Mutant: the session left at its default.
DefaultSession ==
    /\ pc = "mtime" /\ plan # Absent
    /\ session_id' = 1
    /\ pc' = "build"
    /\ UNCHANGED <<world, path, real, text, answer, history>>

\* os.path.getmtime(), after the text was read.
GetMtime ==
    /\ pc = "mtime" /\ plan # Absent
    /\ session_id' = mtime
    /\ pc' = "build"
    /\ UNCHANGED <<world, path, real, text, answer, history>>

\* OSError from either: generated_body() returns None.
PlanUnreadable ==
    /\ pc \in {"read", "mtime"} /\ plan = Absent
    /\ Goes("default")

\* Mutant: a parser that makes do with what there is of the file.
ParseRecovers ==
    /\ pc = "build" /\ ~IsComplete(text)
    /\ Answers(FromPlan(text, session_id, NoPage, 0))

\* ET.ParseError or UnicodeDecodeError.
ParseFails ==
    /\ pc = "build" /\ ~IsComplete(text)
    /\ Goes("default")

BuildList ==
    /\ pc = "build" /\ IsComplete(text)
    /\ \/ path = CS2List /\ Answers(FromPlan(text, session_id, NoPage, 0))
       \/ path = JsonList /\ Answers(FromPlan(text, 0, NoPage, 0))

\* gleisbild.cs2 lists the pages, if there are any.
BuildMaster ==
    /\ pc = "build" /\ IsComplete(text) /\ path = Master
    /\ IF Pages(text) = <<>> THEN Goes("default")
                             ELSE Answers(FromPlan(text, 0, NoPage, 0))

\* The first page of that name, numbered from 1.
Matches(ps, name) == {k \in DOMAIN ps : ps[k].name = name}

\* Mutant: build_page_cs2(page) with its default number.
BuildPageUnnumbered ==
    /\ pc = "build" /\ IsComplete(text) /\ path.kind = "page"
    /\ IF Matches(Pages(text), path.name) = {} THEN Goes("default")
       ELSE Answers(FromPlan(text, 0, path.name, 1))

BuildPage ==
    /\ pc = "build" /\ IsComplete(text) /\ path.kind = "page"
    /\ LET found == Matches(Pages(text), path.name)
       IN  IF found = {} THEN Goes("default")
           ELSE Answers(FromPlan(text, 0, path.name, Min(found)))

\* Mutant: no default for what a plan could provide.
FallbackToNothing ==
    /\ pc = "default"
    /\ IF HasDefault(path) /\ ~Generated(path) THEN Answers(Default) ELSE Goes("file")

\* default_body(), or the file server's own handler.
Fallback ==
    /\ pc = "default"
    /\ IF HasDefault(path) THEN Answers(Default) ELSE Goes("file")

\* SimpleHTTPRequestHandler opens the file: it may be gone by now.
ServeFile ==
    /\ pc = "file"
    /\ Answers(IF real THEN Real ELSE NotFound)

\* The handler object goes with its connection.
Done ==
    /\ pc = "answered"
    /\ pc' = "idle" /\ path' = Unknown /\ real' = FALSE
    /\ text' = Absent /\ session_id' = 0 /\ answer' = NoAnswer
    /\ whole' = {} /\ disturbed' = FALSE /\ was_real' = "no"
    /\ UNCHANGED world

Handler ==
    \/ FileExists \/ ReadPlan \/ GetMtime \/ PlanUnreadable \/ ParseFails
    \/ BuildList \/ BuildMaster \/ BuildPage \/ Fallback \/ ServeFile \/ Done

RequestsNext == World \/ Handler \/ \E p \in Paths : Request(p)

RequestsSpec == RequestsInit /\ [][RequestsNext]_web_vars

-----------------------------------------------------------------------------
Generates == pc = "answered" /\ answer.kind = "plan"

(* What is generated comes from one complete plan that was there while the   *)
(* request ran, never from a torn or an earlier one ("read fresh on each     *)
(* request so it never goes stale", webconfig.py).                          *)
AnswerWasCurrent == Generates => answer.plan \in whole

(* The session id by which clients recognise a changed list is never older   *)
(* than the list, and belongs to it if the plan was left alone meanwhile.    *)
SessionTells ==
    Generates /\ path = CS2List =>
        /\ answer.session >= answer.plan.saved
        /\ ~disturbed => answer.session = answer.plan.saved

(* A path with a default is answered whatever state the plan is in, so that  *)
(* the station is recognised ("anything missing ... falls back",             *)
(* webconfig.py), unless a real file was taken away under the request.       *)
StationRecognised ==
    pc = "answered" /\ HasDefault(path) /\ was_real # "at times" => answer # NotFound

(* A real file that is there throughout is what the client gets, whatever    *)
(* the plan holds.                                                          *)
RealFileWins == pc = "answered" /\ was_real = "yes" => answer = Real

(* Every page a plan lists is found under its name, with the number the list *)
(* gives it, as long as the plan stays; where two levels share a name, the   *)
(* first answers.                                                           *)
ListedPageFound ==
    pc = "answered" /\ path.kind = "page" /\ ~disturbed /\ was_real = "no" /\ IsComplete(plan) =>
        LET listed == {k \in DOMAIN Pages(plan) : Pages(plan)[k].name = path.name}
        IN  IF listed = {} THEN answer = NotFound
            ELSE answer = FromPlan(plan, 0, path.name, Min(listed))
=============================================================================
