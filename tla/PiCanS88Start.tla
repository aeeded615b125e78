---------------------------- MODULE PiCanS88Start ----------------------------
(***************************************************************************)
(* The archived 2016 program from its command line to its threads:           *)
(* PiCanS88.c's main, the options of LinuxConApp.cpp, the search for a        *)
(* locomotive address (CAN2LAN.cpp).  Opening the gateway's sockets is left    *)
(* to PiCanS88Lan, which extends this module; here it succeeds or ends the    *)
(* program.  Numbers are what atoi returned; strings that are only passed on  *)
(* (addresses, the CAN interface, the ports) are left out, with the parsing   *)
(* errors that end the program.                                              *)
(***************************************************************************)
EXTENDS Integers, FiniteSets

CONSTANTS
    MaxModules,   \* MAXMODULES
    MaxAddress,   \* 255, the last address of a search
    Numbers       \* arguments given to the options

ASSUME StartAssumption ==
    /\ MaxModules \in Nat \ {0} /\ MaxAddress \in Nat
    /\ Numbers \subseteq Int

VARIABLES
    phase,    \* where main() is
    app,      \* PiCanS88App
    address   \* FindLokAddress's loop index

startVars == <<phase, app, address>>

Phases == {"options", "fork", "gateway", "feedback", "search", "threads", "running", "exit",
           "dead", "astray"}
Fields == {"modules", "offset", "start", "end", "value"}

\* The constructor's defaults.
Defaults ==
    [modules |-> 1, offset |-> 0, start |-> 1, end |-> MaxAddress, value |-> 1,
     search |-> FALSE, background |-> TRUE]

StartInit == phase = "options" /\ app = Defaults /\ address = 0

-----------------------------------------------------------------------------
(* GetOpts.                                                                 *)
\* The checks of -m, -o, -s, -e and -w: no lower bound but that of -m.
Accepts(field, v) ==
    CASE field = "modules" -> v >= 1 /\ v <= MaxModules
      [] field = "offset" -> v < MaxModules
      [] field \in {"start", "end"} -> v < MaxAddress
      [] field = "value" -> v <= 1

NumberOption ==
    /\ phase = "options"
    /\ \E field \in Fields, v \in Numbers :
          /\ app' = [app EXCEPT ![field] = v]
          /\ phase' = IF Accepts(field, v) THEN "options" ELSE "exit"
    /\ UNCHANGED address

\* -t, which also stays in the foreground, and -f.
FlagOption ==
    /\ phase = "options"
    /\ \/ app' = [app EXCEPT !.search = TRUE, !.background = FALSE]
       \/ app' = [app EXCEPT !.background = FALSE]
    /\ UNCHANGED <<phase, address>>

\* An unknown option, -h, -b or -d with an address that cannot be resolved.
BadOption ==
    /\ phase = "options"
    /\ phase' = "exit"
    /\ UNCHANGED <<app, address>>

EndOfOptions ==
    /\ phase = "options"
    /\ phase' = "fork"
    /\ UNCHANGED <<app, address>>

(* BackgroundCheck: the process followed is the child; fork can fail.       *)
BackgroundCheck ==
    /\ phase = "fork"
    /\ phase' \in IF app.background THEN {"gateway", "exit"} ELSE {"gateway"}
    /\ UNCHANGED <<app, address>>

(* CS88UDP::Init, then main's choice between the search and the threads.    *)
OpenFeedback ==
    /\ phase = "feedback"
    /\ phase' \in {"exit", IF app.search THEN "search" ELSE "threads"}
    /\ address' = app.start
    /\ UNCHANGED app

(* FindLokAddress: a frame with the address's low byte every second, written  *)
(* or not; then exit.                                                       *)
Search ==
    /\ phase = "search"
    /\ IF address <= app.end
       THEN address' = address + 1 /\ UNCHANGED phase
       ELSE phase' = "exit" /\ UNCHANGED address
    /\ UNCHANGED app

\* The three threads; a pthread_create that fails ends the program.  Each object
\* has its copy of the options: PiCanS88App is not read again and forgotten.
StartThreads ==
    /\ phase = "threads"
    /\ phase' \in {"running", "exit"}
    /\ app' = Defaults /\ address' = 0

Start ==
    \/ NumberOption \/ FlagOption \/ BadOption \/ EndOfOptions
    \/ BackgroundCheck \/ OpenFeedback \/ Search \/ StartThreads

\* The gateway's part, which PiCanS88Lan details: its sockets, its death of a
\* signal, and a use of memory past one of its tables, after which anything goes.
GatewayPart ==
    /\ \/ phase = "gateway" /\ phase' \in {"feedback", "exit", "astray"}
       \/ phase = "running" /\ phase' \in {"dead", "astray"}
    /\ UNCHANGED <<app, address>>

StartSpec == StartInit /\ [][Start \/ GatewayPart]_startVars

=============================================================================
