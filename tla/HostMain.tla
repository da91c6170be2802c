------------------------------- MODULE HostMain -------------------------------
(***************************************************************************)
(* The callers of adaptive_pipeline_process.  One is main of               *)
(* src/src/main.c: options, configuration, security provider, pipeline,    *)
(* then one call per step until one fails, over a loopback transport that  *)
(* neither fails by itself nor repeats a packet.  The other is any program *)
(* built on the library: its transport does both, and it calls again after *)
(* a call that failed.                                                     *)
(***************************************************************************)
EXTENDS HostPipeline

CONSTANTS
  Requested,       \* bound: the numbers given to --steps
  UnsignedRange,   \* 2^32 in the code
  WindowSize       \* config.window_size
ASSUME MainBounds ==
  /\ Requested \subseteq Nat \ {0} /\ UnsignedRange \in Nat \ {0}
  /\ WindowSize \in Nat \ {0}

VARIABLES
  stage,           \* "options", "configuration", "security", "pipeline", "loop",
                   \* "calling" adaptive_pipeline_process, "exit" of main,
                   \* and "library" for the other program
  steps, step,
  before,          \* complete_windows before the call
  sessions,        \* the two security sessions: "none", "live" or "destroyed"
  exit_status

mainVars == <<stage, steps, step, before, sessions, exit_status>>
allVars == <<vars, mainVars>>

Running == -1

\* strtoul's result is stored in an unsigned.
Narrowed(number) == number % UnsignedRange

Exits(status) == stage' = "exit" /\ exit_status' = status
\* The label cleanup: the sessions are destroyed, whatever they hold.
CleansUp(status) == Exits(status) /\ sessions' = "destroyed"

\* The default of 36 steps stands for any of the numbers requested.
Options ==
  /\ stage = "options"
  /\ \/ Exits(2) /\ UNCHANGED steps          \* usage
     \/ \E number \in Requested : steps' = Narrowed(number) /\ stage' = "configuration"
                                  /\ UNCHANGED exit_status
  /\ UNCHANGED <<vars, step, before, sessions>>

LoadConfiguration ==
  /\ stage = "configuration"
  /\ \/ Exits(1)
     \/ stage' = "security" /\ UNCHANGED exit_status
  /\ UNCHANGED <<vars, steps, step, before, sessions>>

\* A pairing that fails leaves no session.
PairSessions ==
  /\ stage = "security"
  /\ \/ Exits(1) /\ UNCHANGED sessions
     \/ stage' = "pipeline" /\ sessions' = "live" /\ UNCHANGED exit_status
  /\ UNCHANGED <<vars, steps, step, before>>

InitPipeline ==
  /\ stage = "pipeline"
  /\ \/ CleansUp(1)
     \/ stage' = "loop" /\ UNCHANGED <<sessions, exit_status>>
  /\ UNCHANGED <<vars, steps, step, before>>

CallProcess ==
  /\ stage = "loop" /\ step < steps
  /\ before' = Len(completions)
  /\ Call
  /\ stage' = "calling"
  /\ UNCHANGED <<steps, step, sessions, exit_status>>

\* Inside the call, transport and receiver included.
InCall ==
  /\ stage = "calling" /\ pc = "sending"
  /\ SendBlock \/ SealFails \/ BuildFails \/ Complete
  /\ UNCHANGED mainVars

\* loopback.sample_count: zeroed at first, then what the representation decoded
\* last says of itself, and every one encodes config.window_size samples.
SampleCount == IF completions = <<>> THEN 0 ELSE WindowSize

\* A call that does not return OK, or without completing one window of as many
\* samples, ends the program; its status looks at the result only.
CallReturns ==
  /\ stage = "calling" /\ pc = "idle"
  /\ IF result = "OK" /\ Len(completions) = before + 1 /\ SampleCount = WindowSize
       THEN step' = step + 1 /\ stage' = "loop" /\ UNCHANGED <<sessions, exit_status>>
       ELSE CleansUp(IF result = "OK" THEN 0 ELSE 1) /\ UNCHANGED step
  /\ UNCHANGED <<vars, steps, before>>

LoopEnds ==
  /\ stage = "loop" /\ step = steps
  /\ CleansUp(0)
  /\ UNCHANGED <<vars, steps, step, before>>

\* The other program, over any transport.
LibraryCalls == stage = "library" /\ Next /\ UNCHANGED mainVars

MainInit ==
  /\ Init
  /\ stage \in {"options", "library"}
  /\ steps = 36 /\ step = 0 /\ before = 0
  /\ sessions = "none" /\ exit_status = Running

MainNext ==
  \/ Options \/ LoadConfiguration \/ PairSessions \/ InitPipeline
  \/ CallProcess \/ InCall \/ CallReturns \/ LoopEnds
  \/ LibraryCalls

\* A call runs to its return, and the program built on the library makes the
\* next one.
MainSpec ==
  MainInit /\ [][MainNext]_allVars
  /\ WF_allVars(stage = "library" /\ Process /\ UNCHANGED mainVars)

-----------------------------------------------------------------------------
\* Properties.

\* Exit status 0 means that as many windows were sent and received as steps
\* were to be made; the status alone does not look at the windows completed.
\* The steps are the narrowed ones: --steps 4294967296 asks for none.
ExitZeroMeansAll ==
  exit_status = 0 => Len(completions) = steps /\ \A i \in DOMAIN completions : Whole(completions[i])

\* No way out of the program leaves the keys of a session in memory.
SessionsDestroyed == stage = "exit" => sessions # "live"

\* Every exit of main tells the truth and leaves nothing behind.
ExitsClean == ExitZeroMeansAll /\ SessionsDestroyed

CompletedWindow(window) == \E i \in DOMAIN completions : completions[i][1].window = window

\* The call made for the window has returned, and no other call since.
ReturnedFor(window, value) ==
  pc = "idle" /\ next_window_id = window + 1 /\ result = value

\* Calls that failed half-way, leaving the receiver in the middle of a transfer
\* or with a representation that does not decode and sequence numbers unused,
\* do not hinder the next one, as long as the path can be built: it completes
\* its window, unless the configured block cannot hold a record or its own scale
\* was written as 0.0f (adaptive_pipeline_process, adaptive_receiver_accept).
NextCallUnhindered ==
  \A window \in Windows :
     (/\ stage = "library" /\ pc = "idle" /\ HasSegments
      /\ failures = MaxFailures /\ next_window_id = window)
     ~> \/ CompletedWindow(window)
        \/ ReturnedFor(window, "ERR_RANGE")
        \/ ReturnedFor(window, "ERR_FORMAT") /\ upload.faint

=============================================================================
