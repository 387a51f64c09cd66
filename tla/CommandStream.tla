---------------------------- MODULE CommandStream ----------------------------
(***************************************************************************)
(* The sequence numbers of /joint_cmd: RealSystem::write stamps every      *)
(* command with a uint8; the firmware counts what is missing, repeated or  *)
(* out of order, and takes a new baseline after its watchdog has fired.    *)
(*                                                                         *)
(* Time is counted in control periods of the host (5 ms).  The transport   *)
(* is best effort: it loses commands and delays them, it does not reorder  *)
(* them.  What a command asks for is left to Actuator and Superloop.       *)
(***************************************************************************)
EXTENDS Integers, Sequences, SequencesExt

CONSTANTS
  SeqRange,    \* the values of JointCmd.seq: 256
  CmdTimeout,  \* JOINT_CMD_TIMEOUT_MS, in periods
  SpinBudget,  \* PING_TIMEOUT_MS * PING_ATTEMPTS, in periods
  Latency,     \* a command that is older than this, in periods, is lost
  Restart,     \* the least number of periods the host takes to start again
  MaxSent,     \* commands of one host process (a bound for TLC)
  MaxProcess   \* host processes (a bound for TLC)

Half == SeqRange \div 2

ASSUME StreamAssumption ==
  /\ SeqRange \in Nat /\ SeqRange % 2 = 0
  /\ CmdTimeout \in Nat \ {0} /\ SpinBudget \in Nat /\ Latency \in Nat
  /\ Restart \in Nat /\ MaxSent \in Nat /\ MaxProcess \in Nat \ {0}

\* 40 + 20 + Latency <= 128, and a restarted host is slower than that.
ASSUME TimeoutsFit ==
  /\ CmdTimeout + SpinBudget + Latency <= Half
  /\ CmdTimeout + SpinBudget + Latency < Restart

VARIABLES
  process,     \* the host process
  sent,        \* the commands it has sent
  pause,       \* periods since the last command was sent
  channel,     \* commands in flight, oldest first
  connected,   \* state = STATE_CONNECTED
  last,        \* last_command_seq
  hasLast,     \* has_last_command_seq
  silence,     \* now - last_joint_cmd_ms
  received,    \* has_received_joint_cmd
  spent,       \* joint_cmd_disable_latch_count = command_rx_count
  blocked,     \* periods since the last iteration of the main loop
  gaps, duplicates, outOfOrder,   \* the firmware's counters
  newest,      \* history: the last command received, its process and number
  missing      \* history: the commands lost since the baselines

hostVars == <<process, sent, pause>>
seqVars == <<last, hasLast>>
watchVars == <<silence, received, spent>>
counters == <<gaps, duplicates, outOfOrder>>
history == <<newest, missing>>
vars == <<hostVars, channel, connected, seqVars, watchVars, blocked, counters, history>>

Id == [process : 1..MaxProcess, number : 0..MaxSent]
MaxSilence == CmdTimeout + SpinBudget

TypeOK ==
  /\ process \in 1..MaxProcess /\ sent \in 0..MaxSent /\ pause \in 0..Restart
  /\ channel \in Seq([id : Id, age : 0..Latency])
  /\ connected \in BOOLEAN
  /\ last \in 0..SeqRange - 1 /\ hasLast \in BOOLEAN
  /\ silence \in 0..MaxSilence /\ received \in BOOLEAN /\ spent \in BOOLEAN
  /\ blocked \in 0..SpinBudget
  /\ gaps \in Nat /\ duplicates \in Nat /\ outOfOrder \in Nat
  /\ newest \in Id /\ missing \in Nat

Init ==
  /\ process = 1 /\ sent = 0 /\ pause = Restart
  /\ channel = <<>>
  /\ connected = FALSE
  /\ last = 0 /\ hasLast = FALSE
  /\ silence = MaxSilence /\ received = FALSE /\ spent = TRUE
  /\ blocked = 0
  /\ gaps = 0 /\ duplicates = 0 /\ outOfOrder = 0
  /\ newest = [process |-> 1, number |-> 0] /\ missing = 0

-----------------------------------------------------------------------------
(* The host and the transport.                                             *)

\* One period passes. RealSystem::write, if the controller manager runs it,
\* publishes one command; a command that is too old is lost. Only the oldest can
\* be, as no two are sent in one period.
Older == [i \in 1..Len(channel) |-> [channel[i] EXCEPT !.age = @ + 1]]
Alive ==
  IF channel # <<>> /\ channel[1].age = Latency THEN Tail(Older) ELSE Older

Period(write) ==
  /\ blocked < SpinBudget \/ ~connected
  /\ LET cmd == [id |-> [process |-> process, number |-> sent], age |-> 0]
     IN  IF write
           THEN /\ sent < MaxSent /\ sent' = sent + 1 /\ pause' = 0
                /\ channel' = Append(Alive, cmd)
           ELSE /\ pause' = IF pause < Restart THEN pause + 1 ELSE pause
                /\ channel' = Alive
                /\ UNCHANGED sent
  /\ silence' = IF silence < MaxSilence THEN silence + 1 ELSE silence
  /\ blocked' = IF connected THEN blocked + 1 ELSE 0
  /\ UNCHANGED <<process, connected, seqVars, received, spent, counters, history>>

\* The host process is started again: seq_ is zero.
HostRestarts ==
  /\ pause = Restart /\ process < MaxProcess
  /\ process' = process + 1 /\ sent' = 0
  /\ UNCHANGED <<pause, channel, connected, seqVars, watchVars, blocked, counters, history>>

Lose(i) ==
  /\ channel' = RemoveAt(channel, i)
  /\ UNCHANGED <<hostVars, connected, seqVars, watchVars, blocked, counters, history>>

-----------------------------------------------------------------------------
(* JointCmdCallback.                                                       *)

Stamp(id) == id.number % SeqRange

Delta(seq) == (seq - last) % SeqRange

GapOffByOneBug(delta) == delta
Gap(delta) == delta - 1

\* Only a command that is ahead moves the baseline.
Account(seq) ==
  IF ~hasLast THEN
    /\ hasLast' = TRUE /\ last' = seq
    /\ UNCHANGED counters
  ELSE
    /\ UNCHANGED hasLast
    /\ CASE Delta(seq) = 0 ->
              duplicates' = duplicates + 1 /\ UNCHANGED <<last, gaps, outOfOrder>>
         [] Delta(seq) # 0 /\ Delta(seq) <= Half ->
              /\ gaps' = gaps + Gap(Delta(seq)) /\ last' = seq
              /\ UNCHANGED <<duplicates, outOfOrder>>
         [] OTHER ->
              outOfOrder' = outOfOrder + 1 /\ UNCHANGED <<last, gaps, duplicates>>

\* What was truly lost since the command before.
Remember(id) ==
  /\ newest' = id
  /\ missing' = IF hasLast /\ id.process = newest.process
                  THEN missing + (id.number - newest.number - 1) ELSE missing

-----------------------------------------------------------------------------
(* An iteration of the main loop: the bridge spins, then the watchdog       *)
(* looks at the command's age and at the connection.                       *)

NewBaselineBug == FALSE
NewBaseline == received /\ (~connected' \/ silence >= CmdTimeout) /\ ~spent

Receive ==
  /\ connected /\ channel # <<>>
  /\ LET cmd == Head(channel).id
     IN  Account(Stamp(cmd)) /\ Remember(cmd)
  /\ channel' = Tail(channel)
  /\ silence' = 0 /\ received' = TRUE /\ spent' = FALSE
  /\ blocked' = 0
  /\ UNCHANGED <<hostVars, connected>>

\* No command; the session may be lost, or found again.
Idle ==
  /\ connected' \in BOOLEAN
  /\ hasLast' = (hasLast /\ ~NewBaseline)
  /\ spent' = (spent \/ NewBaseline)
  /\ blocked' = 0
  /\ UNCHANGED <<hostVars, channel, last, silence, received, counters, history>>

Next ==
  \/ \E write \in BOOLEAN : Period(write)
  \/ HostRestarts
  \/ \E i \in 1..Len(channel) : Lose(i)
  \/ Receive \/ Idle

Spec == Init /\ [][Next]_vars

-----------------------------------------------------------------------------
(* Properties.                                                             *)

\* Through wrap-around, losses, blocked spins, lost sessions and restarts of
\* the host, /joint_diag reports exactly the commands that were lost between
\* received ones, and never a repetition or a reordering that did not happen
\* (microros_bridge.c:100-129, main.c:512-515).
CountsAreExact == gaps = missing /\ duplicates = 0 /\ outOfOrder = 0

\* A command is never compared with one of another host process: the watchdog
\* has separated them (main.c:512-515).
BaselineIsOfOneProcess ==
  [][hasLast /\ newest' # newest => newest'.process = newest.process]_vars
=============================================================================
