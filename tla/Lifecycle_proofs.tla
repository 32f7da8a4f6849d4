---------------------------- MODULE Lifecycle_proofs ----------------------------
(***************************************************************************)
(* The safety properties of Lifecycle hold for any number of daemons,      *)
(* terminals and versions, of kills and of reused pids.                    *)
(*                                                                         *)
(* None of them is inductive as it stands.  Inv adds what a daemon that    *)
(* migrates knows (SeenBehind), whom the pid file and a stop that has read  *)
(* it may name (LostPid, HeldPid), who listens (ListenersServe), whom the  *)
(* socket file belongs to while nobody has raced (SocketHeld), and what    *)
(* has become of those who listened when a daemon probed (HeardPast,       *)
(* HeardAway).                                                             *)
(***************************************************************************)
EXTENDS Lifecycle, TLAPS

\* A daemon that migrates has versions left to apply, and found none that is not there.
SeenBehind == \A p \in Pids : proc[p] = "migrate" => seen[p] < Latest /\ seen[p] <= schema

\* A pid in daemon.pid whose daemon has ended was never given back by a shutdown.
LostPid == pidfile # None /\ proc[pidfile] \in {"dead", "foreign"} => pidfile \in unclean

\* A pid that a stop has read and that is a stranger's was lost, or was given away since.
HeldPid ==
  \A c \in Commands : \A p \in Pids :
     cmd[c].op = "stop" /\ cmd[c].pid = p /\ proc[p] = "foreign" => p \in unclean \cup overtaken

\* Only a stop comes to "kill".
KillsOnStop == \A c \in Commands : cmd[c].at = "kill" => cmd[c].op = "stop"

\* A daemon listens from the end of bind_or_die to the close in cleanup.
ListenersServe == \A p \in Pids : p \in listening <=> proc[p] \in {"scan", "loop", "shutdown"}

\* Until two daemons meet at the socket file it belongs to the one that listens or is about
\* to, and whoever removes it removes no listener's.
SocketHeld ==
  ~raced => /\ ~Overlap
            /\ \A p \in listening : sock = p
            /\ \A p \in Pids : proc[p] = "listen" => sock = p
            /\ \A p \in Pids : proc[p] \in {"unlink", "listen", "unlinkOwn"} => listening = {}

\* Whoever listened when a daemon probed never gets to bind again ...
HeardPast ==
  \A q \in Pids : \A p \in heard[q] : proc[p] \in Running \cup Leaving \cup {"dead", "foreign"}

\* ... so a file that is there when the daemon unlinks it is not theirs.
HeardAway == \A q \in Pids : proc[q] = "unlink" => \A p \in heard[q] \cap listening : sock # p

Inv ==
  /\ TypeOK /\ SeenBehind /\ SchemaOnce
  /\ LostPid /\ HeldPid /\ KillsOnStop /\ OnlyLostPidsAreHit /\ StatusTellsStop
  /\ ListenersServe /\ SocketHeld /\ HeardPast /\ HeardAway

-----------------------------------------------------------------------------
(* The types *)

Places == {"idle", "read", "check", "poll", "connect", "kill", "wait"}
Cmd    == [op : Ops \cup {None}, to : Pids \cup {None}, pid : Pids \cup {None}, at : Places]
CmdOK  == cmd \in [Commands -> Cmd]

LEMMA StepOK ==
  ASSUME CmdOK, NEW c \in Commands, NEW where \in {"connect", "read", "kill"}, Step(c, where)
  PROVE  CmdOK'
<1>1. cmd[c] \in Cmd
  BY DEF CmdOK
<1>2. [cmd[c] EXCEPT !.at = where] \in Cmd
  BY <1>1 DEF Cmd, Places
<1> QED BY <1>2 DEF Step, CmdOK, Cmd, Places

\* The fields that EXCEPT names, and those that it does not.
LEMMA RecordFields ==
  ASSUME NEW r \in Cmd, NEW where, NEW q
  PROVE  LET s == [[r EXCEPT !.at = where] EXCEPT !.pid = q]
             t == [[r EXCEPT !.at = where] EXCEPT !.to = q]
             u == [r EXCEPT !.at = where]
         IN /\ s.at = where /\ s.pid = q /\ s.op = r.op
            /\ t.at = where /\ t.pid = r.pid /\ t.op = r.op
            /\ u.at = where /\ u.pid = r.pid /\ u.op = r.op
BY DEF Cmd

LEMMA StepFields ==
  ASSUME CmdOK, NEW c \in Commands, NEW where, Step(c, where)
  PROVE  /\ cmd'[c].at = where /\ cmd'[c].pid = cmd[c].pid /\ cmd'[c].op = cmd[c].op
         /\ \A d \in Commands \ {c} : cmd'[d] = cmd[d]
<1>1. cmd[c] \in Cmd
  BY DEF CmdOK
<1>2. cmd'[c] = [cmd[c] EXCEPT !.at = where]
  BY DEF Step, CmdOK
<1>3. \A d \in Commands \ {c} : cmd'[d] = cmd[d]
  BY DEF Step, CmdOK
<1> QED BY <1>1, <1>2, <1>3, RecordFields

LEMMA FinishOK == ASSUME CmdOK, NEW c \in Commands, Finish(c) PROVE CmdOK'
BY DEF Finish, CmdOK, Cmd, Places, Idle

\* What 'stop' does to the process whose pid it has read.
LEMMA KillCases ==
  ASSUME TypeOK, NEW c \in Commands, KillRecorded(c)
  PROVE  \/ \E p \in Pids : p = cmd[c].pid /\ (Killed(p) \/ Flagged(p))
         \/ UNCHANGED <<memory, proc, hit, unclean>>
<1>1. CASE ReadAlive(c)
  <2>1. cmd[c].pid \in Pids
    BY <1>1 DEF ReadAlive, TypeOK
  <2> QED BY <1>1, <2>1 DEF KillRecorded
<1>2. CASE ~ReadAlive(c)
  BY <1>2 DEF KillRecorded
<1> QED BY <1>1, <1>2

LEMMA TypeNext == TypeOK /\ SeenBehind /\ Next => TypeOK'
<1> SUFFICES ASSUME TypeOK, SeenBehind, Next PROVE TypeOK'
  OBVIOUS
<1>a. raced' \in BOOLEAN
  BY DEF TypeOK, Next, Watch
<1>b. CmdOK
  BY DEF TypeOK, CmdOK, Cmd, Places
<1> USE <1>a, LifecycleAssumption DEF LifecycleAssumption, TypeOK, files, data, memory, history,
       bounds, Idle, Opening, Binding, Running, Leaving
<1>1. ASSUME NEW p \in Pids, OpenDatabase(p) PROVE TypeOK'
  BY <1>1 DEF OpenDatabase, Goes
<1>2. ASSUME NEW p \in Pids, Migrate(p) PROVE TypeOK'
  <2>1. seen[p] < Latest /\ seen[p] \in Nat
    BY <1>2 DEF Migrate, SeenBehind
  <2>2. seen[p] + 1 \in 1..Latest
    BY <2>1
  <2>3. applied' \in [1..Latest -> Nat]
    BY <1>2, <2>2 DEF Migrate
  <2> QED BY <1>2, <2>2, <2>3 DEF Migrate, Goes
<1>3. ASSUME NEW p \in Pids, MigrationFails(p) PROVE TypeOK'
  BY <1>3 DEF MigrationFails, Goes
<1>4. ASSUME NEW p \in Pids, Daemonize(p) PROVE TypeOK'
  BY <1>4 DEF Daemonize, Goes
<1>5. ASSUME NEW p \in Pids, Register(p) PROVE TypeOK'
  BY <1>5 DEF Register, Goes
<1>6. ASSUME NEW p \in Pids, ProbeExists(p) PROVE TypeOK'
  BY <1>6 DEF ProbeExists, Goes
<1>7. ASSUME NEW p \in Pids, LiveDaemon(p) PROVE TypeOK'
  BY <1>7 DEF LiveDaemon, Die, Free, HangUp, Goes, Reachable
<1>8. ASSUME NEW p \in Pids, StaleSocket(p) PROVE TypeOK'
  BY <1>8 DEF StaleSocket, Goes, Reachable
<1>9. ASSUME NEW p \in Pids, Unlink(p) PROVE TypeOK'
  BY <1>9 DEF Unlink, Goes
<1>10. ASSUME NEW p \in Pids, Bind(p) PROVE TypeOK'
  BY <1>10 DEF Bind, Goes
<1>11. ASSUME NEW p \in Pids, BindFails(p) PROVE TypeOK'
  BY <1>11 DEF BindFails, Die, Free, HangUp, Goes
<1>12. ASSUME NEW p \in Pids, Listen(p) PROVE TypeOK'
  BY <1>12 DEF Listen, Goes
<1>13. ASSUME NEW p \in Pids, ScanDone(p) PROVE TypeOK'
  BY <1>13 DEF ScanDone, Goes
<1>14. ASSUME NEW p \in Pids, CloseSocket(p) PROVE TypeOK'
  BY <1>14 DEF CloseSocket, HangUp, Goes
<1>15. ASSUME NEW p \in Pids, UnlinkOwn(p) PROVE TypeOK'
  BY <1>15 DEF UnlinkOwn, Goes
<1>16. ASSUME NEW p \in Pids, WriteStopped(p) PROVE TypeOK'
  BY <1>16 DEF WriteStopped, Goes
<1>17. ASSUME NEW p \in Pids, RemovePidfile(p) PROVE TypeOK'
  BY <1>17 DEF RemovePidfile, Goes, Free
<1>18. ASSUME NEW p \in Pids, LeaveLoop(p) PROVE TypeOK'
  BY <1>18 DEF LeaveLoop, Goes
<1>19. ASSUME NEW p \in Pids, Crash(p) PROVE TypeOK'
  BY <1>19 DEF Crash, Die, Free, HangUp, Goes, IsProcessAlive
<1>20. ASSUME NEW p \in Pids, Reuse(p) PROVE TypeOK'
  BY <1>20 DEF Reuse, Goes
<1>21. ASSUME NEW p \in Pids, NEW c \in Commands, Serve(p, c) PROVE TypeOK'
  BY <1>21 DEF Serve
<1>22. ASSUME NEW c \in Commands, AlreadyRunning(c) PROVE TypeOK'
  BY <1>22 DEF AlreadyRunning, Finish
<1>23. ASSUME NEW c \in Commands, ForkFails(c) PROVE TypeOK'
  BY <1>23 DEF ForkFails, Finish
<1>24. ASSUME NEW c \in Commands, PollSocket(c) PROVE TypeOK'
  <2>1. CmdOK'
    BY <1>24, <1>b, StepOK, FinishOK DEF PollSocket
  <2> QED BY <1>24, <2>1 DEF PollSocket, CmdOK, Cmd, Places
<1>25. ASSUME NEW c \in Commands, Connect(c) PROVE TypeOK'
  <2>1. cmd[c] \in Cmd
    BY <1>b DEF CmdOK
  <2>2. [[cmd[c] EXCEPT !.at = "wait"] EXCEPT !.to = sock] \in Cmd
    BY <2>1 DEF Cmd, Places
  <2>3. CmdOK'
    BY <1>25, <1>b, <2>2 DEF Connect, CmdOK, Cmd, Places
  <2> QED BY <1>25, <2>3 DEF Connect, CmdOK, Cmd, Places
<1>26. ASSUME NEW c \in Commands, NotConnected(c) PROVE TypeOK'
  <2>1. CmdOK'
    BY <1>26, <1>b, StepOK, FinishOK DEF NotConnected
  <2> QED BY <1>26, <2>1 DEF NotConnected, CmdOK, Cmd, Places
<1>27. ASSUME NEW c \in Commands, NEW op \in Ops, RunCommand(c, op) PROVE TypeOK'
  BY <1>27 DEF RunCommand
<1>28. ASSUME NEW c \in Commands, Launch(c) PROVE TypeOK'
  <2>1. CmdOK'
    <3>a. cmd[c] \in Cmd
      BY <1>b DEF CmdOK
    <3>1. [[cmd[c] EXCEPT !.at = "poll"] EXCEPT !.pid = None] \in Cmd
      BY <3>a DEF Cmd, Places
    <3> QED BY <1>28, <1>b, <3>1 DEF Launch, CmdOK, Cmd, Places
  <2>2. PICK p \in Pids : Goes(p, "open")
    <3> DEFINE p == CHOOSE q \in Pids : proc[q] = "unused"
    <3>1. p \in Pids
      BY <1>28, Zenon DEF Launch
    <3>2. Goes(p, "open")
      BY <1>28 DEF Launch
    <3> QED BY <3>1, <3>2
  <2> QED BY <1>28, <2>1, <2>2 DEF Launch, Goes, CmdOK, Cmd, Places
<1>29. ASSUME NEW c \in Commands, KillRecorded(c) PROVE TypeOK'
  <2>1. CmdOK'
    BY <1>29, <1>b, FinishOK DEF KillRecorded
  <2>2. ASSUME NEW p \in Pids, Killed(p) PROVE TypeOK'
    BY <1>29, <2>1, <2>2 DEF KillRecorded, CmdOK, Cmd, Places, Killed, Free, Goes
  <2>3. ASSUME NEW p \in Pids, Flagged(p) PROVE TypeOK'
    BY <1>29, <2>1, <2>3 DEF KillRecorded, CmdOK, Cmd, Places, Flagged
  <2>4. CASE UNCHANGED <<memory, proc, hit, unclean>>
    BY <1>29, <2>1, <2>4 DEF KillRecorded, CmdOK, Cmd, Places
  <2> QED BY <1>29, <2>2, <2>3, <2>4, KillCases
<1>30. ASSUME NEW c \in Commands, ReadPidfile(c) PROVE TypeOK'
  <2>a. cmd[c] \in Cmd
    BY <1>b DEF CmdOK
  <2>1. [[cmd[c] EXCEPT !.at = "check"] EXCEPT !.pid = pidfile] \in Cmd
    BY <2>a DEF Cmd, Places
  <2>2. CmdOK'
    BY <1>30, <1>b, <2>1 DEF ReadPidfile, CmdOK, Cmd, Places
  <2> QED BY <1>30, <2>2 DEF ReadPidfile, CmdOK, Cmd, Places
<1>31. ASSUME NEW c \in Commands, CheckRecorded(c) PROVE TypeOK'
  <2>1. CmdOK'
    BY <1>31, <1>b, StepOK, FinishOK DEF CheckRecorded
  <2> QED BY <1>31, <2>1 DEF CheckRecorded, CmdOK, Cmd, Places
<1>32. ASSUME NEW p \in Pids, OpenFails(p) PROVE TypeOK'
  BY <1>32 DEF OpenFails, Goes
<1>33. ASSUME NEW p \in Pids, GiveUp(p) PROVE TypeOK'
  BY <1>33 DEF GiveUp, Die, Free, HangUp, Goes
<1> QED BY <1>1, <1>2, <1>3, <1>4, <1>5, <1>6, <1>7, <1>8, <1>9, <1>10, <1>11, <1>12, <1>13,
        <1>14, <1>15, <1>16, <1>17, <1>18, <1>19, <1>20, <1>21, <1>22, <1>23, <1>24, <1>25,
        <1>26, <1>27, <1>28, <1>29, <1>30, <1>31, <1>32, <1>33 DEF Next, Daemon, Command

-----------------------------------------------------------------------------
(* The migrations *)

LEMMA SeenNext == TypeOK /\ SeenBehind /\ Next => SeenBehind'
<1> SUFFICES ASSUME TypeOK, SeenBehind, Next PROVE SeenBehind'
  OBVIOUS
<1> USE LifecycleAssumption DEF LifecycleAssumption, TypeOK, SeenBehind, files, data, memory,
       history, bounds
<1>1. ASSUME NEW p \in Pids, OpenDatabase(p) PROVE SeenBehind'
  BY <1>1 DEF OpenDatabase, Goes
<1>2. ASSUME NEW p \in Pids, Migrate(p) PROVE SeenBehind'
  BY <1>2 DEF Migrate, Goes
<1>3. ASSUME NEW p \in Pids, MigrationFails(p) PROVE SeenBehind'
  BY <1>3 DEF MigrationFails, Goes
<1>4. ASSUME NEW p \in Pids, Daemonize(p) PROVE SeenBehind'
  BY <1>4 DEF Daemonize, Goes
<1>5. ASSUME NEW p \in Pids, Register(p) PROVE SeenBehind'
  BY <1>5 DEF Register, Goes
<1>6. ASSUME NEW p \in Pids, ProbeExists(p) PROVE SeenBehind'
  BY <1>6 DEF ProbeExists, Goes
<1>7. ASSUME NEW p \in Pids, LiveDaemon(p) PROVE SeenBehind'
  BY <1>7 DEF LiveDaemon, Die, Free, HangUp, Goes, Reachable
<1>8. ASSUME NEW p \in Pids, StaleSocket(p) PROVE SeenBehind'
  BY <1>8 DEF StaleSocket, Goes, Reachable
<1>9. ASSUME NEW p \in Pids, Unlink(p) PROVE SeenBehind'
  BY <1>9 DEF Unlink, Goes
<1>10. ASSUME NEW p \in Pids, Bind(p) PROVE SeenBehind'
  BY <1>10 DEF Bind, Goes
<1>11. ASSUME NEW p \in Pids, BindFails(p) PROVE SeenBehind'
  BY <1>11 DEF BindFails, Die, Free, HangUp, Goes
<1>12. ASSUME NEW p \in Pids, Listen(p) PROVE SeenBehind'
  BY <1>12 DEF Listen, Goes
<1>13. ASSUME NEW p \in Pids, ScanDone(p) PROVE SeenBehind'
  BY <1>13 DEF ScanDone, Goes
<1>14. ASSUME NEW p \in Pids, CloseSocket(p) PROVE SeenBehind'
  BY <1>14 DEF CloseSocket, HangUp, Goes
<1>15. ASSUME NEW p \in Pids, UnlinkOwn(p) PROVE SeenBehind'
  BY <1>15 DEF UnlinkOwn, Goes
<1>16. ASSUME NEW p \in Pids, WriteStopped(p) PROVE SeenBehind'
  BY <1>16 DEF WriteStopped, Goes
<1>17. ASSUME NEW p \in Pids, RemovePidfile(p) PROVE SeenBehind'
  BY <1>17 DEF RemovePidfile, Goes, Free
<1>18. ASSUME NEW p \in Pids, LeaveLoop(p) PROVE SeenBehind'
  BY <1>18 DEF LeaveLoop, Goes
<1>19. ASSUME NEW p \in Pids, Crash(p) PROVE SeenBehind'
  BY <1>19 DEF Crash, Die, Free, HangUp, Goes, IsProcessAlive
<1>20. ASSUME NEW p \in Pids, Reuse(p) PROVE SeenBehind'
  BY <1>20 DEF Reuse, Goes
<1>21. ASSUME NEW p \in Pids, NEW c \in Commands, Serve(p, c) PROVE SeenBehind'
  BY <1>21 DEF Serve
<1>22. ASSUME NEW c \in Commands, AlreadyRunning(c) \/ ForkFails(c) \/ PollSocket(c) \/
            Connect(c) \/ NotConnected(c) \/ ReadPidfile(c) \/ CheckRecorded(c)
     PROVE  SeenBehind'
  BY <1>22 DEF AlreadyRunning, ForkFails, PollSocket, Connect, NotConnected, Reachable, Step,
               Finish, ReadPidfile, CheckRecorded
<1>23. ASSUME NEW c \in Commands, NEW op \in Ops, RunCommand(c, op) PROVE SeenBehind'
  BY <1>23 DEF RunCommand
<1>24. ASSUME NEW c \in Commands, Launch(c) PROVE SeenBehind'
  BY <1>24 DEF Launch, Goes, Step
<1>25. ASSUME NEW c \in Commands, KillRecorded(c) PROVE SeenBehind'
  <2>1. ASSUME NEW p \in Pids, Killed(p) PROVE SeenBehind'
    BY <1>25, <2>1 DEF KillRecorded, Killed, Free, Goes
  <2>2. ASSUME NEW p \in Pids, Flagged(p) PROVE SeenBehind'
    BY <1>25, <2>2 DEF KillRecorded, Flagged
  <2>3. CASE UNCHANGED <<memory, proc, hit, unclean>>
    BY <1>25, <2>3 DEF KillRecorded
  <2> QED BY <1>25, <2>1, <2>2, <2>3, KillCases
<1>26. ASSUME NEW p \in Pids, OpenFails(p) PROVE SeenBehind'
  BY <1>26 DEF OpenFails, Goes
<1>27. ASSUME NEW p \in Pids, GiveUp(p) PROVE SeenBehind'
  BY <1>27 DEF GiveUp, Die, Free, HangUp, Goes
<1> QED BY <1>1, <1>2, <1>3, <1>4, <1>5, <1>6, <1>7, <1>8, <1>9, <1>10, <1>11, <1>12, <1>13,
        <1>14, <1>15, <1>16, <1>17, <1>18, <1>19, <1>20, <1>21, <1>22, <1>23, <1>24, <1>25,
        <1>26, <1>27 DEF Next, Daemon, Command

LEMMA SchemaNext == TypeOK /\ SeenBehind /\ SchemaOnce /\ Next => SchemaOnce'
<1> SUFFICES ASSUME TypeOK, SeenBehind, SchemaOnce, Next PROVE SchemaOnce'
  OBVIOUS
<1> USE LifecycleAssumption DEF LifecycleAssumption, TypeOK, SeenBehind, SchemaOnce, Binding,
       Running, Leaving, files, data, memory, history, bounds
<1>1. ASSUME NEW p \in Pids, OpenDatabase(p) PROVE SchemaOnce'
  BY <1>1 DEF OpenDatabase, Goes
<1>2. ASSUME NEW p \in Pids, Migrate(p) PROVE SchemaOnce'
  BY <1>2 DEF Migrate, Goes
<1>3. ASSUME NEW p \in Pids, MigrationFails(p) PROVE SchemaOnce'
  BY <1>3 DEF MigrationFails, Goes
<1>4. ASSUME NEW p \in Pids, Daemonize(p) PROVE SchemaOnce'
  BY <1>4 DEF Daemonize, Goes
<1>5. ASSUME NEW p \in Pids, Register(p) PROVE SchemaOnce'
  BY <1>5 DEF Register, Goes
<1>6. ASSUME NEW p \in Pids, ProbeExists(p) PROVE SchemaOnce'
  BY <1>6 DEF ProbeExists, Goes
<1>7. ASSUME NEW p \in Pids, LiveDaemon(p) PROVE SchemaOnce'
  BY <1>7 DEF LiveDaemon, Die, Free, HangUp, Goes, Reachable
<1>8. ASSUME NEW p \in Pids, StaleSocket(p) PROVE SchemaOnce'
  BY <1>8 DEF StaleSocket, Goes, Reachable
<1>9. ASSUME NEW p \in Pids, Unlink(p) PROVE SchemaOnce'
  BY <1>9 DEF Unlink, Goes
<1>10. ASSUME NEW p \in Pids, Bind(p) PROVE SchemaOnce'
  BY <1>10 DEF Bind, Goes
<1>11. ASSUME NEW p \in Pids, BindFails(p) PROVE SchemaOnce'
  BY <1>11 DEF BindFails, Die, Free, HangUp, Goes
<1>12. ASSUME NEW p \in Pids, Listen(p) PROVE SchemaOnce'
  BY <1>12 DEF Listen, Goes
<1>13. ASSUME NEW p \in Pids, ScanDone(p) PROVE SchemaOnce'
  BY <1>13 DEF ScanDone, Goes
<1>14. ASSUME NEW p \in Pids, CloseSocket(p) PROVE SchemaOnce'
  BY <1>14 DEF CloseSocket, HangUp, Goes
<1>15. ASSUME NEW p \in Pids, UnlinkOwn(p) PROVE SchemaOnce'
  BY <1>15 DEF UnlinkOwn, Goes
<1>16. ASSUME NEW p \in Pids, WriteStopped(p) PROVE SchemaOnce'
  BY <1>16 DEF WriteStopped, Goes
<1>17. ASSUME NEW p \in Pids, RemovePidfile(p) PROVE SchemaOnce'
  BY <1>17 DEF RemovePidfile, Goes, Free
<1>18. ASSUME NEW p \in Pids, LeaveLoop(p) PROVE SchemaOnce'
  BY <1>18 DEF LeaveLoop, Goes
<1>19. ASSUME NEW p \in Pids, Crash(p) PROVE SchemaOnce'
  BY <1>19 DEF Crash, Die, Free, HangUp, Goes, IsProcessAlive
<1>20. ASSUME NEW p \in Pids, Reuse(p) PROVE SchemaOnce'
  BY <1>20 DEF Reuse, Goes
<1>21. ASSUME NEW p \in Pids, NEW c \in Commands, Serve(p, c) PROVE SchemaOnce'
  BY <1>21 DEF Serve
<1>22. ASSUME NEW c \in Commands, AlreadyRunning(c) \/ ForkFails(c) \/ PollSocket(c) \/
            Connect(c) \/ NotConnected(c) \/ ReadPidfile(c) \/ CheckRecorded(c)
     PROVE  SchemaOnce'
  BY <1>22 DEF AlreadyRunning, ForkFails, PollSocket, Connect, NotConnected, Reachable, Step,
               Finish, ReadPidfile, CheckRecorded
<1>23. ASSUME NEW c \in Commands, NEW op \in Ops, RunCommand(c, op) PROVE SchemaOnce'
  BY <1>23 DEF RunCommand
<1>24. ASSUME NEW c \in Commands, Launch(c) PROVE SchemaOnce'
  BY <1>24 DEF Launch, Goes, Step
<1>25. ASSUME NEW c \in Commands, KillRecorded(c) PROVE SchemaOnce'
  <2>1. ASSUME NEW p \in Pids, Killed(p) PROVE SchemaOnce'
    BY <1>25, <2>1 DEF KillRecorded, Killed, Free, Goes
  <2>2. ASSUME NEW p \in Pids, Flagged(p) PROVE SchemaOnce'
    BY <1>25, <2>2 DEF KillRecorded, Flagged
  <2>3. CASE UNCHANGED <<memory, proc, hit, unclean>>
    BY <1>25, <2>3 DEF KillRecorded
  <2> QED BY <1>25, <2>1, <2>2, <2>3, KillCases
<1>26. ASSUME NEW p \in Pids, OpenFails(p) PROVE SchemaOnce'
  BY <1>26 DEF OpenFails, Goes
<1>27. ASSUME NEW p \in Pids, GiveUp(p) PROVE SchemaOnce'
  BY <1>27 DEF GiveUp, Die, Free, HangUp, Goes
<1> QED BY <1>1, <1>2, <1>3, <1>4, <1>5, <1>6, <1>7, <1>8, <1>9, <1>10, <1>11, <1>12, <1>13,
        <1>14, <1>15, <1>16, <1>17, <1>18, <1>19, <1>20, <1>21, <1>22, <1>23, <1>24, <1>25,
        <1>26, <1>27 DEF Next, Daemon, Command

-----------------------------------------------------------------------------
(* The pid file and the status file *)

LEMMA LostPidNext == TypeOK /\ LostPid /\ Next => LostPid'
<1> SUFFICES ASSUME TypeOK, LostPid, Next PROVE LostPid'
  OBVIOUS
<1> USE LifecycleAssumption DEF LifecycleAssumption, TypeOK, LostPid, Binding, Running, Leaving,
       files, data, memory, history, bounds
<1>1. ASSUME NEW p \in Pids, OpenDatabase(p) PROVE LostPid'
  BY <1>1 DEF OpenDatabase, Goes
<1>2. ASSUME NEW p \in Pids, Migrate(p) PROVE LostPid'
  BY <1>2 DEF Migrate, Goes
<1>3. ASSUME NEW p \in Pids, MigrationFails(p) PROVE LostPid'
  BY <1>3 DEF MigrationFails, Goes
<1>4. ASSUME NEW p \in Pids, Daemonize(p) PROVE LostPid'
  BY <1>4 DEF Daemonize, Goes
<1>5. ASSUME NEW p \in Pids, Register(p) PROVE LostPid'
  BY <1>5 DEF Register, Goes
<1>6. ASSUME NEW p \in Pids, ProbeExists(p) PROVE LostPid'
  BY <1>6 DEF ProbeExists, Goes
<1>7. ASSUME NEW p \in Pids, LiveDaemon(p) PROVE LostPid'
  BY <1>7 DEF LiveDaemon, Die, Free, HangUp, Goes, Reachable
<1>8. ASSUME NEW p \in Pids, StaleSocket(p) PROVE LostPid'
  BY <1>8 DEF StaleSocket, Goes, Reachable
<1>9. ASSUME NEW p \in Pids, Unlink(p) PROVE LostPid'
  BY <1>9 DEF Unlink, Goes
<1>10. ASSUME NEW p \in Pids, Bind(p) PROVE LostPid'
  BY <1>10 DEF Bind, Goes
<1>11. ASSUME NEW p \in Pids, BindFails(p) PROVE LostPid'
  BY <1>11 DEF BindFails, Die, Free, HangUp, Goes
<1>12. ASSUME NEW p \in Pids, Listen(p) PROVE LostPid'
  BY <1>12 DEF Listen, Goes
<1>13. ASSUME NEW p \in Pids, ScanDone(p) PROVE LostPid'
  BY <1>13 DEF ScanDone, Goes
<1>14. ASSUME NEW p \in Pids, CloseSocket(p) PROVE LostPid'
  BY <1>14 DEF CloseSocket, HangUp, Goes
<1>15. ASSUME NEW p \in Pids, UnlinkOwn(p) PROVE LostPid'
  BY <1>15 DEF UnlinkOwn, Goes
<1>16. ASSUME NEW p \in Pids, WriteStopped(p) PROVE LostPid'
  BY <1>16 DEF WriteStopped, Goes
<1>17. ASSUME NEW p \in Pids, RemovePidfile(p) PROVE LostPid'
  BY <1>17 DEF RemovePidfile, Goes, Free
<1>18. ASSUME NEW p \in Pids, LeaveLoop(p) PROVE LostPid'
  BY <1>18 DEF LeaveLoop, Goes
<1>19. ASSUME NEW p \in Pids, Crash(p) PROVE LostPid'
  BY <1>19 DEF Crash, Die, Free, HangUp, Goes, IsProcessAlive
<1>20. ASSUME NEW p \in Pids, Reuse(p) PROVE LostPid'
  BY <1>20 DEF Reuse, Goes
<1>21. ASSUME NEW p \in Pids, NEW c \in Commands, Serve(p, c) PROVE LostPid'
  BY <1>21 DEF Serve
<1>22. ASSUME NEW c \in Commands, AlreadyRunning(c) \/ ForkFails(c) \/ PollSocket(c) \/
            Connect(c) \/ NotConnected(c) \/ ReadPidfile(c) \/ CheckRecorded(c)
     PROVE  LostPid'
  BY <1>22 DEF AlreadyRunning, ForkFails, PollSocket, Connect, NotConnected, Reachable, Step,
               Finish, ReadPidfile, CheckRecorded
<1>23. ASSUME NEW c \in Commands, NEW op \in Ops, RunCommand(c, op) PROVE LostPid'
  BY <1>23 DEF RunCommand
<1>24. ASSUME NEW c \in Commands, Launch(c) PROVE LostPid'
  BY <1>24 DEF Launch, Goes, Step
<1>25. ASSUME NEW c \in Commands, KillRecorded(c) PROVE LostPid'
  <2>1. ASSUME NEW p \in Pids, Killed(p) PROVE LostPid'
    BY <1>25, <2>1 DEF KillRecorded, Killed, Free, Goes
  <2>2. ASSUME NEW p \in Pids, Flagged(p) PROVE LostPid'
    BY <1>25, <2>2 DEF KillRecorded, Flagged
  <2>3. CASE UNCHANGED <<memory, proc, hit, unclean>>
    BY <1>25, <2>3 DEF KillRecorded
  <2> QED BY <1>25, <2>1, <2>2, <2>3, KillCases
<1>26. ASSUME NEW p \in Pids, OpenFails(p) PROVE LostPid'
  BY <1>26 DEF OpenFails, Goes
<1>27. ASSUME NEW p \in Pids, GiveUp(p) PROVE LostPid'
  BY <1>27 DEF GiveUp, Die, Free, HangUp, Goes
<1> QED BY <1>1, <1>2, <1>3, <1>4, <1>5, <1>6, <1>7, <1>8, <1>9, <1>10, <1>11, <1>12, <1>13,
        <1>14, <1>15, <1>16, <1>17, <1>18, <1>19, <1>20, <1>21, <1>22, <1>23, <1>24, <1>25,
        <1>26, <1>27 DEF Next, Daemon, Command

\* A step that changes the place or the pid of one command, and makes nobody a stranger.
LEMMA HeldStep ==
  ASSUME HeldPid, KillsOnStop, NEW c \in Commands,
         \A d \in Commands \ {c} : cmd'[d] = cmd[d],
         \/ cmd'[c].op = cmd[c].op /\ cmd'[c].pid = cmd[c].pid
         \/ \A p \in Pids : cmd'[c].pid = p /\ proc'[p] = "foreign" => p \in unclean,
         cmd'[c].at = "kill" => cmd'[c].op = "stop",
         UNCHANGED <<unclean, overtaken>>,
         \A p \in Pids : proc'[p] = "foreign" => proc[p] = "foreign"
  PROVE  (HeldPid /\ KillsOnStop)'
<1>1. ASSUME NEW d \in Commands, NEW p \in Pids, cmd'[d].op = "stop", cmd'[d].pid = p,
             proc'[p] = "foreign"
      PROVE  p \in unclean' \cup overtaken'
  <2>1. CASE d = c
    BY <1>1, <2>1 DEF HeldPid
  <2>2. CASE d # c
    BY <1>1, <2>2 DEF HeldPid
  <2> QED BY <2>1, <2>2
<1>2. ASSUME NEW d \in Commands, cmd'[d].at = "kill" PROVE cmd'[d].op = "stop"
  <2>1. CASE d = c
    BY <1>2, <2>1
  <2>2. CASE d # c
    BY <1>2, <2>2 DEF KillsOnStop
  <2> QED BY <2>1, <2>2
<1> QED BY <1>1, <1>2 DEF HeldPid, KillsOnStop

LEMMA HeldNext ==
  TypeOK /\ LostPid /\ HeldPid /\ KillsOnStop /\ Next => (HeldPid /\ KillsOnStop)'
<1> SUFFICES ASSUME TypeOK, LostPid, HeldPid, KillsOnStop, Next
             PROVE  (HeldPid /\ KillsOnStop)'
  OBVIOUS
<1> USE LifecycleAssumption DEF LifecycleAssumption, TypeOK, LostPid, HeldPid, KillsOnStop, Idle,
       Binding, Running, Leaving, files, data, memory, history, bounds
<1>1. ASSUME NEW p \in Pids, OpenDatabase(p) PROVE (HeldPid /\ KillsOnStop)'
  BY <1>1 DEF OpenDatabase, Goes
<1>2. ASSUME NEW p \in Pids, Migrate(p) PROVE (HeldPid /\ KillsOnStop)'
  BY <1>2 DEF Migrate, Goes
<1>3. ASSUME NEW p \in Pids, MigrationFails(p) PROVE (HeldPid /\ KillsOnStop)'
  BY <1>3 DEF MigrationFails, Goes
<1>4. ASSUME NEW p \in Pids, Daemonize(p) PROVE (HeldPid /\ KillsOnStop)'
  BY <1>4 DEF Daemonize, Goes
<1>5. ASSUME NEW p \in Pids, Register(p) PROVE (HeldPid /\ KillsOnStop)'
  BY <1>5 DEF Register, Goes
<1>6. ASSUME NEW p \in Pids, ProbeExists(p) PROVE (HeldPid /\ KillsOnStop)'
  BY <1>6 DEF ProbeExists, Goes
<1>7. ASSUME NEW p \in Pids, LiveDaemon(p) PROVE (HeldPid /\ KillsOnStop)'
  BY <1>7 DEF LiveDaemon, Die, Free, HangUp, Goes, Reachable
<1>8. ASSUME NEW p \in Pids, StaleSocket(p) PROVE (HeldPid /\ KillsOnStop)'
  BY <1>8 DEF StaleSocket, Goes, Reachable
<1>9. ASSUME NEW p \in Pids, Unlink(p) PROVE (HeldPid /\ KillsOnStop)'
  BY <1>9 DEF Unlink, Goes
<1>10. ASSUME NEW p \in Pids, Bind(p) PROVE (HeldPid /\ KillsOnStop)'
  BY <1>10 DEF Bind, Goes
<1>11. ASSUME NEW p \in Pids, BindFails(p) PROVE (HeldPid /\ KillsOnStop)'
  BY <1>11 DEF BindFails, Die, Free, HangUp, Goes
<1>12. ASSUME NEW p \in Pids, Listen(p) PROVE (HeldPid /\ KillsOnStop)'
  BY <1>12 DEF Listen, Goes
<1>13. ASSUME NEW p \in Pids, ScanDone(p) PROVE (HeldPid /\ KillsOnStop)'
  BY <1>13 DEF ScanDone, Goes
<1>14. ASSUME NEW p \in Pids, CloseSocket(p) PROVE (HeldPid /\ KillsOnStop)'
  BY <1>14 DEF CloseSocket, HangUp, Goes
<1>15. ASSUME NEW p \in Pids, UnlinkOwn(p) PROVE (HeldPid /\ KillsOnStop)'
  BY <1>15 DEF UnlinkOwn, Goes
<1>16. ASSUME NEW p \in Pids, WriteStopped(p) PROVE (HeldPid /\ KillsOnStop)'
  BY <1>16 DEF WriteStopped, Goes
<1>17. ASSUME NEW p \in Pids, RemovePidfile(p) PROVE (HeldPid /\ KillsOnStop)'
  BY <1>17 DEF RemovePidfile, Goes, Free
<1>18. ASSUME NEW p \in Pids, LeaveLoop(p) PROVE (HeldPid /\ KillsOnStop)'
  BY <1>18 DEF LeaveLoop, Goes
<1>19. ASSUME NEW p \in Pids, Crash(p) PROVE (HeldPid /\ KillsOnStop)'
  BY <1>19 DEF Crash, Die, Free, HangUp, Goes, IsProcessAlive
<1>20. ASSUME NEW p \in Pids, Reuse(p) PROVE (HeldPid /\ KillsOnStop)'
  BY <1>20 DEF Reuse, Goes
<1>21. ASSUME NEW p \in Pids, NEW c \in Commands, Serve(p, c) PROVE (HeldPid /\ KillsOnStop)'
  BY <1>21 DEF Serve
<1>b. CmdOK
  BY DEF CmdOK, Cmd, Places
<1>22. ASSUME NEW c \in Commands,
            AlreadyRunning(c) \/ ForkFails(c) \/ PollSocket(c) \/ Connect(c) \/ NotConnected(c)
              \/ ReadPidfile(c) \/ CheckRecorded(c)
     PROVE  (HeldPid /\ KillsOnStop)'
  <2>1. CASE Finish(c) /\ UNCHANGED <<proc, unclean, overtaken>>
    BY <2>1 DEF Finish
  <2>2. ASSUME NEW where \in {"connect", "read"}, Step(c, where),
               UNCHANGED <<proc, unclean, overtaken>>
        PROVE  (HeldPid /\ KillsOnStop)'
    BY <2>2, <1>b, StepFields, HeldStep
  <2>3. CASE CheckRecorded(c) /\ Step(c, "kill")
    <3>1. /\ cmd'[c].at = "kill" /\ cmd'[c].pid = cmd[c].pid /\ cmd'[c].op = cmd[c].op
          /\ \A d \in Commands \ {c} : cmd'[d] = cmd[d]
      BY <2>3, <1>b, StepFields
    <3>2. cmd[c].op = "stop" /\ UNCHANGED <<proc, unclean, overtaken>>
      BY <2>3 DEF CheckRecorded
    <3> QED BY <3>1, <3>2, HeldStep
  <2>4. CASE Connect(c)
    <3>1. cmd'[c].pid = cmd[c].pid /\ cmd'[c].op = cmd[c].op /\ cmd'[c].at = "wait"
      BY <2>4, <1>b, RecordFields DEF Connect, CmdOK
    <3>2. \A d \in Commands \ {c} : cmd'[d] = cmd[d]
      BY <2>4, <1>b DEF Connect, CmdOK
    <3> QED BY <2>4, <3>1, <3>2, HeldStep DEF Connect
  <2>5. CASE ReadPidfile(c)
    <3>1. cmd'[c].pid = pidfile /\ cmd'[c].op = cmd[c].op /\ cmd'[c].at = "check"
      BY <2>5, <1>b, RecordFields DEF ReadPidfile, CmdOK
    <3>2. \A d \in Commands \ {c} : cmd'[d] = cmd[d]
      BY <2>5, <1>b DEF ReadPidfile, CmdOK
    <3>3. \A p \in Pids : cmd'[c].pid = p /\ proc'[p] = "foreign" => p \in unclean
      BY <2>5, <3>1 DEF ReadPidfile
    <3> QED BY <2>5, <3>1, <3>2, <3>3, HeldStep DEF ReadPidfile
  <2> QED BY <1>22, <2>1, <2>2, <2>3, <2>4, <2>5 DEF AlreadyRunning, ForkFails, PollSocket,
             NotConnected, CheckRecorded
<1>23. ASSUME NEW c \in Commands, NEW op \in Ops, RunCommand(c, op) PROVE (HeldPid /\ KillsOnStop)'
  BY <1>23 DEF RunCommand
<1>24. ASSUME NEW c \in Commands, Launch(c) PROVE (HeldPid /\ KillsOnStop)'
  <2>1. cmd'[c].pid = None /\ cmd'[c].at = "poll"
    BY <1>24, <1>b, RecordFields DEF Launch, CmdOK
  <2>2. \A d \in Commands \ {c} : cmd'[d] = cmd[d]
    BY <1>24, <1>b DEF Launch, CmdOK
  <2>3. \A p \in Pids : proc'[p] = "foreign" => proc[p] = "foreign"
    BY <1>24 DEF Launch, Goes
  <2>4. \A p \in Pids : cmd'[c].pid = p /\ proc'[p] = "foreign" => p \in unclean
    BY <2>1
  <2>5. UNCHANGED <<unclean, overtaken>>
    BY <1>24 DEF Launch
  <2> QED BY <2>1, <2>2, <2>3, <2>4, <2>5, HeldStep
<1>25. ASSUME NEW c \in Commands, KillRecorded(c) PROVE (HeldPid /\ KillsOnStop)'
  <2>1. ASSUME NEW p \in Pids, Killed(p) PROVE (HeldPid /\ KillsOnStop)'
    BY <1>25, <2>1 DEF KillRecorded, Killed, Free, Goes, Finish
  <2>2. ASSUME NEW p \in Pids, Flagged(p) PROVE (HeldPid /\ KillsOnStop)'
    BY <1>25, <2>2 DEF KillRecorded, Flagged, Finish
  <2>3. CASE UNCHANGED <<memory, proc, hit, unclean>>
    BY <1>25, <2>3 DEF KillRecorded, Finish
  <2> QED BY <1>25, <2>1, <2>2, <2>3, KillCases
<1>26. ASSUME NEW p \in Pids, OpenFails(p) PROVE (HeldPid /\ KillsOnStop)'
  BY <1>26 DEF OpenFails, Goes
<1>27. ASSUME NEW p \in Pids, GiveUp(p) PROVE (HeldPid /\ KillsOnStop)'
  BY <1>27 DEF GiveUp, Die, Free, HangUp, Goes
<1> QED BY <1>1, <1>2, <1>3, <1>4, <1>5, <1>6, <1>7, <1>8, <1>9, <1>10, <1>11, <1>12, <1>13,
        <1>14, <1>15, <1>16, <1>17, <1>18, <1>19, <1>20, <1>21, <1>22, <1>23, <1>24, <1>25,
        <1>26, <1>27 DEF Next, Daemon, Command

LEMMA HitNext == TypeOK /\ HeldPid /\ KillsOnStop /\ OnlyLostPidsAreHit /\ Next => OnlyLostPidsAreHit'
<1> SUFFICES ASSUME TypeOK, HeldPid, KillsOnStop, OnlyLostPidsAreHit, Next PROVE OnlyLostPidsAreHit'
  OBVIOUS
<1> USE LifecycleAssumption DEF LifecycleAssumption, TypeOK, HeldPid, KillsOnStop, OnlyLostPidsAreHit,
       Binding, Running, Leaving, files, data, memory, history, bounds
<1>1. ASSUME NEW p \in Pids, OpenDatabase(p) PROVE OnlyLostPidsAreHit'
  BY <1>1 DEF OpenDatabase, Goes
<1>2. ASSUME NEW p \in Pids, Migrate(p) PROVE OnlyLostPidsAreHit'
  BY <1>2 DEF Migrate, Goes
<1>3. ASSUME NEW p \in Pids, MigrationFails(p) PROVE OnlyLostPidsAreHit'
  BY <1>3 DEF MigrationFails, Goes
<1>4. ASSUME NEW p \in Pids, Daemonize(p) PROVE OnlyLostPidsAreHit'
  BY <1>4 DEF Daemonize, Goes
<1>5. ASSUME NEW p \in Pids, Register(p) PROVE OnlyLostPidsAreHit'
  BY <1>5 DEF Register, Goes
<1>6. ASSUME NEW p \in Pids, ProbeExists(p) PROVE OnlyLostPidsAreHit'
  BY <1>6 DEF ProbeExists, Goes
<1>7. ASSUME NEW p \in Pids, LiveDaemon(p) PROVE OnlyLostPidsAreHit'
  BY <1>7 DEF LiveDaemon, Die, Free, HangUp, Goes, Reachable
<1>8. ASSUME NEW p \in Pids, StaleSocket(p) PROVE OnlyLostPidsAreHit'
  BY <1>8 DEF StaleSocket, Goes, Reachable
<1>9. ASSUME NEW p \in Pids, Unlink(p) PROVE OnlyLostPidsAreHit'
  BY <1>9 DEF Unlink, Goes
<1>10. ASSUME NEW p \in Pids, Bind(p) PROVE OnlyLostPidsAreHit'
  BY <1>10 DEF Bind, Goes
<1>11. ASSUME NEW p \in Pids, BindFails(p) PROVE OnlyLostPidsAreHit'
  BY <1>11 DEF BindFails, Die, Free, HangUp, Goes
<1>12. ASSUME NEW p \in Pids, Listen(p) PROVE OnlyLostPidsAreHit'
  BY <1>12 DEF Listen, Goes
<1>13. ASSUME NEW p \in Pids, ScanDone(p) PROVE OnlyLostPidsAreHit'
  BY <1>13 DEF ScanDone, Goes
<1>14. ASSUME NEW p \in Pids, CloseSocket(p) PROVE OnlyLostPidsAreHit'
  BY <1>14 DEF CloseSocket, HangUp, Goes
<1>15. ASSUME NEW p \in Pids, UnlinkOwn(p) PROVE OnlyLostPidsAreHit'
  BY <1>15 DEF UnlinkOwn, Goes
<1>16. ASSUME NEW p \in Pids, WriteStopped(p) PROVE OnlyLostPidsAreHit'
  BY <1>16 DEF WriteStopped, Goes
<1>17. ASSUME NEW p \in Pids, RemovePidfile(p) PROVE OnlyLostPidsAreHit'
  BY <1>17 DEF RemovePidfile, Goes, Free
<1>18. ASSUME NEW p \in Pids, LeaveLoop(p) PROVE OnlyLostPidsAreHit'
  BY <1>18 DEF LeaveLoop, Goes
<1>19. ASSUME NEW p \in Pids, Crash(p) PROVE OnlyLostPidsAreHit'
  BY <1>19 DEF Crash, Die, Free, HangUp, Goes, IsProcessAlive
<1>20. ASSUME NEW p \in Pids, Reuse(p) PROVE OnlyLostPidsAreHit'
  BY <1>20 DEF Reuse, Goes
<1>21. ASSUME NEW p \in Pids, NEW c \in Commands, Serve(p, c) PROVE OnlyLostPidsAreHit'
  BY <1>21 DEF Serve
<1>22. ASSUME NEW c \in Commands, AlreadyRunning(c) \/ ForkFails(c) \/ PollSocket(c) \/
            Connect(c) \/ NotConnected(c) \/ ReadPidfile(c) \/ CheckRecorded(c)
     PROVE  OnlyLostPidsAreHit'
  BY <1>22 DEF AlreadyRunning, ForkFails, PollSocket, Connect, NotConnected, Reachable, Step,
               Finish, ReadPidfile, CheckRecorded
<1>23. ASSUME NEW c \in Commands, NEW op \in Ops, RunCommand(c, op) PROVE OnlyLostPidsAreHit'
  BY <1>23 DEF RunCommand
<1>24. ASSUME NEW c \in Commands, Launch(c) PROVE OnlyLostPidsAreHit'
  BY <1>24 DEF Launch, Goes, Step
<1>25. ASSUME NEW c \in Commands, KillRecorded(c) PROVE OnlyLostPidsAreHit'
  <2>1. ASSUME NEW p \in Pids, p = cmd[c].pid, Killed(p) PROVE OnlyLostPidsAreHit'
    BY <1>25, <2>1 DEF KillRecorded, Killed, Free, Goes
  <2>2. ASSUME NEW p \in Pids, Flagged(p) PROVE OnlyLostPidsAreHit'
    BY <1>25, <2>2 DEF KillRecorded, Flagged
  <2>3. CASE UNCHANGED <<memory, proc, hit, unclean>>
    BY <1>25, <2>3 DEF KillRecorded
  <2> QED BY <1>25, <2>1, <2>2, <2>3, KillCases
<1>26. ASSUME NEW p \in Pids, OpenFails(p) PROVE OnlyLostPidsAreHit'
  BY <1>26 DEF OpenFails, Goes
<1>27. ASSUME NEW p \in Pids, GiveUp(p) PROVE OnlyLostPidsAreHit'
  BY <1>27 DEF GiveUp, Die, Free, HangUp, Goes
<1> QED BY <1>1, <1>2, <1>3, <1>4, <1>5, <1>6, <1>7, <1>8, <1>9, <1>10, <1>11, <1>12, <1>13,
        <1>14, <1>15, <1>16, <1>17, <1>18, <1>19, <1>20, <1>21, <1>22, <1>23, <1>24, <1>25,
        <1>26, <1>27 DEF Next, Daemon, Command

LEMMA StatusNext == TypeOK /\ StatusTellsStop /\ Next => StatusTellsStop'
<1> SUFFICES ASSUME TypeOK, StatusTellsStop, Next PROVE StatusTellsStop'
  OBVIOUS
<1> USE LifecycleAssumption DEF LifecycleAssumption, TypeOK, StatusTellsStop, Binding, Running,
       Leaving, files, data, memory, history, bounds
<1>1. ASSUME NEW p \in Pids, OpenDatabase(p) PROVE StatusTellsStop'
  BY <1>1 DEF OpenDatabase, Goes
<1>2. ASSUME NEW p \in Pids, Migrate(p) PROVE StatusTellsStop'
  BY <1>2 DEF Migrate, Goes
<1>3. ASSUME NEW p \in Pids, MigrationFails(p) PROVE StatusTellsStop'
  BY <1>3 DEF MigrationFails, Goes
<1>4. ASSUME NEW p \in Pids, Daemonize(p) PROVE StatusTellsStop'
  BY <1>4 DEF Daemonize, Goes
<1>5. ASSUME NEW p \in Pids, Register(p) PROVE StatusTellsStop'
  BY <1>5 DEF Register, Goes
<1>6. ASSUME NEW p \in Pids, ProbeExists(p) PROVE StatusTellsStop'
  BY <1>6 DEF ProbeExists, Goes
<1>7. ASSUME NEW p \in Pids, LiveDaemon(p) PROVE StatusTellsStop'
  BY <1>7 DEF LiveDaemon, Die, Free, HangUp, Goes, Reachable
<1>8. ASSUME NEW p \in Pids, StaleSocket(p) PROVE StatusTellsStop'
  BY <1>8 DEF StaleSocket, Goes, Reachable
<1>9. ASSUME NEW p \in Pids, Unlink(p) PROVE StatusTellsStop'
  BY <1>9 DEF Unlink, Goes
<1>10. ASSUME NEW p \in Pids, Bind(p) PROVE StatusTellsStop'
  BY <1>10 DEF Bind, Goes
<1>11. ASSUME NEW p \in Pids, BindFails(p) PROVE StatusTellsStop'
  BY <1>11 DEF BindFails, Die, Free, HangUp, Goes
<1>12. ASSUME NEW p \in Pids, Listen(p) PROVE StatusTellsStop'
  BY <1>12 DEF Listen, Goes
<1>13. ASSUME NEW p \in Pids, ScanDone(p) PROVE StatusTellsStop'
  BY <1>13 DEF ScanDone, Goes
<1>14. ASSUME NEW p \in Pids, CloseSocket(p) PROVE StatusTellsStop'
  BY <1>14 DEF CloseSocket, HangUp, Goes
<1>15. ASSUME NEW p \in Pids, UnlinkOwn(p) PROVE StatusTellsStop'
  BY <1>15 DEF UnlinkOwn, Goes
<1>16. ASSUME NEW p \in Pids, WriteStopped(p) PROVE StatusTellsStop'
  BY <1>16 DEF WriteStopped, Goes
<1>17. ASSUME NEW p \in Pids, RemovePidfile(p) PROVE StatusTellsStop'
  BY <1>17 DEF RemovePidfile, Goes, Free
<1>18. ASSUME NEW p \in Pids, LeaveLoop(p) PROVE StatusTellsStop'
  BY <1>18 DEF LeaveLoop, Goes
<1>19. ASSUME NEW p \in Pids, Crash(p) PROVE StatusTellsStop'
  BY <1>19 DEF Crash, Die, Free, HangUp, Goes, IsProcessAlive
<1>20. ASSUME NEW p \in Pids, Reuse(p) PROVE StatusTellsStop'
  BY <1>20 DEF Reuse, Goes
<1>21. ASSUME NEW p \in Pids, NEW c \in Commands, Serve(p, c) PROVE StatusTellsStop'
  BY <1>21 DEF Serve
<1>22. ASSUME NEW c \in Commands, AlreadyRunning(c) \/ ForkFails(c) \/ PollSocket(c) \/
            Connect(c) \/ NotConnected(c) \/ ReadPidfile(c) \/ CheckRecorded(c)
     PROVE  StatusTellsStop'
  BY <1>22 DEF AlreadyRunning, ForkFails, PollSocket, Connect, NotConnected, Reachable, Step,
               Finish, ReadPidfile, CheckRecorded
<1>23. ASSUME NEW c \in Commands, NEW op \in Ops, RunCommand(c, op) PROVE StatusTellsStop'
  BY <1>23 DEF RunCommand
<1>24. ASSUME NEW c \in Commands, Launch(c) PROVE StatusTellsStop'
  BY <1>24 DEF Launch, Goes, Step
<1>25. ASSUME NEW c \in Commands, KillRecorded(c) PROVE StatusTellsStop'
  <2>1. ASSUME NEW p \in Pids, Killed(p) PROVE StatusTellsStop'
    BY <1>25, <2>1 DEF KillRecorded, Killed, Free, Goes
  <2>2. ASSUME NEW p \in Pids, Flagged(p) PROVE StatusTellsStop'
    BY <1>25, <2>2 DEF KillRecorded, Flagged
  <2>3. CASE UNCHANGED <<memory, proc, hit, unclean>>
    BY <1>25, <2>3 DEF KillRecorded
  <2> QED BY <1>25, <2>1, <2>2, <2>3, KillCases
<1>26. ASSUME NEW p \in Pids, OpenFails(p) PROVE StatusTellsStop'
  BY <1>26 DEF OpenFails, Goes
<1>27. ASSUME NEW p \in Pids, GiveUp(p) PROVE StatusTellsStop'
  BY <1>27 DEF GiveUp, Die, Free, HangUp, Goes
<1> QED BY <1>1, <1>2, <1>3, <1>4, <1>5, <1>6, <1>7, <1>8, <1>9, <1>10, <1>11, <1>12, <1>13,
        <1>14, <1>15, <1>16, <1>17, <1>18, <1>19, <1>20, <1>21, <1>22, <1>23, <1>24, <1>25,
        <1>26, <1>27 DEF Next, Daemon, Command

-----------------------------------------------------------------------------
(* The socket *)

LEMMA ListenersNext == TypeOK /\ ListenersServe /\ Next => ListenersServe'
<1> SUFFICES ASSUME TypeOK, ListenersServe, Next PROVE ListenersServe'
  OBVIOUS
<1> USE LifecycleAssumption DEF LifecycleAssumption, TypeOK, ListenersServe, Binding, Running,
       Leaving, files, data, memory, history, bounds
<1>1. ASSUME NEW p \in Pids, OpenDatabase(p) PROVE ListenersServe'
  BY <1>1 DEF OpenDatabase, Goes
<1>2. ASSUME NEW p \in Pids, Migrate(p) PROVE ListenersServe'
  BY <1>2 DEF Migrate, Goes
<1>3. ASSUME NEW p \in Pids, MigrationFails(p) PROVE ListenersServe'
  BY <1>3 DEF MigrationFails, Goes
<1>4. ASSUME NEW p \in Pids, Daemonize(p) PROVE ListenersServe'
  BY <1>4 DEF Daemonize, Goes
<1>5. ASSUME NEW p \in Pids, Register(p) PROVE ListenersServe'
  BY <1>5 DEF Register, Goes
<1>6. ASSUME NEW p \in Pids, ProbeExists(p) PROVE ListenersServe'
  BY <1>6 DEF ProbeExists, Goes
<1>7. ASSUME NEW p \in Pids, LiveDaemon(p) PROVE ListenersServe'
  BY <1>7 DEF LiveDaemon, Die, Free, HangUp, Goes, Reachable
<1>8. ASSUME NEW p \in Pids, StaleSocket(p) PROVE ListenersServe'
  BY <1>8 DEF StaleSocket, Goes, Reachable
<1>9. ASSUME NEW p \in Pids, Unlink(p) PROVE ListenersServe'
  BY <1>9 DEF Unlink, Goes
<1>10. ASSUME NEW p \in Pids, Bind(p) PROVE ListenersServe'
  BY <1>10 DEF Bind, Goes
<1>11. ASSUME NEW p \in Pids, BindFails(p) PROVE ListenersServe'
  BY <1>11 DEF BindFails, Die, Free, HangUp, Goes
<1>12. ASSUME NEW p \in Pids, Listen(p) PROVE ListenersServe'
  BY <1>12 DEF Listen, Goes
<1>13. ASSUME NEW p \in Pids, ScanDone(p) PROVE ListenersServe'
  BY <1>13 DEF ScanDone, Goes
<1>14. ASSUME NEW p \in Pids, CloseSocket(p) PROVE ListenersServe'
  BY <1>14 DEF CloseSocket, HangUp, Goes
<1>15. ASSUME NEW p \in Pids, UnlinkOwn(p) PROVE ListenersServe'
  BY <1>15 DEF UnlinkOwn, Goes
<1>16. ASSUME NEW p \in Pids, WriteStopped(p) PROVE ListenersServe'
  BY <1>16 DEF WriteStopped, Goes
<1>17. ASSUME NEW p \in Pids, RemovePidfile(p) PROVE ListenersServe'
  BY <1>17 DEF RemovePidfile, Goes, Free
<1>18. ASSUME NEW p \in Pids, LeaveLoop(p) PROVE ListenersServe'
  BY <1>18 DEF LeaveLoop, Goes
<1>19. ASSUME NEW p \in Pids, Crash(p) PROVE ListenersServe'
  BY <1>19 DEF Crash, Die, Free, HangUp, Goes, IsProcessAlive
<1>20. ASSUME NEW p \in Pids, Reuse(p) PROVE ListenersServe'
  BY <1>20 DEF Reuse, Goes
<1>21. ASSUME NEW p \in Pids, NEW c \in Commands, Serve(p, c) PROVE ListenersServe'
  BY <1>21 DEF Serve
<1>22. ASSUME NEW c \in Commands, AlreadyRunning(c) \/ ForkFails(c) \/ PollSocket(c) \/
            Connect(c) \/ NotConnected(c) \/ ReadPidfile(c) \/ CheckRecorded(c)
     PROVE  ListenersServe'
  BY <1>22 DEF AlreadyRunning, ForkFails, PollSocket, Connect, NotConnected, Reachable, Step,
               Finish, ReadPidfile, CheckRecorded
<1>23. ASSUME NEW c \in Commands, NEW op \in Ops, RunCommand(c, op) PROVE ListenersServe'
  BY <1>23 DEF RunCommand
<1>24. ASSUME NEW c \in Commands, Launch(c) PROVE ListenersServe'
  BY <1>24 DEF Launch, Goes, Step
<1>25. ASSUME NEW c \in Commands, KillRecorded(c) PROVE ListenersServe'
  <2>1. ASSUME NEW p \in Pids, Killed(p) PROVE ListenersServe'
    BY <1>25, <2>1 DEF KillRecorded, Killed, Free, Goes
  <2>2. ASSUME NEW p \in Pids, Flagged(p) PROVE ListenersServe'
    BY <1>25, <2>2 DEF KillRecorded, Flagged
  <2>3. CASE UNCHANGED <<memory, proc, hit, unclean>>
    BY <1>25, <2>3 DEF KillRecorded
  <2> QED BY <1>25, <2>1, <2>2, <2>3, KillCases
<1>26. ASSUME NEW p \in Pids, OpenFails(p) PROVE ListenersServe'
  BY <1>26 DEF OpenFails, Goes
<1>27. ASSUME NEW p \in Pids, GiveUp(p) PROVE ListenersServe'
  BY <1>27 DEF GiveUp, Die, Free, HangUp, Goes
<1> QED BY <1>1, <1>2, <1>3, <1>4, <1>5, <1>6, <1>7, <1>8, <1>9, <1>10, <1>11, <1>12, <1>13,
        <1>14, <1>15, <1>16, <1>17, <1>18, <1>19, <1>20, <1>21, <1>22, <1>23, <1>24, <1>25,
        <1>26, <1>27 DEF Next, Daemon, Command

LEMMA SocketNext == TypeOK /\ ListenersServe /\ SocketHeld /\ Next => SocketHeld'
<1> SUFFICES ASSUME TypeOK, ListenersServe, SocketHeld, Next PROVE SocketHeld'
  OBVIOUS
<1>w. raced' = (raced \/ Overlap')
  BY DEF Next, Watch
<1> USE <1>w
<1> USE LifecycleAssumption DEF LifecycleAssumption, TypeOK, ListenersServe, SocketHeld,
       Overlap, AtSocket, Binding, Running, Leaving, files, data, memory, history, bounds
<1>1. ASSUME NEW p \in Pids, OpenDatabase(p) PROVE SocketHeld'
  BY <1>1 DEF OpenDatabase, Goes
<1>2. ASSUME NEW p \in Pids, Migrate(p) PROVE SocketHeld'
  BY <1>2 DEF Migrate, Goes
<1>3. ASSUME NEW p \in Pids, MigrationFails(p) PROVE SocketHeld'
  BY <1>3 DEF MigrationFails, Goes
<1>4. ASSUME NEW p \in Pids, Daemonize(p) PROVE SocketHeld'
  BY <1>4 DEF Daemonize, Goes
<1>5. ASSUME NEW p \in Pids, Register(p) PROVE SocketHeld'
  BY <1>5 DEF Register, Goes
<1>6. ASSUME NEW p \in Pids, ProbeExists(p) PROVE SocketHeld'
  BY <1>6 DEF ProbeExists, Goes
<1>7. ASSUME NEW p \in Pids, LiveDaemon(p) PROVE SocketHeld'
  BY <1>7 DEF LiveDaemon, Die, Free, HangUp, Goes, Reachable
<1>8. ASSUME NEW p \in Pids, StaleSocket(p) PROVE SocketHeld'
  BY <1>8 DEF StaleSocket, Goes, Reachable
<1>9. ASSUME NEW p \in Pids, Unlink(p) PROVE SocketHeld'
  BY <1>9 DEF Unlink, Goes
<1>10. ASSUME NEW p \in Pids, Bind(p) PROVE SocketHeld'
  BY <1>10 DEF Bind, Goes
<1>11. ASSUME NEW p \in Pids, BindFails(p) PROVE SocketHeld'
  BY <1>11 DEF BindFails, Die, Free, HangUp, Goes
<1>12. ASSUME NEW p \in Pids, Listen(p) PROVE SocketHeld'
  <2>1. SUFFICES ASSUME ~raced' PROVE SocketHeld'
    OBVIOUS
  <2>0. ~raced /\ ~Overlap'
    BY <1>w, <2>1, Zenon
  <2>a. proc[p] = "listen" /\ listening' = listening \cup {p} /\ sock' = sock
    BY <1>12 DEF Listen
  <2>b. sock = p
    BY <2>a, <2>0
  <2>c. listening = {}
    BY <2>a, <2>0
  <2>2. sock = p /\ listening = {} /\ listening' = {p} /\ sock' = sock
    BY <2>a, <2>b, <2>c
  <2>3. \A q \in Pids \ {p} : proc'[q] = proc[q] /\ ~AtSocket(q)
    BY <1>12, <2>0 DEF Listen, Goes
  <2>4. proc'[p] = "scan"
    BY <1>12 DEF Listen, Goes
  <2> QED BY <2>0, <2>2, <2>3, <2>4
<1>13. ASSUME NEW p \in Pids, ScanDone(p) PROVE SocketHeld'
  BY <1>13 DEF ScanDone, Goes
<1>14. ASSUME NEW p \in Pids, CloseSocket(p) PROVE SocketHeld'
  <2>1. SUFFICES ASSUME ~raced' PROVE SocketHeld'
    OBVIOUS
  <2>0. ~raced /\ ~Overlap'
    BY <1>w, <2>1, Zenon
  <2>2. p \in listening /\ listening = {p}
    BY <1>14, <2>0 DEF CloseSocket
  <2>a. listening' = {}
    BY <1>14, <2>2 DEF CloseSocket
  <2>3. listening' = {} /\ \A q \in Pids : proc[q] # "listen"
    BY <2>a, <2>0, <2>2
  <2>4. proc'[p] = "unlinkOwn" /\ \A q \in Pids \ {p} : proc'[q] = proc[q]
    BY <1>14 DEF CloseSocket, Goes
  <2> QED BY <2>0, <2>2, <2>3, <2>4
<1>15. ASSUME NEW p \in Pids, UnlinkOwn(p) PROVE SocketHeld'
  BY <1>15 DEF UnlinkOwn, Goes
<1>16. ASSUME NEW p \in Pids, WriteStopped(p) PROVE SocketHeld'
  BY <1>16 DEF WriteStopped, Goes
<1>17. ASSUME NEW p \in Pids, RemovePidfile(p) PROVE SocketHeld'
  BY <1>17 DEF RemovePidfile, Goes, Free
<1>18. ASSUME NEW p \in Pids, LeaveLoop(p) PROVE SocketHeld'
  BY <1>18 DEF LeaveLoop, Goes
<1>19. ASSUME NEW p \in Pids, Crash(p) PROVE SocketHeld'
  BY <1>19 DEF Crash, Die, Free, HangUp, Goes, IsProcessAlive
<1>20. ASSUME NEW p \in Pids, Reuse(p) PROVE SocketHeld'
  BY <1>20 DEF Reuse, Goes
<1>21. ASSUME NEW p \in Pids, NEW c \in Commands, Serve(p, c) PROVE SocketHeld'
  BY <1>21 DEF Serve
<1>22. ASSUME NEW c \in Commands, AlreadyRunning(c) \/ ForkFails(c) \/ PollSocket(c) \/
            Connect(c) \/ NotConnected(c) \/ ReadPidfile(c) \/ CheckRecorded(c)
     PROVE  SocketHeld'
  BY <1>22 DEF AlreadyRunning, ForkFails, PollSocket, Connect, NotConnected, Reachable, Step,
               Finish, ReadPidfile, CheckRecorded
<1>23. ASSUME NEW c \in Commands, NEW op \in Ops, RunCommand(c, op) PROVE SocketHeld'
  BY <1>23 DEF RunCommand
<1>24. ASSUME NEW c \in Commands, Launch(c) PROVE SocketHeld'
  BY <1>24 DEF Launch, Goes, Step
<1>25. ASSUME NEW c \in Commands, KillRecorded(c) PROVE SocketHeld'
  <2>1. ASSUME NEW p \in Pids, Killed(p) PROVE SocketHeld'
    BY <1>25, <2>1 DEF KillRecorded, Killed, Free, Goes
  <2>2. ASSUME NEW p \in Pids, Flagged(p) PROVE SocketHeld'
    BY <1>25, <2>2 DEF KillRecorded, Flagged
  <2>3. CASE UNCHANGED <<memory, proc, hit, unclean>>
    BY <1>25, <2>3 DEF KillRecorded
  <2> QED BY <1>25, <2>1, <2>2, <2>3, KillCases
<1>26. ASSUME NEW p \in Pids, OpenFails(p) PROVE SocketHeld'
  BY <1>26 DEF OpenFails, Goes
<1>27. ASSUME NEW p \in Pids, GiveUp(p) PROVE SocketHeld'
  BY <1>27 DEF GiveUp, Die, Free, HangUp, Goes
<1> QED BY <1>1, <1>2, <1>3, <1>4, <1>5, <1>6, <1>7, <1>8, <1>9, <1>10, <1>11, <1>12, <1>13,
        <1>14, <1>15, <1>16, <1>17, <1>18, <1>19, <1>20, <1>21, <1>22, <1>23, <1>24, <1>25,
        <1>26, <1>27 DEF Next, Daemon, Command

LEMMA HeardNext == TypeOK /\ ListenersServe /\ HeardPast /\ Next => HeardPast'
<1> SUFFICES ASSUME TypeOK, ListenersServe, HeardPast, Next PROVE HeardPast'
  OBVIOUS
<1> USE LifecycleAssumption DEF LifecycleAssumption, TypeOK, ListenersServe, HeardPast, Binding,
       Running, Leaving, files, data, memory, history, bounds
<1>1. ASSUME NEW p \in Pids, OpenDatabase(p) PROVE HeardPast'
  BY <1>1 DEF OpenDatabase, Goes
<1>2. ASSUME NEW p \in Pids, Migrate(p) PROVE HeardPast'
  BY <1>2 DEF Migrate, Goes
<1>3. ASSUME NEW p \in Pids, MigrationFails(p) PROVE HeardPast'
  BY <1>3 DEF MigrationFails, Goes
<1>4. ASSUME NEW p \in Pids, Daemonize(p) PROVE HeardPast'
  BY <1>4 DEF Daemonize, Goes
<1>5. ASSUME NEW p \in Pids, Register(p) PROVE HeardPast'
  BY <1>5 DEF Register, Goes
<1>6. ASSUME NEW p \in Pids, ProbeExists(p) PROVE HeardPast'
  BY <1>6 DEF ProbeExists, Goes
<1>7. ASSUME NEW p \in Pids, LiveDaemon(p) PROVE HeardPast'
  BY <1>7 DEF LiveDaemon, Die, Free, HangUp, Goes, Reachable
<1>8. ASSUME NEW p \in Pids, StaleSocket(p) PROVE HeardPast'
  BY <1>8 DEF StaleSocket, Goes, Reachable
<1>9. ASSUME NEW p \in Pids, Unlink(p) PROVE HeardPast'
  BY <1>9 DEF Unlink, Goes
<1>10. ASSUME NEW p \in Pids, Bind(p) PROVE HeardPast'
  BY <1>10 DEF Bind, Goes
<1>11. ASSUME NEW p \in Pids, BindFails(p) PROVE HeardPast'
  BY <1>11 DEF BindFails, Die, Free, HangUp, Goes
<1>12. ASSUME NEW p \in Pids, Listen(p) PROVE HeardPast'
  BY <1>12 DEF Listen, Goes
<1>13. ASSUME NEW p \in Pids, ScanDone(p) PROVE HeardPast'
  BY <1>13 DEF ScanDone, Goes
<1>14. ASSUME NEW p \in Pids, CloseSocket(p) PROVE HeardPast'
  BY <1>14 DEF CloseSocket, HangUp, Goes
<1>15. ASSUME NEW p \in Pids, UnlinkOwn(p) PROVE HeardPast'
  BY <1>15 DEF UnlinkOwn, Goes
<1>16. ASSUME NEW p \in Pids, WriteStopped(p) PROVE HeardPast'
  BY <1>16 DEF WriteStopped, Goes
<1>17. ASSUME NEW p \in Pids, RemovePidfile(p) PROVE HeardPast'
  BY <1>17 DEF RemovePidfile, Goes, Free
<1>18. ASSUME NEW p \in Pids, LeaveLoop(p) PROVE HeardPast'
  BY <1>18 DEF LeaveLoop, Goes
<1>19. ASSUME NEW p \in Pids, Crash(p) PROVE HeardPast'
  BY <1>19 DEF Crash, Die, Free, HangUp, Goes, IsProcessAlive
<1>20. ASSUME NEW p \in Pids, Reuse(p) PROVE HeardPast'
  BY <1>20 DEF Reuse, Goes
<1>21. ASSUME NEW p \in Pids, NEW c \in Commands, Serve(p, c) PROVE HeardPast'
  BY <1>21 DEF Serve
<1>22. ASSUME NEW c \in Commands, AlreadyRunning(c) \/ ForkFails(c) \/ PollSocket(c) \/
            Connect(c) \/ NotConnected(c) \/ ReadPidfile(c) \/ CheckRecorded(c)
     PROVE  HeardPast'
  BY <1>22 DEF AlreadyRunning, ForkFails, PollSocket, Connect, NotConnected, Reachable, Step,
               Finish, ReadPidfile, CheckRecorded
<1>23. ASSUME NEW c \in Commands, NEW op \in Ops, RunCommand(c, op) PROVE HeardPast'
  BY <1>23 DEF RunCommand
<1>24. ASSUME NEW c \in Commands, Launch(c) PROVE HeardPast'
  BY <1>24 DEF Launch, Goes, Step
<1>25. ASSUME NEW c \in Commands, KillRecorded(c) PROVE HeardPast'
  <2>1. ASSUME NEW p \in Pids, Killed(p) PROVE HeardPast'
    BY <1>25, <2>1 DEF KillRecorded, Killed, Free, Goes
  <2>2. ASSUME NEW p \in Pids, Flagged(p) PROVE HeardPast'
    BY <1>25, <2>2 DEF KillRecorded, Flagged
  <2>3. CASE UNCHANGED <<memory, proc, hit, unclean>>
    BY <1>25, <2>3 DEF KillRecorded
  <2> QED BY <1>25, <2>1, <2>2, <2>3, KillCases
<1>26. ASSUME NEW p \in Pids, OpenFails(p) PROVE HeardPast'
  BY <1>26 DEF OpenFails, Goes
<1>27. ASSUME NEW p \in Pids, GiveUp(p) PROVE HeardPast'
  BY <1>27 DEF GiveUp, Die, Free, HangUp, Goes
<1> QED BY <1>1, <1>2, <1>3, <1>4, <1>5, <1>6, <1>7, <1>8, <1>9, <1>10, <1>11, <1>12, <1>13,
        <1>14, <1>15, <1>16, <1>17, <1>18, <1>19, <1>20, <1>21, <1>22, <1>23, <1>24, <1>25,
        <1>26, <1>27 DEF Next, Daemon, Command

LEMMA AwayNext == TypeOK /\ ListenersServe /\ HeardPast /\ HeardAway /\ Next => HeardAway'
<1> SUFFICES ASSUME TypeOK, ListenersServe, HeardPast, HeardAway, Next PROVE HeardAway'
  OBVIOUS
<1> USE LifecycleAssumption DEF LifecycleAssumption, TypeOK, ListenersServe, HeardPast,
       HeardAway, Binding, Running, Leaving, files, data, memory, history, bounds
<1>1. ASSUME NEW p \in Pids, OpenDatabase(p) PROVE HeardAway'
  BY <1>1 DEF OpenDatabase, Goes
<1>2. ASSUME NEW p \in Pids, Migrate(p) PROVE HeardAway'
  BY <1>2 DEF Migrate, Goes
<1>3. ASSUME NEW p \in Pids, MigrationFails(p) PROVE HeardAway'
  BY <1>3 DEF MigrationFails, Goes
<1>4. ASSUME NEW p \in Pids, Daemonize(p) PROVE HeardAway'
  BY <1>4 DEF Daemonize, Goes
<1>5. ASSUME NEW p \in Pids, Register(p) PROVE HeardAway'
  BY <1>5 DEF Register, Goes
<1>6. ASSUME NEW p \in Pids, ProbeExists(p) PROVE HeardAway'
  BY <1>6 DEF ProbeExists, Goes
<1>7. ASSUME NEW p \in Pids, LiveDaemon(p) PROVE HeardAway'
  BY <1>7 DEF LiveDaemon, Die, Free, HangUp, Goes, Reachable
<1>8. ASSUME NEW p \in Pids, StaleSocket(p) PROVE HeardAway'
  BY <1>8 DEF StaleSocket, Goes, Reachable
<1>9. ASSUME NEW p \in Pids, Unlink(p) PROVE HeardAway'
  BY <1>9 DEF Unlink, Goes
<1>10. ASSUME NEW p \in Pids, Bind(p) PROVE HeardAway'
  BY <1>10 DEF Bind, Goes
<1>11. ASSUME NEW p \in Pids, BindFails(p) PROVE HeardAway'
  BY <1>11 DEF BindFails, Die, Free, HangUp, Goes
<1>12. ASSUME NEW p \in Pids, Listen(p) PROVE HeardAway'
  BY <1>12 DEF Listen, Goes
<1>13. ASSUME NEW p \in Pids, ScanDone(p) PROVE HeardAway'
  BY <1>13 DEF ScanDone, Goes
<1>14. ASSUME NEW p \in Pids, CloseSocket(p) PROVE HeardAway'
  BY <1>14 DEF CloseSocket, HangUp, Goes
<1>15. ASSUME NEW p \in Pids, UnlinkOwn(p) PROVE HeardAway'
  BY <1>15 DEF UnlinkOwn, Goes
<1>16. ASSUME NEW p \in Pids, WriteStopped(p) PROVE HeardAway'
  BY <1>16 DEF WriteStopped, Goes
<1>17. ASSUME NEW p \in Pids, RemovePidfile(p) PROVE HeardAway'
  BY <1>17 DEF RemovePidfile, Goes, Free
<1>18. ASSUME NEW p \in Pids, LeaveLoop(p) PROVE HeardAway'
  BY <1>18 DEF LeaveLoop, Goes
<1>19. ASSUME NEW p \in Pids, Crash(p) PROVE HeardAway'
  BY <1>19 DEF Crash, Die, Free, HangUp, Goes, IsProcessAlive
<1>20. ASSUME NEW p \in Pids, Reuse(p) PROVE HeardAway'
  BY <1>20 DEF Reuse, Goes
<1>21. ASSUME NEW p \in Pids, NEW c \in Commands, Serve(p, c) PROVE HeardAway'
  BY <1>21 DEF Serve
<1>22. ASSUME NEW c \in Commands, AlreadyRunning(c) \/ ForkFails(c) \/ PollSocket(c) \/
            Connect(c) \/ NotConnected(c) \/ ReadPidfile(c) \/ CheckRecorded(c)
     PROVE  HeardAway'
  BY <1>22 DEF AlreadyRunning, ForkFails, PollSocket, Connect, NotConnected, Reachable, Step,
               Finish, ReadPidfile, CheckRecorded
<1>23. ASSUME NEW c \in Commands, NEW op \in Ops, RunCommand(c, op) PROVE HeardAway'
  BY <1>23 DEF RunCommand
<1>24. ASSUME NEW c \in Commands, Launch(c) PROVE HeardAway'
  BY <1>24 DEF Launch, Goes, Step
<1>25. ASSUME NEW c \in Commands, KillRecorded(c) PROVE HeardAway'
  <2>1. ASSUME NEW p \in Pids, Killed(p) PROVE HeardAway'
    BY <1>25, <2>1 DEF KillRecorded, Killed, Free, Goes
  <2>2. ASSUME NEW p \in Pids, Flagged(p) PROVE HeardAway'
    BY <1>25, <2>2 DEF KillRecorded, Flagged
  <2>3. CASE UNCHANGED <<memory, proc, hit, unclean>>
    BY <1>25, <2>3 DEF KillRecorded
  <2> QED BY <1>25, <2>1, <2>2, <2>3, KillCases
<1>26. ASSUME NEW p \in Pids, OpenFails(p) PROVE HeardAway'
  BY <1>26 DEF OpenFails, Goes
<1>27. ASSUME NEW p \in Pids, GiveUp(p) PROVE HeardAway'
  BY <1>27 DEF GiveUp, Die, Free, HangUp, Goes
<1> QED BY <1>1, <1>2, <1>3, <1>4, <1>5, <1>6, <1>7, <1>8, <1>9, <1>10, <1>11, <1>12, <1>13,
        <1>14, <1>15, <1>16, <1>17, <1>18, <1>19, <1>20, <1>21, <1>22, <1>23, <1>24, <1>25,
        <1>26, <1>27 DEF Next, Daemon, Command

\* The body of ProbeProtects.
Protects == \A p \in listening :
       sock = p /\ sock' # p =>
         \E q \in Pids : /\ proc'[q] # proc[q]
                         /\ proc[q] = "unlinkOwn" \/ (proc[q] = "unlink" /\ p \notin heard[q])

LEMMA ProtectsNext == TypeOK /\ ListenersServe /\ HeardAway /\ Next => Protects
<1> SUFFICES ASSUME TypeOK, ListenersServe, HeardAway, Next PROVE Protects
  OBVIOUS
<1> USE LifecycleAssumption DEF LifecycleAssumption, TypeOK, ListenersServe, HeardAway,
       Protects, files
<1>1. ASSUME NEW p \in Pids, OpenDatabase(p) PROVE Protects
  BY <1>1 DEF OpenDatabase, Goes
<1>2. ASSUME NEW p \in Pids, Migrate(p) PROVE Protects
  BY <1>2 DEF Migrate, Goes
<1>3. ASSUME NEW p \in Pids, MigrationFails(p) PROVE Protects
  BY <1>3 DEF MigrationFails, Goes
<1>4. ASSUME NEW p \in Pids, Daemonize(p) PROVE Protects
  BY <1>4 DEF Daemonize, Goes
<1>5. ASSUME NEW p \in Pids, Register(p) PROVE Protects
  BY <1>5 DEF Register, Goes
<1>6. ASSUME NEW p \in Pids, ProbeExists(p) PROVE Protects
  BY <1>6 DEF ProbeExists, Goes
<1>7. ASSUME NEW p \in Pids, LiveDaemon(p) PROVE Protects
  BY <1>7 DEF LiveDaemon, Die, Free, HangUp, Goes, Reachable
<1>8. ASSUME NEW p \in Pids, StaleSocket(p) PROVE Protects
  BY <1>8 DEF StaleSocket, Goes, Reachable
<1>9. ASSUME NEW p \in Pids, Unlink(p) PROVE Protects
  BY <1>9 DEF Unlink, Goes
<1>10. ASSUME NEW p \in Pids, Bind(p) PROVE Protects
  BY <1>10 DEF Bind, Goes
<1>11. ASSUME NEW p \in Pids, BindFails(p) PROVE Protects
  BY <1>11 DEF BindFails, Die, Free, HangUp, Goes
<1>12. ASSUME NEW p \in Pids, Listen(p) PROVE Protects
  BY <1>12 DEF Listen, Goes
<1>13. ASSUME NEW p \in Pids, ScanDone(p) PROVE Protects
  BY <1>13 DEF ScanDone, Goes
<1>14. ASSUME NEW p \in Pids, CloseSocket(p) PROVE Protects
  BY <1>14 DEF CloseSocket, HangUp, Goes
<1>15. ASSUME NEW p \in Pids, UnlinkOwn(p) PROVE Protects
  BY <1>15 DEF UnlinkOwn, Goes
<1>16. ASSUME NEW p \in Pids, WriteStopped(p) PROVE Protects
  BY <1>16 DEF WriteStopped, Goes
<1>17. ASSUME NEW p \in Pids, RemovePidfile(p) PROVE Protects
  BY <1>17 DEF RemovePidfile, Goes, Free
<1>18. ASSUME NEW p \in Pids, LeaveLoop(p) PROVE Protects
  BY <1>18 DEF LeaveLoop, Goes
<1>19. ASSUME NEW p \in Pids, Crash(p) PROVE Protects
  BY <1>19 DEF Crash, Die, Free, HangUp, Goes, IsProcessAlive
<1>20. ASSUME NEW p \in Pids, Reuse(p) PROVE Protects
  BY <1>20 DEF Reuse, Goes
<1>21. ASSUME NEW p \in Pids, NEW c \in Commands, Serve(p, c) PROVE Protects
  BY <1>21 DEF Serve
<1>22. ASSUME NEW c \in Commands, AlreadyRunning(c) \/ ForkFails(c) \/ PollSocket(c) \/
            Connect(c) \/ NotConnected(c) \/ ReadPidfile(c) \/ CheckRecorded(c)
     PROVE  Protects
  BY <1>22 DEF AlreadyRunning, ForkFails, PollSocket, Connect, NotConnected, Reachable, Step,
               Finish, ReadPidfile, CheckRecorded
<1>23. ASSUME NEW c \in Commands, NEW op \in Ops, RunCommand(c, op) PROVE Protects
  BY <1>23 DEF RunCommand
<1>24. ASSUME NEW c \in Commands, Launch(c) PROVE Protects
  BY <1>24 DEF Launch, Goes, Step
<1>25. ASSUME NEW c \in Commands, KillRecorded(c) PROVE Protects
  <2>1. ASSUME NEW p \in Pids, Killed(p) PROVE Protects
    BY <1>25, <2>1 DEF KillRecorded, Killed, Free, Goes
  <2>2. ASSUME NEW p \in Pids, Flagged(p) PROVE Protects
    BY <1>25, <2>2 DEF KillRecorded, Flagged
  <2>3. CASE UNCHANGED <<memory, proc, hit, unclean>>
    BY <1>25, <2>3 DEF KillRecorded
  <2> QED BY <1>25, <2>1, <2>2, <2>3, KillCases
<1>26. ASSUME NEW p \in Pids, OpenFails(p) PROVE Protects
  BY <1>26 DEF OpenFails, Goes
<1>27. ASSUME NEW p \in Pids, GiveUp(p) PROVE Protects
  BY <1>27 DEF GiveUp, Die, Free, HangUp, Goes
<1> QED BY <1>1, <1>2, <1>3, <1>4, <1>5, <1>6, <1>7, <1>8, <1>9, <1>10, <1>11, <1>12, <1>13,
        <1>14, <1>15, <1>16, <1>17, <1>18, <1>19, <1>20, <1>21, <1>22, <1>23, <1>24, <1>25,
        <1>26, <1>27 DEF Next, Daemon, Command

-----------------------------------------------------------------------------
(* The theorems *)

LEMMA InvInit == Init => Inv
<1> SUFFICES ASSUME Init PROVE Inv
  OBVIOUS
<1> USE LifecycleAssumption DEF LifecycleAssumption, Init
<1>1. TypeOK
  <2>1. status \in [stopped : BOOLEAN, pid : Pids \cup {None}]
    <3>1. CASE sock = Past
      BY <3>1
    <3>2. CASE sock # Past
      BY <3>2
    <3> QED BY <3>1, <3>2
  <2>2. schema \in 0..Latest /\ applied \in [1..Latest -> Nat] /\ seen \in [Pids -> 0..Latest]
    OBVIOUS
  <2>3. proc \in [Pids -> {"unused", "dead"}]
    OBVIOUS
  <2>4. CmdOK
    BY DEF CmdOK, Cmd, Places, Idle
  <2> QED BY <2>1, <2>2, <2>3, <2>4 DEF TypeOK, CmdOK, Cmd, Places
<1>2. SeenBehind /\ SchemaOnce
  BY DEF SeenBehind, SchemaOnce, Binding, Running, Leaving
<1>3. LostPid /\ HeldPid /\ KillsOnStop /\ OnlyLostPidsAreHit /\ StatusTellsStop
  BY DEF LostPid, HeldPid, KillsOnStop, Idle, OnlyLostPidsAreHit, StatusTellsStop
<1>4. ListenersServe
  BY DEF ListenersServe
<1>5. SocketHeld
  BY DEF SocketHeld, Overlap, AtSocket, Binding
<1>6. HeardPast /\ HeardAway
  BY DEF HeardPast, HeardAway
<1> QED BY <1>1, <1>2, <1>3, <1>4, <1>5, <1>6 DEF Inv

LEMMA InvNext == Inv /\ [Next]_vars => Inv'
<1> SUFFICES ASSUME Inv, [Next]_vars PROVE Inv'
  OBVIOUS
<1>1. CASE Next
  BY <1>1, TypeNext, SeenNext, SchemaNext, LostPidNext, HeldNext, HitNext, StatusNext, ListenersNext,
     SocketNext, HeardNext, AwayNext DEF Inv
<1>2. CASE UNCHANGED vars
  <2> USE <1>2 DEF vars, files, data, memory, history, bounds, Inv
  <2>1. TypeOK'
    BY DEF TypeOK
  <2>2. SeenBehind' /\ SchemaOnce'
    BY DEF SeenBehind, SchemaOnce
  <2>3. LostPid' /\ HeldPid' /\ KillsOnStop' /\ OnlyLostPidsAreHit' /\ StatusTellsStop'
    BY DEF LostPid, HeldPid, KillsOnStop, OnlyLostPidsAreHit, StatusTellsStop
  <2>4. ListenersServe' /\ SocketHeld'
    BY DEF ListenersServe, SocketHeld, Overlap, AtSocket
  <2>5. HeardPast' /\ HeardAway'
    BY DEF HeardPast, HeardAway
  <2> QED BY <2>1, <2>2, <2>3, <2>4, <2>5
<1> QED BY <1>1, <1>2

LEMMA InvHolds == Spec => []Inv
BY InvInit, InvNext, PTL DEF Spec

\* Every variable keeps its type.
THEOREM TypeCorrect == Spec => []TypeOK
<1>1. Inv => TypeOK
  BY DEF Inv
<1> QED BY <1>1, InvHolds, PTL

\* Any number of daemons that open a database together apply every version once, in order,
\* wherever they are killed (run_migrations).
THEOREM AppliedOnce == Spec => []SchemaOnce
<1>1. Inv => SchemaOnce
  BY DEF Inv
<1> QED BY <1>1, InvHolds, PTL

\* The SIGTERM of 'stop' hits a stranger only under the pid of a daemon that ended without a
\* shutdown, or under one that was given away after this or another stop had read it.
THEOREM StrangersAreSafe == Spec => []OnlyLostPidsAreHit
<1>1. Inv => OnlyLostPidsAreHit
  BY DEF Inv
<1> QED BY <1>1, InvHolds, PTL

\* status.json says something else than "stopped" only of a daemon that runs or was killed.
THEOREM StatusTrue == Spec => []StatusTellsStop
<1>1. Inv => StatusTellsStop
  BY DEF Inv
<1> QED BY <1>1, InvHolds, PTL

\* A daemon that listens can be reached, unless two were at the socket file at once.
THEOREM Reached == Spec => []ReachableUnlessRaced
<1>1. Inv => ReachableUnlessRaced
  BY DEF Inv, SocketHeld, ReachableUnlessRaced
<1> QED BY <1>1, InvHolds, PTL

\* A daemon whose answer a probe got does not lose its socket file to it (bind_or_die).
THEOREM ProbeHonoured == Spec => ProbeProtects
<1>1. Inv /\ [Next]_vars => [Protects]_vars
  BY ProtectsNext DEF Inv
<1> QED BY <1>1, InvHolds, PTL DEF Spec, ProbeProtects, Protects

=============================================================================
