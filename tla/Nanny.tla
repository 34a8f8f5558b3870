------------------------------- MODULE Nanny --------------------------------
(***************************************************************************)
(* The mother nanny, which keeps the servers of a host running: main.c,    *)
(* snd_comm.c, rcv_comm.c and config.c of src/src/usr/cs/etc/nanny.        *)
(*                                                                         *)
(* A round of its loop takes one message, looks at the files the servers   *)
(* depend on and at the configuration if an hour has passed, waits for     *)
(* dead children and starts servers.  Children exit and die in between.    *)
(* Which hour it is, is a choice, except in the first round.  Requests     *)
(* from other hosts only get an error for an answer and are left out.      *)
(***************************************************************************)
EXTENDS Integers, FiniteSets, Sequences, SequencesExt

CONSTANTS Name,        \* of servers
          Pid,         \* a set of numbers; bound: children at a time
          RESTARTMAX,  \* in units of Tick
          Budgets      \* what the configuration file can say (contents: sequences of
                       \* [name, version, valid], one for each name), and bounds: edits of
                       \* it, questions about the state, forks that fail

VARIABLES
  servers,    \* the list SrvHead; resttim is the time since then, at most RESTARTMAX
  process,    \* of the children: alive, stopped, killed (SIGKILL is on its way), exit 0 or 2
  pc,         \* where the loop is
  dying,
  config,     \* what the configuration file says
  altered,    \* what changed since it was loaded: nothing, the file, or the host's attributes
  unanswered, \* reqcount - anscount
  sent,       \* datagrams that are on the way or will be answered by DONE
  lost,       \* a datagram has been lost (of the properties)
  budget

vars == <<servers, process, pc, dying, config, altered, unanswered, sent, lost, budget>>

Running == {"RUNNING", "STOPPED"}

NewSrv(c) == [name |-> c.name, version |-> c.version, valid |-> c.valid,
              status |-> "DEAD", pid |-> -1, resttim |-> RESTARTMAX]

Init ==
  /\ servers = <<>> /\ process = [p \in Pid |-> "none"]
  /\ pc = "select" /\ dying = FALSE
  /\ budget \in Budgets
  /\ config \in budget.contents /\ altered = "initial"
  /\ unanswered = 0 /\ sent = 0 /\ lost = FALSE

Goto(l) == pc' = l
-----------------------------------------------------------------------------
(* Signals.                                                                *)

(* A killed or restarted server may be started at once.                    *)
com_kill_srv(s, newstat) ==
  IF s.valid THEN [s EXCEPT !.resttim = RESTARTMAX, !.status = newstat] ELSE s

(* Variant: a stopped server is not killed.                                *)
Kills_running(s) == s.valid /\ s.status = "RUNNING" /\ s.pid # -1

Kills(s) == s.valid /\ s.status \in Running /\ s.pid # -1

Becomes(pids, from, to) ==
  [p \in Pid |-> IF p \in pids /\ process[p] \in from THEN to ELSE process[p]]

(* The servers at the places I of the list are killed, or those at R.      *)
KillAndRestart(I, R) ==
  /\ servers' = [i \in DOMAIN servers |->
                   IF i \in R THEN com_kill_srv(servers[i], "DEAD")
                   ELSE IF i \in I THEN com_kill_srv(servers[i], "KILLED") ELSE servers[i]]
  /\ process' = Becomes({servers[i].pid : i \in {j \in I \cup R : Kills(servers[j])}},
                        {"alive", "stopped"}, "killed")

(* After a fork that failed the pid is -1, which stands for all processes. *)
Receivers(s) == IF s.pid = -1 THEN Pid ELSE {s.pid}

cont_srv(i) ==
  LET s == servers[i]
      does == s.valid /\ s.status = "STOPPED"
  IN /\ servers' = IF does THEN [servers EXCEPT ![i].status = "RUNNING"] ELSE servers
     /\ process' = IF does THEN Becomes(Receivers(s), {"stopped"}, "alive") ELSE process

stop_srv(i) ==
  LET s == servers[i]
      does == s.valid /\ s.status = "RUNNING"
  IN /\ servers' = IF does THEN [servers EXCEPT ![i].status = "STOPPED"] ELSE servers
     /\ process' = IF does THEN Becomes(Receivers(s), {"alive"}, "stopped") ELSE process
-----------------------------------------------------------------------------
(* Messages.                                                               *)
fetch_srv(list, n) == SelectInSeq(list, LAMBDA s : s.name = n)

Handles == pc = "select" /\ Goto("depend") /\ UNCHANGED lost

Asks == Handles /\ UNCHANGED <<config, altered>>

(* A request about a server by its name; without such a server an error,   *)
(* which is answered by DONE like any data.                                *)
NamedRequest ==
  /\ Asks /\ UNCHANGED <<dying, unanswered>>
  /\ \E n \in Name :
       LET i == fetch_srv(servers, n)
       IN \/ /\ i # 0
             /\ KillAndRestart({i}, {}) \/ KillAndRestart({}, {i}) \/ cont_srv(i) \/ stop_srv(i)
             /\ UNCHANGED <<sent, budget>>
          \/ /\ i = 0 /\ budget.questions > 0
             /\ budget' = [budget EXCEPT !.questions = @ - 1]
             /\ sent' = sent + 1
             /\ UNCHANGED <<servers, process>>

(* status, list and display: one datagram for each server in question.     *)
SendData ==
  /\ Asks /\ UNCHANGED <<servers, process, dying>>
  /\ budget.questions > 0 /\ budget' = [budget EXCEPT !.questions = @ - 1]
  /\ \E n \in {Len(servers), Len(SelectSeq(servers, LAMBDA s : s.valid)), 1} \ {0} :
       /\ n <= Len(servers)
       /\ unanswered' = unanswered + n /\ sent' = sent + n

(* DONE comes back for what was sent.                                      *)
Done ==
  /\ Asks /\ sent > 0
  /\ sent' = sent - 1 /\ unanswered' = unanswered - 1
  /\ UNCHANGED <<servers, process, dying, budget>>

(* Variant: the stopped servers are left alone.                            *)
Suicide_running ==
  /\ Asks /\ dying' = TRUE
  /\ KillAndRestart({i \in DOMAIN servers : servers[i].valid /\ servers[i].status # "STOPPED"}, {})
  /\ UNCHANGED <<unanswered, sent, budget>>

Suicide ==
  /\ Asks /\ dying' = TRUE
  /\ KillAndRestart({i \in DOMAIN servers : servers[i].valid}, {})
  /\ UNCHANGED <<unanswered, sent, budget>>

Lose ==
  /\ sent > 0 /\ sent' = sent - 1 /\ lost' = TRUE
  /\ UNCHANGED <<servers, process, pc, dying, config, altered, unanswered, budget>>

SelectTimesOut ==
  /\ Asks /\ UNCHANGED <<servers, process, dying, unanswered, sent, budget>>
-----------------------------------------------------------------------------
(* The hourly checks.                                                      *)
NoDatagrams == UNCHANGED <<dying, unanswered, sent, lost>>

(* A running server whose files cannot be found is killed.  The first one  *)
(* whose files are newer is restarted, and the rest waits for next hour.   *)
ck_depend ==
  /\ pc = "depend" /\ Goto("config") /\ NoDatagrams /\ UNCHANGED <<config, altered, budget>>
  /\ LET depends == {i \in DOMAIN servers : servers[i].valid /\ servers[i].status = "RUNNING"}
     IN \E missing \in SUBSET depends, newer \in {{}} \cup {{i} : i \in depends} :
          KillAndRestart({i \in missing : \A j \in newer : i < j}, newer)

(* Old servers that are not in the new list become invalid.                *)
Invalidated(list, new) ==
  [i \in DOMAIN list |-> [list[i] EXCEPT !.valid = @ /\ fetch_srv(new, list[i].name) # 0]]

servercmp(s, c) == s.version # c.version \/ s.valid # c.valid

(* The places of the list whose server is replaced by a new version.       *)
Updated(list, new) ==
  {i \in DOMAIN list : \E k \in DOMAIN new : /\ i = fetch_srv(list, new[k].name)
                                             /\ servercmp(list[i], new[k])}

Added(list, new) ==
  SelectSeq(new, LAMBDA c : LET i == fetch_srv(list, c.name) IN i = 0 \/ servercmp(list[i], c))

Load(new) ==
  LET old == Invalidated(servers, new)
      gone == Updated(old, new)
      add == Added(old, new)
  IN /\ servers' = [i \in DOMAIN old |->
                      IF i \in gone THEN [com_kill_srv(old[i], "KILLED") EXCEPT !.valid = FALSE]
                      ELSE old[i]]
                   \o [k \in DOMAIN add |-> NewSrv(add[k])]
     /\ process' = Becomes({old[i].pid : i \in {j \in gone : Kills(old[j])}},
                           {"alive", "stopped"}, "killed")

(* An empty file changes nothing.                                          *)
Check_cnfg ==
  /\ pc = "config" /\ Goto("deaths") /\ NoDatagrams
  /\ altered' = "no" /\ UNCHANGED <<config, budget>>
  /\ IF altered # "no" /\ config # <<>> THEN Load(config) ELSE UNCHANGED <<servers, process>>

(* A request to read another file, or the same file again; the same file   *)
(* is only read if the attributes of the host have changed.                *)
Reconfigure ==
  /\ Handles /\ UNCHANGED <<dying, unanswered, sent>>
  /\ \/ /\ budget.edits > 0 /\ budget' = [budget EXCEPT !.edits = @ - 1]
        /\ config' \in budget.contents /\ altered' = "no"
        /\ IF config' # <<>> THEN Load(config') ELSE UNCHANGED <<servers, process>>
     \/ /\ UNCHANGED <<config, budget>>
        /\ IF altered \in {"initial", "attributes"}
           THEN /\ altered' = "no"
                /\ IF config # <<>> THEN Load(config) ELSE UNCHANGED <<servers, process>>
           ELSE UNCHANGED <<servers, process, altered>>

NotYet ==
  /\ \/ pc = "depend" /\ Goto("config") /\ altered # "initial"
     \/ pc = "config" /\ Goto("deaths") /\ altered # "initial"
  /\ NoDatagrams /\ UNCHANGED <<servers, process, config, altered, budget>>

(* The file or the attributes change; both change what is in force.        *)
EditConfig ==
  /\ budget.edits > 0 /\ budget' = [budget EXCEPT !.edits = @ - 1]
  /\ config' \in budget.contents
  /\ altered' \in IF altered \in {"initial", "attributes"} THEN {altered} ELSE {"file", "attributes"}
  /\ NoDatagrams /\ UNCHANGED <<servers, process, pc>>
-----------------------------------------------------------------------------
(* Children.                                                               *)
Exits(p) ==
  /\ process[p] \in {"alive", "killed"}
  /\ process' \in {[process EXCEPT ![p] = z] : z \in {"exit 0"} \cup IF process[p] = "alive" THEN {"exit 2"} ELSE {}}
  /\ NoDatagrams /\ UNCHANGED <<servers, pc, config, altered, budget>>

Dead == {p \in Pid : process[p] \in {"exit 0", "exit 2"}}

(* Variant: the pid of a dead server is kept.                              *)
Buried_keepsPid(s) ==
  IF s.pid \notin Dead THEN s
  ELSE [s EXCEPT !.status = IF process[s.pid] = "exit 2" THEN "ABORTED"
                            ELSE IF @ \in Running THEN "DEAD" ELSE @]

Buried(s) ==
  IF s.pid \notin Dead THEN s
  ELSE [s EXCEPT !.pid = -1,
                 !.status = IF process[s.pid] = "exit 2" THEN "ABORTED"
                            ELSE IF @ \in Running THEN "DEAD" ELSE @]

CheckDeaths ==
  /\ pc = "deaths" /\ Goto("life") /\ NoDatagrams
  /\ servers' = [i \in DOMAIN servers |-> Buried(servers[i])]
  /\ process' = [p \in Pid |-> IF p \in Dead THEN "none" ELSE process[p]]
  /\ UNCHANGED <<config, altered, budget>>

(* The places whose server LifeChecks tries to run.                        *)
Startable ==
  {i \in DOMAIN servers : /\ servers[i].valid /\ servers[i].pid = -1
                          /\ servers[i].status = "DEAD" /\ servers[i].resttim >= RESTARTMAX}

(* fork takes the first free pid, in the order of the list.                *)
IsNextPid(i, pid) ==
  /\ pid[i] # -1 /\ process[pid[i]] = "none"
  /\ \A j \in Startable : j < i => pid[j] # pid[i]
  /\ \A q \in Pid : q < pid[i] /\ process[q] = "none" => \E j \in Startable : j < i /\ pid[j] = q

(* RunServer: its files may be missing and fork may fail; then too the     *)
(* server is RUNNING.                                                      *)
RunServer(s, outcome, pid) ==
  [s EXCEPT !.resttim = 0,
            !.status = IF outcome = "no file" THEN "ABORTED" ELSE "RUNNING",
            !.pid = IF outcome = "runs" THEN pid ELSE -1]

(* An invalid server that runs is to be killed, which com_kill_srv does    *)
(* not do; another one is freed.                                           *)
Kept(s) == s.valid \/ s.status \in Running

MayExit ==
  /\ dying /\ unanswered <= 0
  /\ \A i \in DOMAIN servers : servers[i].valid => servers[i].status \notin Running

LifeChecks ==
  /\ pc = "life" /\ NoDatagrams /\ UNCHANGED <<config, altered>>
  /\ IF MayExit THEN Goto("exited") ELSE Goto("select")
  /\ IF dying THEN UNCHANGED <<servers, process, budget>>
     ELSE \E outcome \in [Startable -> {"runs", "no file", "no fork"}],
             pid \in [Startable -> Pid \cup {-1}] :
            /\ \A i \in Startable : IF outcome[i] = "runs" THEN IsNextPid(i, pid) ELSE pid[i] = -1
            /\ LET failed == Cardinality({i \in Startable : outcome[i] = "no fork"})
               IN budget.forks >= failed /\ budget' = [budget EXCEPT !.forks = @ - failed]
            /\ servers' = SelectSeq([i \in DOMAIN servers |->
                                       IF i \in Startable THEN RunServer(servers[i], outcome[i], pid[i])
                                       ELSE IF servers[i].valid THEN servers[i]
                                       ELSE com_kill_srv(servers[i], "KILLED")], Kept)
            /\ process' = [p \in Pid |-> IF \E i \in Startable : pid[i] = p THEN "alive" ELSE process[p]]

Tick ==
  /\ \E i \in DOMAIN servers : servers[i].resttim < RESTARTMAX
  /\ servers' = [i \in DOMAIN servers |->
                   [servers[i] EXCEPT !.resttim = IF @ < RESTARTMAX THEN @ + 1 ELSE @]]
  /\ UNCHANGED <<process, pc, dying, config, altered, unanswered, sent, lost, budget>>
-----------------------------------------------------------------------------
Mother ==
  \/ NamedRequest \/ SendData \/ Done \/ Suicide \/ Reconfigure \/ SelectTimesOut
  \/ ck_depend \/ Check_cnfg \/ NotYet \/ CheckDeaths \/ LifeChecks

Next ==
  \/ Mother \/ EditConfig \/ Lose \/ Tick
  \/ \E p \in Pid : Exits(p)

(* The loop goes on: select waits for a quarter of an hour at most.  A     *)
(* process that is sent SIGKILL dies, time passes, and the answer to what  *)
(* was sent is read, since each round reads a message if there is one.     *)
Fairness ==
  /\ WF_vars(Mother) /\ WF_vars(Tick) /\ SF_vars(Done)
  /\ \A p \in Pid : WF_vars(process[p] = "killed" /\ Exits(p))

Spec == Init /\ [][Next]_vars /\ Fairness
-----------------------------------------------------------------------------
(* The mother nanny never loses track of a server: a child that has not    *)
(* been sent SIGKILL is the process of exactly one server in the list,     *)
(* which is RUNNING or STOPPED, and the pid of a running server is a child *)
(* that has not been waited for, so that no signal reaches another process *)
(* (the changes of status in com_kill_srv, CheckDeaths and LifeChecks).    *)
EveryProcessIsKnown ==
  /\ \A p \in Pid : process[p] \in {"alive", "stopped"} =>
       \E i \in DOMAIN servers : servers[i].pid = p /\ servers[i].status \in Running
  /\ \A i, j \in DOMAIN servers : servers[i].pid # -1 =>
       /\ process[servers[i].pid] # "none"
       /\ i # j => servers[i].pid # servers[j].pid

(* A dead server is not forgotten: it is started again, however often it   *)
(* has been restarted before, unless it is killed, disabled or removed or  *)
(* the nanny dies (RunServer).                                             *)
Waits(n) == \E i \in DOMAIN servers : servers[i].name = n /\ servers[i].valid /\ servers[i].status = "DEAD"
ServerRestarts == \A n \in Name : []<>(~ Waits(n) \/ dying)

(* The nanny that was asked to die does so, if no datagram is lost: "see   *)
(* if we have a reason to live" (mothernanny).                             *)
SuicideEnds == []<>(dying => pc = "exited" \/ lost)

(* "get rid of them if we don't care about them any more" (LifeChecks): in *)
(* the next round every invalid server that runs has been sent SIGKILL.    *)
InvalidIsKilled ==
  pc = "select" /\ ~ dying =>
    \A i \in DOMAIN servers : ~ servers[i].valid /\ servers[i].pid # -1 =>
      process[servers[i].pid] \notin {"alive", "stopped"}
=============================================================================
