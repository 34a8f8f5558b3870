----------------------------- MODULE MCServers ------------------------------
(***************************************************************************)
(* Instances for TLC of servers: in the kernel the inode pager as default  *)
(* pager (DefaultPager) and with the ports and references of mapped files  *)
(* (InodePager) and the device pager (DevicePager), and the daemon that    *)
(* keeps the user level servers running (Nanny).  A behaviour runs one of  *)
(* them; the variables of the others stay as they are at first.            *)
(***************************************************************************)
EXTENDS DefaultPager, TLC
CONSTANTS Components,     \* those to be checked
          c1, c2, i1, s1, s2, k1, k2, None
VARIABLES component,
          is, vm_info, ip_client, ko, ip_queue, pager, data_request_queue, receive_option,
          ip_budget,
          zone, free_elements, device_pager_list, device_pager_lock, mgr, dp_queue, object,
          memory, dp_client, maps, dp_budget,
          servers, process, pc, dying, config, altered, unanswered, nn_sent, lost, nn_budget

ipvars == <<is, vm_info, ip_client, ko, ip_queue, pager, data_request_queue, receive_option,
            ip_budget>>
dpvars == <<zone, free_elements, device_pager_list, device_pager_lock, mgr, dp_queue, object,
            memory, dp_client, maps, dp_budget>>
nnvars == <<servers, process, pc, dying, config, altered, unanswered, nn_sent, lost, nn_budget>>
-----------------------------------------------------------------------------
(* Objects whose page maps have one and two levels; four pageouts, or two  *)
(* and a data_initialize message.                                          *)
SomeSizes == {1, 3}
DefaultBudgets == {[writes |-> 4, inits |-> 0], [writes |-> 2, inits |-> 1]}

(* Two clients that map a file again and again, as exec does; without the  *)
(* cache; with page faults and an aborted one; with pageouts; and clients  *)
(* that do not hold the inode lock.                                        *)
Exec == [setups |-> (c1 :> 2) @@ (c2 :> 2), faults |-> 0, aborts |-> 0, writes |-> 0, uncaches |-> 1,
         locked |-> TRUE, can_cache |-> TRUE]
NoCache == [Exec EXCEPT !.can_cache = FALSE, !.uncaches = 0]
Faults == [NoCache EXCEPT !.setups = (c1 :> 2) @@ (c2 :> 1), !.faults = 1, !.aborts = 1]
PageOuts == [NoCache EXCEPT !.setups = (c1 :> 1) @@ (c2 :> 1), !.faults = 2, !.aborts = 1, !.writes = 1]
Unlocked == [Exec EXCEPT !.setups = (c1 :> 1) @@ (c2 :> 1), !.locked = FALSE]

IP == INSTANCE InodePager WITH
        Client <- {c1, c2}, Inode <- {i1}, Is <- {s1, s2}, Ko <- {k1, k2},
        client <- ip_client, queue <- ip_queue, budget <- ip_budget,
        Budgets <- {Exec, NoCache, Faults, PageOuts, Unlocked}

(* The kernel as it is, and with vm_object_accept_old_init_protocol set.   *)
Ready == [early |-> FALSE, aborts |-> 0, fails |-> 1]
Early == [early |-> TRUE, aborts |-> 1, fails |-> 0]

DP == INSTANCE DevicePager WITH
        Client <- {c1, c2}, Elements <- 2, MaxMaps <- 3, Size <- 2,
        client <- dp_client, queue <- dp_queue, budget <- dp_budget, Budgets <- {Ready, Early}

(* One server that is updated, replaced by another, or made invalid, or an *)
(* empty configuration, and a fork that fails; a server that goes and      *)
(* comes back; two servers, and questions about them.                      *)
Server(n, v) == [name |-> n, version |-> v, valid |-> TRUE]
Edited == [contents |-> {<<Server("a", 1)>>, <<Server("a", 2)>>, <<Server("b", 1)>>,
                         <<[Server("a", 1) EXCEPT !.valid = FALSE]>>, <<>>},
           edits |-> 1, questions |-> 0, forks |-> 1]
Twice == [contents |-> {<<Server("a", 1)>>, <<Server("b", 1)>>}, edits |-> 2, questions |-> 0, forks |-> 0]
Asked == [contents |-> {<<Server("a", 1), Server("b", 1)>>}, edits |-> 0, questions |-> 1, forks |-> 0]

NN == INSTANCE Nanny WITH
        Name <- {"a", "b"}, Pid <- 3 .. 5, RESTARTMAX <- 1,
        sent <- nn_sent, budget <- nn_budget, Budgets <- {Edited, Twice, Asked}

(* What the proofs assume of these values.                                 *)
ASSUME DP!DevicePagerAssumption
-----------------------------------------------------------------------------
ServersInit ==
  /\ component \in Components
  /\ Init /\ (component # "default" => use_paging_file /\ budget.inits = 0)
  /\ IP!Init /\ (component # "inode" => ip_budget = Exec)
  /\ DP!Init /\ (component # "device" => dp_budget = Ready)
  /\ NN!Init /\ (component # "nanny" => nn_budget = Asked)

(* Clients may stop mapping files and devices, and the nanny may be told   *)
(* to die; the default pager goes on for ever.                             *)
ServersNext ==
  \/ component = "default" /\ Next /\ UNCHANGED <<component, ipvars, dpvars, nnvars>>
  \/ component = "inode" /\ IP!Next /\ UNCHANGED <<component, vars, dpvars, nnvars>>
  \/ component = "device" /\ DP!Next /\ UNCHANGED <<component, vars, ipvars, nnvars>>
  \/ component = "nanny" /\ NN!Next /\ UNCHANGED <<component, vars, ipvars, dpvars>>
  \/ component # "default" /\ UNCHANGED <<component, vars, ipvars, dpvars, nnvars>>

ServersSpec == ServersInit /\ [][ServersNext]_<<component, vars, ipvars, dpvars, nnvars>>
-----------------------------------------------------------------------------
(* Of InodePager: nobody is left with an object that is gone.              *)
ObjectIsKept == IP!ObjectIsKept

(* When a port is destroyed, nothing is in its queue of a vm_object that   *)
(* still exists.                                                           *)
NothingIsLost == IP!NothingIsLost

(* The object that an inode names is set up, and is not being destroyed.   *)
PagerValueIsSetUp == IP!PagerValueIsSetUp

(* Of DevicePager: the pager does not panic, and frees and fills only the  *)
(* page structures of its own objects.                                     *)
PageStructuresAreSafe == DP!PageStructuresAreSafe

(* A page of a mapping is a page of its device.                            *)
PageIsOfTheDevice == DP!PageIsOfTheDevice

(* Every page fault on a file and on a device is served.                   *)
FairFaultsAreServed ==
  /\ component = "inode" /\ IP!Fairness => IP!FaultIsServed
  /\ component = "device" /\ DP!Fairness => DP!FaultIsServed

(* The list is rid of the descriptors of mappings that are gone.           *)
FairDescriptorIsReclaimed == component = "device" /\ DP!Fairness => DP!DescriptorIsReclaimed

(* Of Nanny: a child that was not sent SIGKILL is the process of a server  *)
(* in the list.                                                            *)
EveryProcessIsKnown == NN!EveryProcessIsKnown

(* A dead server is started again unless it is killed, disabled or         *)
(* removed.                                                                *)
FairServerRestarts == component = "nanny" /\ NN!Fairness => NN!ServerRestarts

(* The nanny that was asked to die does, if no datagram is lost.           *)
FairSuicideEnds == component = "nanny" /\ NN!Fairness => NN!SuicideEnds

(* "get rid of them if we don't care about them any more" (LifeChecks).    *)
InvalidIsKilled == NN!InvalidIsKilled
=============================================================================
