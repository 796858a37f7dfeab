--------------------------- MODULE SessionManager ---------------------------
(***************************************************************************)
(* The session manager (kernel/exec/smss.c) on the table of sessions: the  *)
(* system's processes, each of them a thread, make their sessions; winlogon *)
(* goes through the states of the log-on; userinit gives its session up    *)
(* and ends.  A sleep ends at some time: nothing keeps other threads from  *)
(* running late.  The rounds of a thread that only sleeps again, or counts *)
(* locked sessions and ignores the count, change nothing.                  *)
(***************************************************************************)
EXTENDS Session, Sequences

CONSTANTS Session0,      (* the threads of session 0 and of session 1, each *)
          Session1,      (* with the processes it makes sessions for        *)
          Revoked        (* the number userinit revokes: PID_USERINIT, 40   *)

ASSUME SessionManagerAssumption ==
    /\ Revoked \in Nat
    /\ "wininit" \in DOMAIN Session0 /\ {"winlogon", "userinit"} \subseteq DOMAIN Session1
    /\ DOMAIN Session0 \cap DOMAIN Session1 = {}
    /\ {"kernel", "smss"} \cap (DOMAIN Session0 \cup DOMAIN Session1) = {}
    /\ \A t \in DOMAIN Session0 : Session0[t] \in Seq(Nat)
    /\ \A t \in DOMAIN Session1 : Session1[t] \in Seq(Nat)

VARIABLES point,         (* where each thread is                            *)
          due,           (* processes it has yet to make sessions for       *)
          refused,       (* history: processes the table had no room for    *)
          s_logon_state,
          validated      (* history: credentials were validated             *)

smssVars == <<sessionVars, point, due, refused, s_logon_state, validated>>

(* What a thread makes sessions for; the kernel does so in security_init. *)
ThreadName == DOMAIN Session0 \cup DOMAIN Session1 \cup {"kernel", "smss"}
Processes == [t \in ThreadName |-> CASE t = "kernel" -> <<0, 1>> [] t = "smss" -> << >>
                                      [] t \in DOMAIN Session0 -> Session0[t]
                                      [] t \in DOMAIN Session1 -> Session1[t]]

SystemThread == DOMAIN Session0 \cup DOMAIN Session1
SystemPids == UNION {{Processes[t][i] : i \in DOMAIN Processes[t]} : t \in SystemThread}

(* smss.h: every process of the system has a number of its own, which no
   other process and none of the kernel's has, and userinit's is beyond the
   table (PID_USERINIT is 40, MAX_SESSIONS 32).                             *)
ASSUME NumbersAssumption ==
    /\ \A t, u \in SystemThread : \A i \in DOMAIN Processes[t], j \in DOMAIN Processes[u] :
          Processes[t][i] = Processes[u][j] => t = u /\ i = j
    /\ SystemPids \cap (Pid \cup {0, 1}) = {}
    /\ MaxSessions < Revoked

SmssInit ==
    /\ security_init
    /\ point = [t \in ThreadName |-> IF t = "kernel" THEN "starts" ELSE "none"]
    /\ due = Processes
    /\ refused = {}
    /\ s_logon_state = "IDLE"
    /\ validated = FALSE

Reaches(t, from, to) == point[t] = from /\ point' = [point EXCEPT ![t] = to]
RestIsKept == UNCHANGED <<due, refused, s_logon_state, validated>>

(* session_create; nobody looks at its answer. *)
Creates(t) ==
    /\ point[t] = "starts" /\ due[t] # << >>
    /\ due' = [due EXCEPT ![t] = Tail(@)]
    /\ IF \E i \in SessionSlot : Reusable(sessions[i])
         THEN session_create(Head(due[t])) /\ UNCHANGED refused
         ELSE UNCHANGED sessionVars /\ refused' = refused \cup {Head(due[t])}
    /\ UNCHANGED <<point, s_logon_state, validated>>

Starts(threads) == point' = [t \in ThreadName |-> IF t \in threads THEN "starts" ELSE point[t]]

(* kmain creates the thread of smss_master_init before it calls security_init,
   which would take sessions away again; but no other thread has the
   processor before the event pump (KernelBoot).                            *)
kmain ==
    /\ point["kernel"] = "starts" /\ due["kernel"] = << >> /\ point["smss"] = "none"
    /\ Starts({"smss"})
    /\ RestIsKept /\ UNCHANGED sessionVars

session_0_init ==
    /\ point["smss"] = "starts" /\ point["wininit"] = "none"
    /\ Starts(DOMAIN Session0)
    /\ RestIsKept /\ UNCHANGED sessionVars

session_1_init ==
    /\ point["wininit"] # "none" /\ point["winlogon"] = "none"
    /\ Starts(DOMAIN Session1)
    /\ RestIsKept /\ UNCHANGED sessionVars

(* winlogon_thread, from one sleep to the next. *)
WinlogonSays(from, to, state) ==
    /\ due["winlogon"] = << >>
    /\ Reaches("winlogon", from, to)
    /\ s_logon_state' = state
    /\ UNCHANGED <<sessionVars, due, refused, validated>>

winlogon_thread ==
    \/ WinlogonSays("starts", "waits", "CREDENTIAL_UI")
    \/ WinlogonSays("waits", "checks", "VALIDATING")
    \/ WinlogonSays("checks", "logs on", "SUCCESS")
    \/ WinlogonSays("logs on", "watches", "DESKTOP_READY")

(* Bug: the session's own number, still with VALID for a reason. *)
userinit_thread_OwnSession ==
    /\ due["userinit"] = << >>
    /\ Reaches("userinit", "starts", "ended")
    /\ IF \E i \in SessionSlot : sessions[i].pid = Revoked
         THEN session_revoke(CHOOSE n \in DOMAIN owners : owners[n] = Revoked, "valid")
         ELSE UNCHANGED sessionVars
    /\ RestIsKept

(* userinit_thread, after its sleep, gives the status VALID as the reason;
   a number that no session has changes nothing.                            *)
userinit_thread ==
    /\ due["userinit"] = << >>
    /\ Reaches("userinit", "starts", "ended")
    /\ IF \E i \in SessionSlot : sessions[i].id = Revoked
         THEN session_revoke(Revoked, "valid")
         ELSE UNCHANGED sessionVars
    /\ RestIsKept

(* smss_validate_credentials accepts everyone, whenever it is called. *)
smss_validate_credentials ==
    /\ s_logon_state' = "SUCCESS"
    /\ validated' = TRUE
    /\ UNCHANGED <<sessionVars, point, due, refused>>

(* Other processes make sessions as well. *)
OthersCreate ==
    /\ point["smss"] # "none"
    /\ \E pid \in Pid \ {Kernel} : session_create(pid)
    /\ UNCHANGED <<point, due, refused, s_logon_state, validated>>

SmssNext ==
    \/ \E t \in ThreadName : Creates(t)
    \/ kmain \/ session_0_init \/ session_1_init
    \/ winlogon_thread \/ userinit_thread \/ smss_validate_credentials
    \/ OthersCreate

SmssSpec == SmssInit /\ [][SmssNext]_smssVars

-----------------------------------------------------------------------------
Behind(state) == point["winlogon"] \in IF state = "SUCCESS" THEN {"logs on", "watches"} ELSE {"watches"}
ValidOf(pid) == {i \in SessionSlot : sessions[i].pid = pid /\ sessions[i].status = "valid"}
Made(pid) == \E t \in ThreadName :
                \E i \in 1 .. Len(Processes[t]) - Len(due[t]) : Processes[t][i] = pid

(* Every process of the system that was given a session still has it, one
   of its own with a token that is not empty - also after userinit revoked,
   with a process number for the session's and VALID for the reason, what
   would leave another's session valid with the empty token.  A process
   without a session was refused by a full table.  And nobody is logged on
   before winlogon is through its waits, unless credentials were validated. *)
SystemSessionsStand ==
    /\ \A pid \in SystemPids : Made(pid) =>
          Cardinality(ValidOf(pid)) = (IF pid \in refused THEN 0 ELSE 1)
    /\ \A i \in SessionSlot : sessions[i].status = "valid" => sessions[i].token # 0
    /\ s_logon_state \in {"SUCCESS", "DESKTOP_READY"} => Behind(s_logon_state) \/ validated
=============================================================================
