------------------------------ MODULE Session ------------------------------
(***************************************************************************)
(* The table of sessions (kernel/security/session.c).  A token is the      *)
(* number of the session it was made for: tokens are 128 random bits, and  *)
(* two of them are taken to differ.  0 stands for the empty token and for  *)
(* the number of a slot never used.                                        *)
(***************************************************************************)
EXTENDS Naturals, FiniteSets

CONSTANTS MaxSessions,   (* MAX_SESSIONS: 32 in the code                    *)
          Pid,           (* processes that own and use sessions             *)
          Kernel,        (* process 0, whose sessions anyone may use        *)
          MaxSessionId   (* bound: sessions created                         *)

ASSUME SessionAssumption == /\ MaxSessions \in Nat \ {0} /\ MaxSessionId \in Nat
                            /\ Kernel \in Pid

VARIABLES sessions,        (* g_sessions: number, owner, token, status and
                             wrong attempts of each slot                    *)
          next_session,    (* g_next_session_id, from 1                     *)
          blocked,         (* g_total_blocked_hijacks                       *)
          owners,          (* history: who each session was made for        *)
          struck,          (* history: sessions locked out or revoked       *)
          granted          (* the last use that was authorised, if any      *)

sessionVars == <<sessions, next_session, blocked, owners, struck, granted>>

SessionSlot == 1 .. MaxSessions
NoGrant == [id |-> 0, pid |-> Kernel, token |-> 0]

(* security_init before its two session_create calls. *)
security_init ==
    /\ sessions = [i \in SessionSlot |-> [id |-> 0, pid |-> Kernel, token |-> 0,
                                          status |-> "expired", attempts |-> 0]]
    /\ next_session = 1
    /\ blocked = 0
    /\ owners = <<>>
    /\ struck = {}
    /\ granted = NoGrant

Reusable(s) == s.status = "expired" \/ s.id = 0

(* session_create takes the first slot it may use; without one it fails. *)
session_create(pid) ==
    /\ next_session <= MaxSessionId
    /\ \E i \in SessionSlot :
          /\ Reusable(sessions[i])
          /\ \A j \in 1 .. i - 1 : ~Reusable(sessions[j])
          /\ sessions' = [sessions EXCEPT ![i] =
                [id |-> next_session, pid |-> pid, token |-> next_session,
                 status |-> "valid", attempts |-> 0]]
    /\ next_session' = next_session + 1
    /\ owners' = [n \in 1 .. next_session |-> IF n = next_session THEN pid ELSE owners[n]]
    /\ UNCHANGED <<blocked, struck, granted>>

(* One more wrong attempt at slot i, which locks it out or not. *)
Strike(i, lock) ==
    /\ sessions' = [sessions EXCEPT ![i].attempts = @ + 1,
                                    ![i].status = IF lock THEN "hijack" ELSE @]
    /\ blocked' = blocked + 1
    /\ struck' = IF lock THEN struck \cup {sessions[i].id} ELSE struck
    /\ granted' = NoGrant
    /\ UNCHANGED <<next_session, owners>>

(* Bug: the session of another process is refused and not locked. *)
session_validate_Lenient(id, token, pid) ==
    \E i \in SessionSlot :
       /\ sessions[i].id = id /\ sessions[i].status = "valid"
       /\ \/ token # sessions[i].token /\ Strike(i, sessions[i].attempts >= 3)
          \/ /\ token = sessions[i].token
             /\ granted' = [id |-> id, pid |-> pid, token |-> token]
             /\ UNCHANGED <<sessions, next_session, blocked, owners, struck>>

(* session_validate, with the token of some session: a third wrong token
   locks the session, and so does another process that has the right one.
   Capabilities are a set the caller asks for and are left out.             *)
session_validate(id, token, pid) ==
    \E i \in SessionSlot :
       /\ sessions[i].id = id /\ sessions[i].status = "valid"
       /\ \/ token # sessions[i].token /\ Strike(i, sessions[i].attempts + 1 >= 3)
          \/ /\ token = sessions[i].token
             /\ sessions[i].pid \notin {pid, Kernel}
             /\ Strike(i, TRUE)
          \/ /\ token = sessions[i].token
             /\ sessions[i].pid \in {pid, Kernel}
             /\ granted' = [id |-> id, pid |-> pid, token |-> token]
             /\ UNCHANGED <<sessions, next_session, blocked, owners, struck>>

(* session_revoke, for a reason; smss asks for a session that never exists
   (smss.c passes a process number), which changes nothing.                 *)
session_revoke(id, reason) ==
    /\ \E i \in SessionSlot :
          /\ sessions[i].id = id
          /\ sessions' = [sessions EXCEPT ![i].status = reason, ![i].token = 0]
    /\ struck' = struck \cup {id}
    /\ granted' = NoGrant
    /\ UNCHANGED <<next_session, blocked, owners>>

SessionNext ==
    \/ \E pid \in Pid : session_create(pid)
    \/ \E id \in 1 .. next_session - 1 :
          \/ \E token \in 0 .. next_session - 1, pid \in Pid : session_validate(id, token, pid)
          \/ \E reason \in {"expired", "revoked", "locked"} : session_revoke(id, reason)

SessionSpec == security_init /\ [][SessionNext]_sessionVars

-----------------------------------------------------------------------------
(* session_guard_audit: the sessions that are locked out. *)
session_guard_audit == {sessions[i].id : i \in {j \in SessionSlot : sessions[j].status = "hijack"}}

(* What is authorised is authorised to the process the session was made
   for (or is the kernel's), with the token made for it, and never after
   the session was locked out or revoked, however slots were used since.
   Sessions in use have had two wrong attempts at most, and the audit finds
   every session that is locked out.                                        *)
GrantsAreFresh ==
    /\ granted # NoGrant => /\ granted.id \notin struck
                            /\ granted.token = granted.id
                            /\ owners[granted.id] \in {granted.pid, Kernel}
    /\ \A i \in SessionSlot : sessions[i].status = "valid" => sessions[i].attempts <= 2
    /\ session_guard_audit \subseteq struck

=============================================================================
