----------------------------- MODULE Multimedia -----------------------------
(***************************************************************************)
(* The multimedia scheduler (services/mmcss/mmcss.c): clients with periods *)
(* whose deadlines a service thread goes through in rounds.  Periods are   *)
(* in ticks; what the scheduler makes of the deadlines and boosts that are *)
(* passed on to it is module Sched's.                                      *)
(***************************************************************************)
EXTENDS Naturals, Sequences, FiniteSets

CONSTANTS MaxClients,     (* MMCSS_MAX_CLIENTS: 16 in the code              *)
          Client,         (* threads that register                          *)
          Period,         (* period_us / 1000, 0 below a millisecond        *)
          MaxNow          (* bound: ticks                                   *)

ASSUME MultimediaAssumption == /\ MaxClients \in Nat /\ MaxNow \in Nat
                               /\ \A p \in Period : p \in Nat

VARIABLES g_clients,      (* the places used so far                         *)
          now,            (* sched_get_ticks                                *)
          round,          (* the tick of the last round, 0 at first         *)
          late            (* history: some round was more than a tick after
                             the one before                                 *)

mmcssVars == <<g_clients, now, round, late>>

MmcssInit == g_clients = << >> /\ now = 0 /\ round = 0 /\ late = FALSE

(* mmcss_register: without a place left nothing happens. *)
mmcss_register(t, p) ==
    /\ Len(g_clients) < MaxClients
    /\ g_clients' = Append(g_clients, [thread |-> t, period |-> p, next |-> now + p,
                                       active |-> TRUE, latency |-> 0, missed |-> 0])
    /\ UNCHANGED <<now, round, late>>

mmcss_unregister(t) ==
    /\ g_clients' = [i \in DOMAIN g_clients |->
                       [g_clients[i] EXCEPT !.active = @ /\ g_clients[i].thread # t]]
    /\ UNCHANGED <<now, round, late>>

(* Bug: the next deadline is counted from the one that was met. *)
Reviewed_Drifts(c) ==
    IF ~c.active THEN c
    ELSE LET miss == now > c.next
         IN  [c EXCEPT !.missed = IF miss THEN @ + 1 ELSE @,
                       !.latency = IF miss THEN now - c.next ELSE 0,
                       !.next = IF now >= @ THEN @ + c.period ELSE @]

(* What a round makes of a client: a deadline that is over is missed, one
   that is reached starts the next period.                                  *)
Reviewed(c) ==
    IF ~c.active THEN c
    ELSE LET miss == now > c.next
         IN  [c EXCEPT !.missed = IF miss THEN @ + 1 ELSE @,
                       !.latency = IF miss THEN now - c.next ELSE 0,
                       !.next = IF now >= @ THEN now + c.period ELSE @]

(* A round of the service thread, which then sleeps for a tick or more. *)
mmcss_schedule_clients ==
    /\ now > round
    /\ g_clients' = [i \in DOMAIN g_clients |-> Reviewed(g_clients[i])]
    /\ round' = now
    /\ late' = (late \/ now > round + 1)
    /\ UNCHANGED now

NextPeriod == now < MaxNow /\ now' = now + 1 /\ UNCHANGED <<g_clients, round, late>>

MmcssNext == \/ NextPeriod \/ mmcss_schedule_clients
             \/ \E t \in Client : \/ mmcss_unregister(t)
                                  \/ \E p \in Period : mmcss_register(t, p)

MmcssSpec == MmcssInit /\ [][MmcssNext]_mmcssVars

-----------------------------------------------------------------------------

(* A client whose period is a tick at least misses a deadline only when a
   round was late, and no round leaves a deadline behind that is over or
   further off than a period: one late round is not counted again by the
   rounds after it.                                                         *)
MissesAreLate ==
    \A i \in DOMAIN g_clients :
        LET c == g_clients[i]
        IN  /\ c.missed > 0 /\ c.period > 0 => late
            /\ c.active => c.next >= round /\ c.next <= now + c.period

=============================================================================
