------------------------------- MODULE Routes -------------------------------
(***************************************************************************)
(* The network manager's routing table, its one interface and the counters *)
(* of it (services/netmgr/netmgr.c).  A destination and its mask are the   *)
(* set of addresses they match; a route also has a gateway.                *)
(***************************************************************************)
EXTENDS Naturals, Sequences, FiniteSets, SequencesExt

CONSTANTS Address,      (* destinations of packets                          *)
          Net,          (* what routes match: sets of addresses             *)
          Gateway,
          MaxRoutes,    (* NETMGR_MAX_ROUTES                                *)
          MaxFrames    (* bound: packets received                          *)

ASSUME RoutesAssumption == /\ Net \subseteq SUBSET Address /\ Address \in Net
                           /\ Gateway # {}
                           /\ MaxRoutes \in Nat \ {0} /\ MaxFrames \in Nat

VARIABLES routes,       (* g_routes, up to g_route_count                    *)
          up,           (* eth0 exists: its link, which is up at first      *)
          rx,           (* its rx_packets                                   *)
          told,         (* the last link state published, "none" at first   *)
          owed          (* history: for each destination, the routes added
                           and not deleted since the defaults were set      *)

routesVars == <<routes, up, rx, told, owed>>

NetmgrInit == routes = << >> /\ up = "none" /\ rx = 0 /\ told = "none"
              /\ owed = [n \in Net |-> 0]

(* netmgr_init_defaults, once: the thread that calls it may start at any
   time, also after others have added routes, and then takes the first
   place of the table and nothing else of it stays.                        *)
netmgr_init_defaults ==
    /\ up = "none" /\ up' = "up"
    /\ routes' = << [net |-> Address, gateway |-> CHOOSE g \in Gateway : TRUE] >>
    /\ owed' = [n \in Net |-> IF n = Address THEN 1 ELSE 0]
    /\ UNCHANGED <<rx, told>>

netmgr_add_route(n, g) ==
    /\ Len(routes) < MaxRoutes
    /\ routes' = Append(routes, [net |-> n, gateway |-> g])
    /\ owed' = [owed EXCEPT ![n] = @ + 1]
    /\ UNCHANGED <<up, rx, told>>

FirstTo(n) == CHOOSE i \in DOMAIN routes :
                 routes[i].net = n /\ \A j \in 1 .. i - 1 : routes[j].net # n

(* Bug: the table gets shorter and the last route is not moved. *)
netmgr_del_route_Drops(n) ==
    /\ \E i \in DOMAIN routes : routes[i].net = n
    /\ routes' = Front(routes)
    /\ owed' = [owed EXCEPT ![n] = @ - 1]
    /\ UNCHANGED <<up, rx, told>>

(* netmgr_del_route: the last route moves into the place of the first one
   with that destination.                                                   *)
netmgr_del_route(n) ==
    /\ \E i \in DOMAIN routes : routes[i].net = n
    /\ routes' = Front([routes EXCEPT ![FirstTo(n)] = Last(routes)])
    /\ owed' = [owed EXCEPT ![n] = @ - 1]
    /\ UNCHANGED <<up, rx, told>>

netmgr_on_link_change ==
    /\ up # "none"
    /\ up' \in {"up", "down"}
    /\ told' = up'                       \* netmgr_publish_status
    /\ UNCHANGED <<routes, rx, owed>>

netmgr_on_packet_received ==
    /\ up # "none" /\ rx < MaxFrames
    /\ rx' = rx + 1
    /\ UNCHANGED <<routes, up, told, owed>>

RoutesNext ==
    \/ netmgr_init_defaults \/ netmgr_on_link_change \/ netmgr_on_packet_received
    \/ \E n \in Net : netmgr_del_route(n) \/ \E g \in Gateway : netmgr_add_route(n, g)

RoutesSpec == NetmgrInit /\ [][RoutesNext]_routesVars

(* netmgr_lookup_route: the first route that matches, else the first. *)
netmgr_lookup_route(a) ==
    LET hits == {i \in DOMAIN routes : a \in routes[i].net}
    IN  routes[IF hits = {} THEN 1 ELSE CHOOSE i \in hits : \A j \in hits : i <= j]

-----------------------------------------------------------------------------

(* However deletions have moved routes about, the table holds for each
   destination as many routes as were added and not deleted, and a packet
   gets a route that matches its destination whenever one is in the table
   (the default route stands first as long as no deletion moves another
   into its place).  The link state last published is the link's.          *)
RoutesAgree ==
    /\ \A n \in Net : Cardinality({i \in DOMAIN routes : routes[i].net = n}) = owed[n]
    /\ \A a \in Address : (\E n \in Net : a \in n /\ owed[n] > 0)
                             => a \in netmgr_lookup_route(a).net
    /\ told \in {"none", up}

=============================================================================
