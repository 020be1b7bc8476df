----------------------------- MODULE MCFwPlans -----------------------------
(* Instances of FwPlans for TLC.                                           *)
EXTENDS FwPlans

Rule(act, ports, from) ==
    [Spec0 EXCEPT !.act = act, !.ports = ports, !.from = from, !.proto = IF ports = {} THEN Zero ELSE "tcp",
                  !.simple = from = {}]
App(act) == [Spec0 EXCEPT !.act = act, !.app = "OpenSSH"]
Bound(act) == [Rule(act, { 22 }, {}) EXCEPT !.only = "iface"]

\* Lists of up to n different rows of S.
Lists(S, n) == { s \in UNION { [1..k -> S] : k \in 0..n } : \A i, j \in DOMAIN s : s[i] = s[j] => i = j }

Both(S4, S6, n) ==
    { [i \in DOMAIN s |-> Row(s[i], FALSE)] \o [i \in DOMAIN t |-> Row(t[i], TRUE)] :
        s \in Lists(S4, n), t \in Lists(S6, 1) }

UfwLists == Both({ Rule("allow", { 22 }, {}), Rule("deny", {}, { "p" }), Bound("allow"), App("allow") },
                 { Rule("allow", { 22 }, {}) }, 2)

\* ufw lists with an interface-bound deny.
BoundLists == Both({ Rule("allow", { 22 }, {}), Bound("deny") }, {}, 2)

Rich(spec, prio) == [spec |-> [spec EXCEPT !.simple = FALSE], prio |-> prio, service |-> Zero, plain |-> prio = 0]

ZoneList ==
    { [ports |-> ports, services |-> services, rich |-> rich, policy |-> "reject",
       svc |-> [s \in { "ssh" } |-> { 22 }]] :
        ports \in Lists({ Rule("allow", { 22 }, {}) }, 1),
        services \in Lists({ "ssh" }, 1),
        rich \in Lists({ Rich(Rule("allow", {}, { "p" }), -1), Rich(Rule("deny", {}, { "p" }), 0),
                         Rich(Rule("deny", { 22 }, {}), 1) }, 2) }

Ask4 == { [cmd |-> "fw_open", specs |-> << Rule("allow", { 22 }, {}) >>],
          [cmd |-> "fw_deny", specs |-> << Rule("deny", {}, { "p" }) >>],
          [cmd |-> "preset", specs |-> << Rule("limit", { 22 }, {}), Rule("allow", { 80 }, {}) >>] }
Ask1 == { [cmd |-> "preset", specs |-> << Rule("limit", { 22 }, {}) >>] }
NoZones == {}
EditList == { Rule("deny", {}, { "p" }), Rule("allow", { 22 }, {}) }
=============================================================================
