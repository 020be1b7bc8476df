------------------------------ MODULE FwRules ------------------------------
(* What the agent knows of firewall rules: the rule model of ufw and       *)
(* firewalld, the first-match verdict on a port, the simulation of a plan, *)
(* the SSH guard and the plans built from a request. Everything here is    *)
(* pure, as in the code (fwufw.go, fwplan.go, fwfirewalld.go).             *)
(*                                                                         *)
(* A zero value of the code is an empty set here: no ports is every port,  *)
(* no source is Anywhere. Labels and wording are left out; two rows that   *)
(* print alike are equal records. ufw lists no row twice.                  *)
EXTENDS Integers, Sequences, FiniteSets, SequencesExt

CONSTANTS
    V4, V6,     \* the addresses of each family that peers connect from
    NoPeer      \* the zero address: an arbitrary host

ASSUME AddressAssumption == V4 \cap V6 = {} /\ NoPeer \notin V4 \cup V6

Actions == { "allow", "deny", "reject", "limit" }
Lets == { "allow", "limit" }

\* The zero value of the code's strings.
Zero == ""

\* fwRule: only is what narrows the rule beyond port and source, an interface
\* or local address ("iface") or something the model does not read ("partial").
\* A spec also has a form: simple, or extended with its source written out.
Spec0 == [act |-> "allow", dir |-> "in", proto |-> Zero, ports |-> {}, from |-> {},
          only |-> Zero, app |-> Zero, simple |-> TRUE]

Dirs == { "in", "out", "fwd" }
Protos == { Zero, "tcp", "udp", "other" }
Names == STRING \cup { Zero }     \* of apps and services
Onlys == { Zero, "iface", "partial" }

SpecSet == [act : Actions, dir : Dirs, proto : Protos, ports : SUBSET Nat,
            from : SUBSET (V4 \cup V6), only : Onlys, app : Names, simple : BOOLEAN]
RowSet == [act : Actions, dir : Dirs, proto : Protos, ports : SUBSET Nat,
           from : SUBSET (V4 \cup V6), only : Onlys, app : Names, v6 : BOOLEAN]
ChangeSet == [op : { "add", "insert", "prepend", "delete" }, spec : SpecSet]

\* An app profile without ports: whether it matches a port is unknown.
unresolved(r) == r.app # Zero /\ r.ports = {}

coversPort(r, port) == r.ports = {} \/ port \in r.ports

Is6(peer) == peer \in V6

-----------------------------------------------------------------------------
(* First match.                                                            *)

\* Rows of the other family, of outgoing traffic or of UDP never decide.
Counts(r, v6) == r.dir = "in" /\ r.v6 = v6 /\ r.proto \in { Zero, "tcp" }

\* The row is about this peer's connection, as far as port and source tell.
Concerns(r, port, peer) ==
    /\ coversPort(r, port)
    /\ r.from # {} /\ peer # NoPeer => peer \in r.from

\* Whether it matches cannot be told from the row alone.
restricted(r, peer) == r.only # Zero \/ (r.from # {} /\ peer = NoPeer)

Deciders(s, port, v6, peer) ==
    { i \in DOMAIN s : /\ Counts(s[i], v6) /\ ~ unresolved(s[i])
                       /\ Concerns(s[i], port, peer) /\ ~ restricted(s[i], peer) }

First(S) == CHOOSE i \in S : \A j \in S : i <= j

\* The rows that are checked before the decision.
Before(s, D) == { i \in DOMAIN s : \A j \in D : i < j }

\* The rows E of s in their order, as the set of pairs one lists before the other.
Listed(s, E) == { << s[p[1]], s[p[2]] >> : p \in { q \in E \X E : q[1] <= q[2] } }

NoRule == [act |-> "none"]

\* ufwStatus.verdict: the row that decides, or the policy when none does; the
\* narrower rows that let someone in before it; the unknown ones before it.
Verdict(st, port, v6, peer) ==
    LET s == st.rules
        D == Deciders(s, port, v6, peer)
        seen == { i \in Before(s, D) : Counts(s[i], v6) }
        except == { i \in seen : /\ ~ unresolved(s[i]) /\ Concerns(s[i], port, peer)
                                 /\ restricted(s[i], peer) /\ s[i].act \in Lets }
    IN  [rule |-> IF D = {} THEN NoRule ELSE s[First(D)], policy |-> st.policy,
         except |-> Listed(s, except), unsure |-> Listed(s, { i \in seen : unresolved(s[i]) })]

\* Whether a verdict lets the connection in.
reachable(v) == v.rule.act \in Lets \/ (v.rule = NoRule /\ v.policy = "allow")

Open(st, port, v6) == reachable(Verdict(st, port, v6, NoPeer))

hasV6(st) == \E i \in DOMAIN st.rules : st.rules[i].v6

\* sshGuard: the change would cut a peer off, or close an SSH port.
CutsOff(before, after, port, peer) ==
    LET vb == Verdict(before, port, Is6(peer), peer)
        va == Verdict(after, port, Is6(peer), peer)
    IN  ~ reachable(va) /\ (reachable(vb) \/ vb # va)

Closes(before, after, port) ==
    \E v6 \in BOOLEAN : /\ v6 => hasV6(before) \/ hasV6(after)
                        /\ Open(before, port, v6) /\ ~ Open(after, port, v6)

\* Mutant: what the verdict does not call reachable before need not be kept.
sshGuardPlain(before, after, ports, peers) ==
    \E port \in ports, peer \in peers :
        /\ reachable(Verdict(before, port, Is6(peer), peer))
        /\ ~ reachable(Verdict(after, port, Is6(peer), peer))

sshGuard(before, after, ports, peers) ==
    \E port \in ports : \/ \E peer \in peers : CutsOff(before, after, port, peer)
                        \/ Closes(before, after, port)

-----------------------------------------------------------------------------
(* Specs and the rows they are listed as; plans and their simulation.      *)

\* specRule's family: tied to one by an address, else in both.
Family(spec) == IF spec.from = {} THEN Zero ELSE IF spec.from \subseteq V6 THEN "v6" ELSE "v4"

Row(spec, six) ==
    [f \in (DOMAIN spec \ { "simple" }) \cup { "v6" } |-> IF f = "v6" THEN six ELSE spec[f]]

\* `ufw show added`: the spec that lists a row, in the simple form where it can.
SpecOf(row) ==
    [f \in DOMAIN Spec0 |-> IF f = "simple" THEN row.from = {} /\ row.only = Zero ELSE row[f]]

sameMatch(a, b) ==
    /\ a.dir = b.dir /\ a.from = b.from /\ a.only = b.only /\ a.app = b.app
    /\ a.app = Zero => a.proto = b.proto /\ a.ports = b.ports

rowOf(row, spec) ==
    /\ row.act = spec.act /\ sameMatch(row, spec)
    /\ Family(spec) # Zero => row.v6 = (Family(spec) = "v6")

families(spec, v6ok) ==
    CASE Family(spec) = "v4" -> { FALSE }
      [] Family(spec) = "v6" -> { TRUE }
      [] OTHER -> IF v6ok THEN { FALSE, TRUE } ELSE { FALSE }

\* The entries of s at the positions E, in their order.
Picked(s, E) ==
    LET at(k) == CHOOSE i \in E : Cardinality({ j \in E : j <= i }) = k
    IN  [k \in 1..Cardinality(E) |-> s[at(k)]]

\* One rule goes into one family: a twin that says the same is left alone, add
\* changes a twin's action where it stands, insert and prepend move it first.
Place(rules, op, row) ==
    LET twins == { i \in DOMAIN rules : rules[i].v6 = row.v6 /\ sameMatch(rules[i], row) }
        rest == IF twins = {} THEN rules ELSE RemoveAt(rules, First(twins))
        sixes == { i \in DOMAIN rest : rest[i].v6 }
        firstV6 == IF sixes = {} THEN Len(rest) + 1 ELSE First(sixes)
        at == IF op = "add" THEN IF row.v6 THEN Len(rest) + 1 ELSE firstV6
                            ELSE IF row.v6 THEN firstV6 ELSE 1
    IN  CASE twins # {} /\ rules[First(twins)].act = row.act -> rules
          [] twins # {} /\ rules[First(twins)].act # row.act /\ op = "add" ->
                [rules EXCEPT ![First(twins)] = row]
          [] OTHER -> InsertAt(rest, at, row)

Change(op, spec) == [op |-> op, spec |-> spec]

\* One change as ufw would make it: every row of a deleted spec goes, an added
\* spec is placed in each of its families, IPv4 first.
Made(rules, c, v6ok) ==
    LET in(rs, six) == IF six \in families(c.spec, v6ok) THEN Place(rs, c.op, Row(c.spec, six)) ELSE rs
    IN  IF c.op = "delete" THEN Picked(rules, { i \in DOMAIN rules : ~ rowOf(rules[i], c.spec) })
                           ELSE in(in(rules, FALSE), TRUE)

\* simulate: the plan's changes one after the other.
simulate(rules, plan, v6ok) ==
    LET after[n \in 0..Len(plan)] == IF n = 0 THEN rules ELSE Made(after[n - 1], plan[n], v6ok)
    IN  after[Len(plan)]

\* fwPlan.inverse
inverse(plan) ==
    [i \in DOMAIN plan |-> LET c == plan[Len(plan) + 1 - i]
                           IN  Change(IF c.op = "delete" THEN "add" ELSE "delete", c.spec)]

\* Mutant: a deny goes last like the rest.
PlanSpecLast(acc, added, rules, spec, v6ok) ==
    LET wrong == Picked(added, { i \in DOMAIN added :
                    /\ Family(added[i]) = Family(spec) /\ sameMatch(added[i], spec) /\ added[i].act # spec.act
                    /\ ~ Contains(acc.plan, Change("delete", added[i])) })
    IN  [plan |-> Append(acc.plan \o [i \in DOMAIN wrong |-> Change("delete", wrong[i])], Change("add", spec)),
         count |-> acc.count - Len(wrong) + 1]

\* planSpecs for one spec: rules that say otherwise of the same traffic go by
\* spec, one that says the same stays; a deny goes first, an allow last.
PlanSpec(acc, added, rules, spec, v6ok) ==
    LET alike == { i \in DOMAIN added : /\ Family(added[i]) = Family(spec) /\ sameMatch(added[i], spec)
                                        /\ ~ Contains(acc.plan, Change("delete", added[i])) }
        wrong == Picked(added, { i \in alike : added[i].act # spec.act })
        gone == acc.plan \o [i \in DOMAIN wrong |-> Change("delete", wrong[i])]
        left == simulate(rules, gone, v6ok)
        op == CASE spec.act = "deny" /\ Family(spec) = "v6" -> "prepend"
                [] spec.act = "deny" /\ Family(spec) # "v6" /\ \E i \in DOMAIN left : ~ left[i].v6 -> "insert"
                [] OTHER -> "add"
    IN  IF \E i \in alike : added[i].act = spec.act
        THEN [plan |-> gone, count |-> acc.count - Len(wrong)]
        ELSE [plan |-> Append(gone, Change(op, spec)), count |-> acc.count - Len(wrong) + 1]

planSpecs(added, rules, specs, v6ok) ==
    LET upto[n \in 0..Len(specs)] ==
            IF n = 0 THEN [plan |-> << >>, count |-> Len(added)]
                     ELSE PlanSpec(upto[n - 1], added, rules, specs[n], v6ok)
    IN  upto[Len(specs)]

\* What undoes a restored snapshot by spec.
restorePlan(cur, snap) ==
    LET only(s, t) == Picked(s, { i \in DOMAIN s : ~ Contains(t, s[i]) })
        changes(op, s) == [i \in DOMAIN s |-> Change(op, s[i])]
    IN  changes("delete", only(cur, snap)) \o changes("add", only(snap, cur))

\* rowSpecs: the user rule a row is listed for, NoRule when none.
specFor(row, added) ==
    LET S == { i \in DOMAIN added : rowOf(row, added[i]) }
    IN  IF S = {} THEN NoRule ELSE added[First(S)]

-----------------------------------------------------------------------------
(* firewalld: a zone as the rule model, and a plan as changes of the zone. *)

\* fwdZone: its parts, and what is known of the ports of services.
IsZone(z) ==
    /\ z = [ports |-> z.ports, services |-> z.services, rich |-> z.rich,
            policy |-> z.policy, svc |-> z.svc]
    /\ z.ports \in Seq(SpecSet) /\ z.services \in Seq(Names)
    /\ z.rich \in Seq([spec : SpecSet, prio : Int, service : Names, plain : BOOLEAN])
    /\ \A svc \in DOMAIN z.svc : z.svc[svc] \in SUBSET Nat

\* Rows a service stands for: its ports when they are known, else one unknown.
serviceRows(z, base, svc) ==
    IF svc \in DOMAIN z.svc THEN << [base EXCEPT !.app = svc, !.proto = "tcp", !.ports = z.svc[svc]] >>
                            ELSE << [base EXCEPT !.app = svc] >>

\* A rich rule that decides, as its rows.
richRows(z, x) == IF x.service = Zero THEN << x.spec >> ELSE serviceRows(z, x.spec, x.service)

\* The evaluation groups, in firewalld's order.
Group(x) == CASE x.prio < 0 -> "pre"
              [] x.prio > 0 -> "post"
              [] x.prio = 0 /\ x.spec.act \in Lets -> "allow"
              [] OTHER -> "deny"

Riches(z, group) ==
    FlattenSeq([i \in DOMAIN z.rich |-> IF Group(z.rich[i]) = group THEN richRows(z, z.rich[i]) ELSE << >>])

\* fwdZone.status: IPv4 rows first, then IPv6, each in evaluation order. Rich
\* rules of one group share one priority here.
ZoneRules(z) ==
    LET entries == Riches(z, "pre") \o Riches(z, "deny") \o z.ports
                   \o FlattenSeq([i \in DOMAIN z.services |-> serviceRows(z, Spec0, z.services[i])])
                   \o Riches(z, "allow") \o Riches(z, "post")
        rows(six) == LET family == { Zero, IF six THEN "v6" ELSE "v4" }
                         es == Picked(entries, { i \in DOMAIN entries : Family(entries[i]) \in family })
                     IN  [i \in DOMAIN es |-> Row(es[i], six)]
    IN  rows(FALSE) \o rows(TRUE)

\* fwdZone.specs: what the agent can delete by spec.
ZoneSpecs(z) ==
    LET plain == Picked(z.rich, { i \in DOMAIN z.rich : z.rich[i].plain })
    IN  z.ports \o [i \in DOMAIN z.services |-> [Spec0 EXCEPT !.app = z.services[i]]]
        \o [i \in DOMAIN plain |-> plain[i].spec]

\* fwdArgs: what firewalld cannot take.
FwdTakes(spec) ==
    /\ spec.dir = "in" /\ spec.only = Zero /\ spec.act # "limit"
    /\ spec.app # Zero => spec.act = "allow" /\ spec.from = {}
    /\ spec.app = Zero => (spec.proto # Zero => spec.ports # {})
                        /\ (spec.simple /\ spec.act = "allow" => spec.ports # {})

FwdTakesAll(plan) == \A i \in DOMAIN plan : FwdTakes(plan[i].spec)

\* One entry of a change: a port entry when it only opens ports, a service for
\* an app, else a rich rule.
FwdPut(z, op, x) ==
    LET put(s, y) == IF op = "delete" THEN Picked(s, { i \in DOMAIN s : s[i] # y })
                     ELSE IF Contains(s, y) THEN s ELSE Append(s, y)
    IN  CASE x.app # Zero -> [z EXCEPT !.services = put(@, x.app)]
          [] x.app = Zero /\ x.simple /\ x.act = "allow" -> [z EXCEPT !.ports = put(@, x)]
          [] OTHER -> [z EXCEPT !.rich = put(@, [spec |-> x, prio |-> 0, service |-> Zero, plain |-> TRUE])]

\* Both protocols are an entry each.
FwdChange(z, c) ==
    LET entry(proto) == [c.spec EXCEPT !.proto = proto]
    IN  IF c.spec.proto = Zero /\ c.spec.ports # {}
        THEN FwdPut(FwdPut(z, c.op, entry("tcp")), c.op, entry("udp"))
        ELSE FwdPut(z, c.op, c.spec)

\* firewalldBackend.Apply, every command taken.
FwdApply(z, plan) ==
    LET after[n \in 0..Len(plan)] == IF n = 0 THEN z ELSE FwdChange(after[n - 1], plan[n])
    IN  after[Len(plan)]
=============================================================================
