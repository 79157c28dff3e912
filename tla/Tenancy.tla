--------------------------------- MODULE Tenancy ---------------------------------
(***************************************************************************)
(* What the rent pallet promises to the owner and the tenant of a          *)
(* collectible, without how it keeps it: a tenant has a lease until a      *)
(* block, the lease is settled when that block opens, before anybody can   *)
(* act in it, and the only money that moves for it goes from the tenant to *)
(* the owner.  There is no schedule, no list, no capacity and no loop.     *)
(***************************************************************************)
EXTENDS Integers

CONSTANTS Id, Account, None, Horizon    \* blocks are counted modulo Horizon

VARIABLES
    owner,      \* collectible -> its owner, None if it does not exist
    lease,      \* collectible -> its lease, None if it is vacant
    funds,      \* account -> what it holds
    now,        \* the current block
    opening     \* the block is being opened: leases are settled, nobody acts

vars == << owner, lease, funds, now, opening >>

Init ==
    /\ owner = [id \in Id |-> None]
    /\ lease = [id \in Id |-> None]
    /\ funds \in [Account -> Nat]
    /\ opening = FALSE
    /\ now \in 0 .. Horizon - 1

\* The tenant of id pays its owner, and nobody else gains or loses.
Pays(tenant, id) ==
    \E amount \in 0 .. funds[tenant] :
        funds' = [funds EXCEPT ![tenant] = @ - amount, ![owner[id]] = @ + amount]

\* A lease of a period from now is due then or, when that block is taken, in the
\* block after this one.
Granted(period) == {(now + period) % Horizon, (now + 1) % Horizon}

Create(id, a) ==
    /\ ~opening
    /\ owner[id] = None
    /\ owner' = [owner EXCEPT ![id] = a]
    /\ UNCHANGED << lease, funds, now, opening >>

Destroy(id) ==
    /\ ~opening
    /\ owner[id] # None
    /\ lease[id] = None
    /\ owner' = [owner EXCEPT ![id] = None]
    /\ UNCHANGED << lease, funds, now, opening >>

Let(id) ==
    /\ ~opening
    /\ owner[id] # None
    /\ lease[id] = None
    /\ \E tenant \in Account \ {owner[id]}, period \in 0 .. Horizon - 1 :
           /\ \E due \in Granted(period), renew \in BOOLEAN :
                  lease' = [lease EXCEPT ![id] =
                      [tenant |-> tenant, due |-> due, period |-> period, renew |-> renew]]
           /\ Pays(tenant, id)
    /\ UNCHANGED << owner, now, opening >>

Prolong(id) ==
    /\ ~opening
    /\ lease[id] # None
    /\ \E due \in 0 .. Horizon - 1 : lease' = [lease EXCEPT ![id].due = due]
    /\ Pays(lease[id].tenant, id)
    /\ UNCHANGED << owner, now, opening >>

SetRenew(id, renew) ==
    /\ ~opening
    /\ lease[id] # None
    /\ lease' = [lease EXCEPT ![id].renew = renew]
    /\ UNCHANGED << owner, funds, now, opening >>

OpenBlock ==
    /\ ~opening
    /\ now' = now + 1
    /\ opening' = TRUE
    /\ UNCHANGED << owner, lease, funds >>

DueNow(id) == opening /\ lease[id] # None /\ lease[id].due = now

Renew(id) ==
    /\ DueNow(id)
    /\ lease[id].renew
    /\ \E due \in Granted(lease[id].period) :
           lease' = [lease EXCEPT ![id].due = due]
    /\ Pays(lease[id].tenant, id)
    /\ UNCHANGED << owner, now, opening >>

Expire(id) ==
    /\ DueNow(id)
    /\ lease' = [lease EXCEPT ![id] = None]
    /\ UNCHANGED << owner, funds, now, opening >>

\* The block is open once every lease that is due now has been settled.  One of
\* no block is due again as soon as it is renewed, and does not count.
Opened ==
    /\ opening
    /\ \A id \in Id : DueNow(id) => lease[id].period = 0
    /\ opening' = FALSE
    /\ UNCHANGED << owner, lease, funds, now >>

\* Accounts move their funds for reasons of their own.
MoveFunds ==
    /\ ~opening
    /\ funds' \in [Account -> Nat]
    /\ UNCHANGED << owner, lease, now, opening >>

Next ==
    \/ \E id \in Id :
           \/ \E a \in Account : Create(id, a)
           \/ Destroy(id)
           \/ Let(id)
           \/ Prolong(id)
           \/ \E renew \in BOOLEAN : SetRenew(id, renew)
           \/ Renew(id)
           \/ Expire(id)
    \/ OpenBlock
    \/ Opened
    \/ MoveFunds

Spec == Init /\ [][Next]_vars

================================================================================
