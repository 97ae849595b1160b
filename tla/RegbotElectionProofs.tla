------------------------ MODULE RegbotElectionProofs ------------------------
(***************************************************************************)
(* That one instance at a time registers the trunks, and the ones its      *)
(* configuration names, for any number of instances and gateways, as long  *)
(* as no check is late or fails.                                           *)
(***************************************************************************)
EXTENDS RegbotElection, TLAPS

\* Whoever acts as the registrar holds the key: the flag follows the token, only the
\* flagged instance renews, updates and registers, and only others try to grab the role.
LeaseInv ==
  /\ \A n \in Nodes : active[n] => key = n
  /\ \A n \in Nodes : check[n] = "renew" => active[n]
  /\ \A n \in Nodes : check[n] \in {"claim", "grab"} => ~active[n]
  /\ \A n \in Nodes : ~active[n] => Registers(n) = {}
  /\ \A n \in Nodes, s \in Slots : ~active[n] => updates[n][s] = Idle

\* A holder whose check was late may be overtaken: nothing is claimed from then on.
IInv == TypeOK /\ (faults = 0 => LeaseInv)

----------------------------------------------------------------------------
(* Type correctness *)

LEMMA UpdateTypes == /\ Idle \in Update
                     /\ [pc |-> "lookup", todo |-> {}] \in Update
                     /\ \A todo \in SUBSET Gateways : Starting(todo) \in Update
BY DEF Idle, Update, Starting

LEMMA SetUpdate ==
  ASSUME TypeOK, NEW n \in Nodes, NEW s \in Slots, NEW u \in Update
  PROVE  [updates EXCEPT ![n][s] = u] \in [Nodes -> [Slots -> Update]]
<1>1. updates \in [Nodes -> [Slots -> Update]]
  BY DEF TypeOK
<1>2. [updates[n] EXCEPT ![s] = u] \in [Slots -> Update]
  BY <1>1
<1>3. QED
  BY <1>1, <1>2

LEMMA BeginTypes ==
  ASSUME TypeOK, NEW n \in Nodes, BeginUpdate(n)
  PROVE  updates' \in [Nodes -> [Slots -> Update]]
BY UpdateTypes, SetUpdate DEF BeginUpdate

LEMMA StopTypes ==
  ASSUME TypeOK, NEW n \in Nodes, StopRegbots(n)
  PROVE  /\ regbots' \in [Nodes -> SUBSET Gateways] /\ asking' \in [Nodes -> SUBSET Gateways]
         /\ stopped' \in [Nodes -> SUBSET Gateways] /\ zombies' \in [Nodes -> SUBSET Gateways]
BY DEF StopRegbots, TypeOK

LEMMA GrabTypes ==
  ASSUME TypeOK, NEW n \in Nodes, Grab(n)
  PROVE  /\ key' \in Nodes \cup {"none", "gone"}
         /\ active' \in [Nodes -> BOOLEAN]
         /\ check' \in [Nodes -> {"claim", "idle", "renew", "grab"}]
         /\ updates' \in [Nodes -> [Slots -> Update]]
<1>1. check' \in [Nodes -> {"claim", "idle", "renew", "grab"}]
  BY DEF Grab, TypeOK
<1>2. CASE key = "none"
  BY <1>1, <1>2, BeginTypes DEF Grab, TypeOK
<1>3. CASE key # "none"
  BY <1>1, <1>3 DEF Grab, TypeOK
<1>4. QED
  BY <1>2, <1>3

\* Every variable keeps its type, whatever the bounds and the faults.
THEOREM RegbotTypes == Spec => []TypeOK
<1>1. Init => TypeOK
  BY UpdateTypes DEF Init, TypeOK
<1>2. TypeOK /\ [Next]_vars => TypeOK'
  <2> SUFFICES ASSUME TypeOK, [Next]_vars PROVE TypeOK'
    OBVIOUS
  <2>1. ASSUME NEW n \in Nodes, Claim(n) PROVE TypeOK'
    BY <2>1, GrabTypes DEF Claim, TypeOK, botVars
  <2>2. ASSUME NEW n \in Nodes, CheckStatus(n) PROVE TypeOK'
    <3>1. UNCHANGED <<key, active, seen, updates, config, faults, changes, crashes>>
      BY <2>2 DEF CheckStatus
    <3>2. check' \in [Nodes -> {"claim", "idle", "renew", "grab"}]
      BY <2>2 DEF CheckStatus, TypeOK
    <3>3. StopRegbots(n) \/ UNCHANGED botVars
      BY <2>2 DEF CheckStatus
    <3>4. QED
      BY <3>1, <3>2, <3>3, StopTypes DEF TypeOK, botVars
  <2>3. ASSUME NEW n \in Nodes, Renew(n) PROVE TypeOK'
    BY <2>3, BeginTypes DEF Renew, TypeOK, botVars
  <2>4. ASSUME NEW n \in Nodes, GrabVacant(n) PROVE TypeOK'
    BY <2>4, GrabTypes DEF GrabVacant, TypeOK, botVars
  <2>5. ASSUME NEW n \in Nodes, CommandFails(n) PROVE TypeOK'
    BY <2>5 DEF CommandFails, Fault, TypeOK, botVars
  <2>6. ASSUME NEW n \in Nodes, NEW s \in Slots, NEW found \in SUBSET Gateways,
               LookUp(n, s, found)
        PROVE  TypeOK'
    <3>0. faults' \in Nat
      BY <2>6 DEF LookUp, Fault, TypeOK
    <3>1. CASE found = seen[n]
      <4>1. updates' = [updates EXCEPT ![n][s] = Idle]
        BY <2>6, <3>1 DEF LookUp
      <4>2. updates' \in [Nodes -> [Slots -> Update]]
        BY <4>1, UpdateTypes, SetUpdate
      <4>3. QED
        BY <2>6, <3>0, <3>1, <4>2 DEF LookUp, TypeOK, botVars
    <3>2. CASE found # seen[n]
      <4>1. StopRegbots(n)
        BY <2>6, <3>2 DEF LookUp
      <4>2. \E u \in Update : updates' = [updates EXCEPT ![n][s] = u]
        BY <2>6, <3>2, UpdateTypes DEF LookUp
      <4>3. updates' \in [Nodes -> [Slots -> Update]]
        BY <4>2, SetUpdate
      <4>4. QED
        BY <2>6, <3>0, <3>2, <4>1, <4>3, StopTypes DEF LookUp, TypeOK
    <3>3. QED
      BY <3>1, <3>2
  <2>7. ASSUME NEW n \in Nodes, NEW s \in Slots, UpdateFails(n, s) PROVE TypeOK'
    BY <2>7, UpdateTypes, SetUpdate DEF UpdateFails, Fault, TypeOK, botVars
  <2>8. ASSUME NEW n \in Nodes, NEW s \in Slots, NEW g \in Gateways, StartRegbot(n, s, g)
        PROVE  TypeOK'
    <3>1. updates[n][s].todo \in SUBSET Gateways
      BY DEF TypeOK, Update
    <3>2. Starting(updates[n][s].todo \ {g}) \in Update
      BY <3>1, UpdateTypes
    <3>3. updates' \in [Nodes -> [Slots -> Update]]
      BY <2>8, <3>2, SetUpdate DEF StartRegbot
    <3>4. QED
      BY <2>8, <3>3 DEF StartRegbot, TypeOK
  <2>9. ASSUME NEW n \in Nodes, NEW g \in Gateways, Response(n, g) PROVE TypeOK'
    BY <2>9 DEF Response, TypeOK
  <2>10. ASSUME NEW n \in Nodes, NEW g \in Gateways, ResponseAfterStop(n, g) PROVE TypeOK'
    BY <2>10 DEF ResponseAfterStop, TypeOK
  <2>11. ASSUME NEW n \in Nodes, NEW g \in Gateways, Register(n, g) PROVE TypeOK'
    BY <2>11 DEF Register, TypeOK
  <2>12. ASSUME NEW n \in Nodes, Crash(n) PROVE TypeOK'
    <3>1. [s \in Slots |-> Idle] \in [Slots -> Update]
      BY UpdateTypes
    <3>2. QED
      BY <2>12, <3>1 DEF Crash, TypeOK
  <2>13. CASE KeyExpires
    BY <2>13 DEF KeyExpires, Fault, TypeOK, botVars
  <2>14. CASE ConfigChanges
    BY <2>14 DEF ConfigChanges, TypeOK, botVars
  <2>15. CASE UNCHANGED vars
    BY <2>15 DEF vars, TypeOK
  <2>16. QED
    BY <2>1, <2>2, <2>3, <2>4, <2>5, <2>6, <2>7, <2>8, <2>9, <2>10, <2>11, <2>12, <2>13,
       <2>14, <2>15 DEF Next, Role, UpdateStep, Bot
<1>3. QED
  BY <1>1, <1>2, PTL DEF Spec
----------------------------------------------------------------------------
(* One registrar *)

LEMMA FaultsGrow ==
  ASSUME TypeOK, [Next]_vars, faults' = 0
  PROVE  faults = 0
<1>1. ASSUME NEW n \in Nodes, Role(n) PROVE faults' = faults \/ Fault
  BY <1>1 DEF Role, Claim, CheckStatus, Renew, GrabVacant, CommandFails
<1>2. ASSUME NEW n \in Nodes, UpdateStep(n) PROVE faults' = faults \/ Fault
  BY <1>2 DEF UpdateStep, LookUp, UpdateFails, StartRegbot
<1>3. ASSUME NEW n \in Nodes, Bot(n) PROVE faults' = faults
  BY <1>3 DEF Bot, Response, ResponseAfterStop, Register
<1>4. ASSUME NEW n \in Nodes, Crash(n) PROVE faults' = faults
  BY <1>4 DEF Crash
<1>5. CASE KeyExpires \/ ConfigChanges
  BY <1>5 DEF KeyExpires, ConfigChanges, Fault, TypeOK
<1>6. CASE UNCHANGED vars
  BY <1>6 DEF vars
<1>7. QED
  BY <1>1, <1>2, <1>3, <1>4, <1>5, <1>6 DEF Next, Fault, TypeOK

LEMMA NoFault ==
  ASSUME TypeOK, faults' = 0
  PROVE  ~Fault
BY DEF Fault, TypeOK

\* Until a check is late or fails, the flag of the role follows the token in redis, and
\* only the instance with the flag renews, updates and registers.
THEOREM LeaseIsExclusive == Spec => []IInv
<1>1. Init => IInv
  <2> SUFFICES ASSUME Init PROVE IInv
    OBVIOUS
  <2>1. TypeOK
    BY UpdateTypes DEF Init, TypeOK
  <2>2. LeaseInv
    BY DEF Init, LeaseInv, Registers
  <2>3. QED
    BY <2>1, <2>2 DEF IInv
<1>2. IInv /\ [Next]_vars => (faults = 0 => LeaseInv)'
  <2> SUFFICES ASSUME TypeOK, LeaseInv, [Next]_vars, ~Fault PROVE LeaseInv'
    BY FaultsGrow, NoFault DEF IInv
  <2>1. ASSUME NEW n \in Nodes, Grab(n), ~active[n], UNCHANGED botVars PROVE LeaseInv'
    <3>1. CASE key = "none"
      <4>1. \A m \in Nodes : ~active[m]
        BY <3>1, RegbotAssumption DEF LeaseInv
      <4>2. PICK s \in Slots : updates' = [updates EXCEPT ![n][s] = [pc |-> "lookup", todo |-> {}]]
        BY <2>1, <3>1 DEF Grab, BeginUpdate
      <4>3. /\ key' = n /\ active' = [active EXCEPT ![n] = TRUE]
            /\ check' = [check EXCEPT ![n] = "idle"]
        BY <2>1, <3>1 DEF Grab
      <4>4. \A m \in Nodes \ {n} : updates'[m] = updates[m]
        BY <4>2 DEF TypeOK
      <4>5. QED
        BY <2>1, <4>1, <4>3, <4>4 DEF TypeOK, LeaseInv, Registers, botVars
    <3>2. CASE key # "none"
      BY <2>1, <3>2 DEF Grab, TypeOK, LeaseInv, Registers, botVars
    <3>3. QED
      BY <3>1, <3>2
  <2>2. ASSUME NEW n \in Nodes, Claim(n) PROVE LeaseInv'
    BY <2>1, <2>2 DEF Claim, LeaseInv
  <2>3. ASSUME NEW n \in Nodes, GrabVacant(n) PROVE LeaseInv'
    BY <2>1, <2>3 DEF GrabVacant, LeaseInv
  <2>4. ASSUME NEW n \in Nodes, CheckStatus(n) PROVE LeaseInv'
    <3>1. active[n] => key = n
      BY DEF LeaseInv
    <3>2. UNCHANGED botVars
      BY <2>4, <3>1, RegbotAssumption DEF CheckStatus
    <3>3. UNCHANGED <<key, active, updates>>
      BY <2>4 DEF CheckStatus
    <3>4. \/ active[n] /\ check' = [check EXCEPT ![n] = "renew"]
          \/ ~active[n] /\ check' = [check EXCEPT ![n] = "grab"]
      BY <2>4, <3>1, RegbotAssumption DEF CheckStatus
    <3>5. QED
      BY <3>2, <3>3, <3>4 DEF TypeOK, LeaseInv, Registers, botVars
  <2>5. ASSUME NEW n \in Nodes, Renew(n) PROVE LeaseInv'
    <3>1. active[n] /\ key = n
      BY <2>5 DEF Renew, LeaseInv
    <3>2. PICK s \in Slots : updates' = [updates EXCEPT ![n][s] = [pc |-> "lookup", todo |-> {}]]
      BY <2>5 DEF Renew, BeginUpdate
    <3>3. \A m \in Nodes \ {n} : updates'[m] = updates[m]
      BY <3>2 DEF TypeOK
    <3>4. key' = n /\ check' = [check EXCEPT ![n] = "idle"] /\ UNCHANGED active
          /\ UNCHANGED botVars
      BY <2>5 DEF Renew
    <3>5. QED
      BY <3>1, <3>3, <3>4 DEF TypeOK, LeaseInv, Registers, botVars
  <2>6. ASSUME NEW n \in Nodes, NEW s \in Slots, NEW u, updates[n][s] # Idle,
               updates' = [updates EXCEPT ![n][s] = u],
               UNCHANGED <<key, active, check>>,
               \A m \in Nodes \ {n} : Registers(m)' = Registers(m)
        PROVE  LeaseInv'
    <3>1. active[n]
      BY <2>6 DEF LeaseInv
    <3>2. \A m \in Nodes \ {n} : updates'[m] = updates[m]
      BY <2>6 DEF TypeOK
    <3>3. QED
      BY <2>6, <3>1, <3>2 DEF LeaseInv
  <2>7. ASSUME NEW n \in Nodes, NEW s \in Slots, NEW found \in SUBSET Gateways,
               LookUp(n, s, found)
        PROVE  LeaseInv'
    <3>1. updates[n][s] # Idle /\ UNCHANGED <<key, active, check>>
      BY <2>7 DEF LookUp, Idle
    <3>2. \E u : updates' = [updates EXCEPT ![n][s] = u]
      BY <2>7 DEF LookUp
    <3>3. StopRegbots(n) \/ UNCHANGED botVars
      BY <2>7 DEF LookUp
    <3>4. \A m \in Nodes \ {n} : Registers(m)' = Registers(m)
      BY <3>3 DEF StopRegbots, Registers, botVars, TypeOK
    <3>5. QED
      BY <2>6, <3>1, <3>2, <3>4
  <2>8. ASSUME NEW n \in Nodes, NEW s \in Slots, NEW g \in Gateways, StartRegbot(n, s, g)
        PROVE  LeaseInv'
    <3>1. updates[n][s] # Idle /\ UNCHANGED <<key, active, check>>
      BY <2>8 DEF StartRegbot, Idle
    <3>2. \E u : updates' = [updates EXCEPT ![n][s] = u]
      BY <2>8 DEF StartRegbot
    <3>3. \A m \in Nodes \ {n} : Registers(m)' = Registers(m)
      BY <2>8 DEF StartRegbot, Registers, TypeOK
    <3>4. QED
      BY <2>6, <3>1, <3>2, <3>3
  <2>9. ASSUME NEW n \in Nodes, NEW s \in Slots, UpdateFails(n, s) PROVE LeaseInv'
    BY <2>9 DEF UpdateFails
  <2>10. ASSUME NEW n \in Nodes, UNCHANGED <<key, active, check, updates>>,
                Registers(n) # {}, \A m \in Nodes \ {n} : Registers(m)' = Registers(m)
         PROVE  LeaseInv'
    BY <2>10 DEF LeaseInv
  <2>11. ASSUME NEW n \in Nodes, NEW g \in Gateways, Response(n, g) PROVE LeaseInv'
    BY <2>11 DEF Response, LeaseInv, Registers
  <2>12. ASSUME NEW n \in Nodes, NEW g \in Gateways, ResponseAfterStop(n, g)
         PROVE  LeaseInv'
    <3>1. Registers(n) # {}
      BY <2>12 DEF ResponseAfterStop, Registers
    <3>2. \A m \in Nodes \ {n} : Registers(m)' = Registers(m)
      BY <2>12 DEF ResponseAfterStop, Registers, TypeOK
    <3>3. QED
      BY <2>10, <2>12, <3>1, <3>2 DEF ResponseAfterStop
  <2>13. ASSUME NEW n \in Nodes, NEW g \in Gateways, Register(n, g) PROVE LeaseInv'
    BY <2>13 DEF Register, LeaseInv, Registers
  <2>14. ASSUME NEW n \in Nodes, Crash(n) PROVE LeaseInv'
    <3>1. \A m \in Nodes \ {n} : active[m] => key' = m
      BY <2>14 DEF Crash, LeaseInv
    <3>2. ~active'[n] /\ check'[n] = "claim" /\ Registers(n)' = {}
          /\ \A s \in Slots : updates'[n][s] = Idle
      BY <2>14 DEF Crash, TypeOK, Registers
    <3>3. \A m \in Nodes \ {n} :
            /\ active'[m] = active[m] /\ check'[m] = check[m] /\ updates'[m] = updates[m]
            /\ Registers(m)' = Registers(m)
      BY <2>14 DEF Crash, TypeOK, Registers
    <3>4. QED
      BY <3>1, <3>2, <3>3 DEF LeaseInv
  <2>15. CASE KeyExpires
    <3>1. key = "gone" /\ \A m \in Nodes : ~active[m]
      BY <2>15, RegbotAssumption DEF KeyExpires, LeaseInv
    <3>2. QED
      BY <2>15, <3>1 DEF KeyExpires, LeaseInv, Registers, botVars
  <2>16. ASSUME NEW n \in Nodes, CommandFails(n) PROVE LeaseInv'
    BY <2>16 DEF CommandFails
  <2>17. CASE ConfigChanges
    BY <2>17 DEF ConfigChanges, LeaseInv, Registers, botVars
  <2>18. CASE UNCHANGED vars
    BY <2>18 DEF vars, LeaseInv, Registers
  <2>19. QED
    BY <2>2, <2>3, <2>4, <2>5, <2>7, <2>8, <2>9, <2>11, <2>12, <2>13, <2>14, <2>15, <2>16,
       <2>17, <2>18 DEF Next, Role, UpdateStep, Bot
<1>3. QED
  BY <1>1, <1>2, RegbotTypes, PTL DEF Spec, IInv

\* OneRegistrar, for every value of the constants.
THEOREM RegistrarIsUnique == Spec => []OneRegistrar
<1>1. IInv => OneRegistrar
  BY DEF IInv, LeaseInv, OneRegistrar
<1>2. QED
  BY <1>1, LeaseIsExclusive, PTL

\* RoleIsNotTaken, for every value of the constants: the holder's unconditional renewal
\* writes the token that is there already.
THEOREM RoleIsKept == Spec => RoleIsNotTaken
<1>1. IInv /\ [Next]_vars =>
        [faults' = 0 /\ key' # key
           => ("none" \in {key, key'} \/ key' = "gone")]_<<key, faults>>
  <2> SUFFICES ASSUME IInv, Next, faults' = 0, key' # key
               PROVE  "none" \in {key, key'} \/ key' = "gone"
    BY DEF vars
  <2>0. LeaseInv
    BY FaultsGrow DEF IInv
  <2>1. ASSUME NEW n \in Nodes, Role(n) PROVE "none" \in {key, key'}
    <3>1. ~Renew(n)
      BY <2>0 DEF Renew, LeaseInv
    <3>2. QED
      BY <2>1, <3>1 DEF Role, Claim, GrabVacant, Grab, CheckStatus, CommandFails
  <2>2. ASSUME NEW n \in Nodes, UpdateStep(n) \/ Bot(n) PROVE FALSE
    BY <2>2 DEF UpdateStep, Bot, LookUp, UpdateFails, StartRegbot, Response,
                ResponseAfterStop, Register
  <2>3. ASSUME NEW n \in Nodes, Crash(n) PROVE "none" \in {key, key'} \/ key' = "gone"
    BY <2>3 DEF Crash
  <2>4. CASE KeyExpires \/ ConfigChanges
    BY <2>4 DEF KeyExpires, ConfigChanges
  <2>5. QED
    BY <2>1, <2>2, <2>3, <2>4 DEF Next
<1>2. QED
  BY <1>1, LeaseIsExclusive, PTL DEF Spec, RoleIsNotTaken
----------------------------------------------------------------------------
(* The holder's bots *)

\* While no check overtakes an update, an instance has one run at most; apart from those it
\* has yet to start, its bots are those of the gateways it found.
Holding(n) ==
  /\ ~active[n] => seen[n] = {}
  /\ check[n] # "idle" => Quiet(n)
  /\ \A s, t \in Slots : updates[n][s] # Idle /\ updates[n][t] # Idle => s = t
  /\ \A s \in Slots : updates[n][s].pc = "start" => regbots[n] \cup updates[n][s].todo = seen[n]
  /\ (\A s \in Slots : updates[n][s].pc # "start") => regbots[n] = seen[n]

HolderInv == \A n \in Nodes : Holding(n)

\* A step of one instance is none of another's.
LEMMA HoldingFrame ==
  ASSUME NEW m \in Nodes, Holding(m), active'[m] = active[m], check'[m] = check[m],
         seen'[m] = seen[m], updates'[m] = updates[m], regbots'[m] = regbots[m]
  PROVE  Holding(m)'
BY DEF Holding, Quiet

\* An update that begins is the only one.
LEMMA BeginHolding ==
  ASSUME TypeOK, NEW n \in Nodes, Holding(n), Quiet(n), BeginUpdate(n),
         check'[n] = "idle", seen'[n] = seen[n], regbots'[n] = regbots[n], active'[n]
  PROVE  Holding(n)' /\ \A m \in Nodes \ {n} : updates'[m] = updates[m]
<1>1. PICK s \in Slots : updates' = [updates EXCEPT ![n][s] = [pc |-> "lookup", todo |-> {}]]
  BY DEF BeginUpdate
<1>2. updates'[n][s] = [pc |-> "lookup", todo |-> {}]
      /\ \A t \in Slots \ {s} : updates'[n][t] = Idle
  BY <1>1 DEF TypeOK, Quiet
<1>3. \A m \in Nodes \ {n} : updates'[m] = updates[m]
  BY <1>1 DEF TypeOK
<1>4. regbots[n] = seen[n]
  BY DEF Holding, Quiet, Idle
<1>5. \A t \in Slots : updates'[n][t].pc # "start"
  BY <1>2 DEF Idle
<1>6. Holding(n)'
  BY <1>2, <1>4, <1>5 DEF Holding
<1> QED
  BY <1>3, <1>6

\* HolderRegisters holds of every instance's bots.
LEMMA HolderStep ==
  ASSUME ~Slow, TypeOK, LeaseInv, HolderInv, [Next]_vars, ~Fault
  PROVE  HolderInv'
<1>1. ASSUME NEW n \in Nodes, Grab(n), check[n] # "idle", ~active[n], UNCHANGED <<seen, regbots>>
      PROVE  HolderInv'
  <2>1. Holding(n) /\ Quiet(n) /\ check'[n] = "idle"
        /\ \A m \in Nodes \ {n} : check'[m] = check[m] /\ active'[m] = active[m]
    BY <1>1 DEF HolderInv, Holding, Grab, TypeOK
  <2>2. CASE key = "none"
    <3>1. BeginUpdate(n) /\ active'[n]
      BY <1>1, <2>2 DEF Grab, TypeOK
    <3>2. Holding(n)' /\ \A m \in Nodes \ {n} : updates'[m] = updates[m]
      BY <1>1, <2>1, <3>1, BeginHolding
    <3> QED
      BY <1>1, <2>1, <3>2, HoldingFrame DEF HolderInv
  <2>3. CASE key # "none"
    <3>1. active'[n] = FALSE /\ updates' = updates
      BY <1>1, <2>3 DEF Grab, TypeOK
    <3>2. Holding(n)'
      BY <1>1, <2>1, <3>1 DEF Holding, Quiet
    <3> QED
      BY <1>1, <2>1, <3>1, <3>2, HoldingFrame DEF HolderInv
  <2> QED
    BY <2>2, <2>3
<1>2. ASSUME NEW n \in Nodes, Claim(n) \/ GrabVacant(n) PROVE HolderInv'
  <2>1. Grab(n) /\ check[n] # "idle" /\ ~active[n] /\ UNCHANGED <<seen, regbots>>
    BY <1>2 DEF Claim, GrabVacant, LeaseInv, botVars
  <2> QED
    BY <1>1, <2>1
<1>3. ASSUME NEW n \in Nodes, CheckStatus(n) PROVE HolderInv'
  <2>1. active[n] => key = n
    BY DEF LeaseInv
  <2>2. Quiet(n) /\ UNCHANGED <<active, seen, updates, regbots>>
    BY <1>3, <2>1, RegbotAssumption DEF CheckStatus, botVars
  <2>3. \A m \in Nodes \ {n} : check'[m] = check[m]
    BY <1>3 DEF CheckStatus, TypeOK
  <2>4. Holding(n)'
    BY <2>2 DEF HolderInv, Holding, Quiet
  <2> QED
    BY <2>2, <2>3, <2>4, HoldingFrame DEF HolderInv
<1>4. ASSUME NEW n \in Nodes, Renew(n) PROVE HolderInv'
  <2>1. Quiet(n) /\ Holding(n) /\ active[n] /\ BeginUpdate(n)
        /\ UNCHANGED <<active, seen, regbots>>
    BY <1>4 DEF Renew, LeaseInv, HolderInv, Holding, botVars
  <2>2. check'[n] = "idle" /\ \A m \in Nodes \ {n} : check'[m] = check[m]
    BY <1>4 DEF Renew, TypeOK
  <2>3. Holding(n)' /\ \A m \in Nodes \ {n} : updates'[m] = updates[m]
    BY <2>1, <2>2, BeginHolding
  <2> QED
    BY <2>1, <2>2, <2>3, HoldingFrame DEF HolderInv
<1>5. ASSUME NEW n \in Nodes, NEW s \in Slots, NEW u \in Update, updates[n][s] # Idle,
             updates' = [updates EXCEPT ![n][s] = u], UNCHANGED <<active, check>>,
             \A m \in Nodes \ {n} : seen'[m] = seen[m] /\ regbots'[m] = regbots[m],
             IF u.pc = "start" THEN regbots'[n] \cup u.todo = seen'[n]
                               ELSE u = Idle /\ regbots'[n] = seen'[n]
      PROVE  HolderInv'
  <2>1. active[n]
    BY <1>5 DEF LeaseInv
  <2>2. \A t \in Slots \ {s} : updates[n][t] = Idle
    BY <1>5 DEF HolderInv, Holding
  <2>3. updates'[n][s] = u /\ \A t \in Slots \ {s} : updates'[n][t] = Idle
    BY <1>5, <2>2 DEF TypeOK
  <2>4. \A m \in Nodes \ {n} : updates'[m] = updates[m]
    BY <1>5 DEF TypeOK
  <2>5. check[n] = "idle"
    BY <1>5 DEF HolderInv, Holding, Quiet
  <2>6. Holding(n)'
    BY <1>5, <2>1, <2>3, <2>5 DEF Holding, Idle
  <2> QED
    BY <1>5, <2>4, <2>6, HoldingFrame DEF HolderInv
<1>6. ASSUME NEW todo \in SUBSET Gateways
      PROVE  /\ Starting(todo) \in Update
             /\ IF Starting(todo).pc = "start" THEN Starting(todo).todo = todo
                                               ELSE Starting(todo) = Idle /\ todo = {}
  BY DEF Starting, Update, Idle
<1>7. ASSUME NEW n \in Nodes, NEW s \in Slots, NEW found \in SUBSET Gateways,
             LookUp(n, s, found)
      PROVE  HolderInv'
  <2>1. updates[n][s].pc = "lookup" /\ updates[n][s] # Idle /\ UNCHANGED <<active, check>>
    BY <1>7 DEF LookUp, Idle
  <2>2. CASE found = seen[n]
    <3>1. updates' = [updates EXCEPT ![n][s] = Idle] /\ UNCHANGED <<seen, regbots>>
      BY <1>7, <2>2 DEF LookUp, botVars
    <3>2. \A t \in Slots : updates[n][t].pc # "start"
      BY <2>1 DEF HolderInv, Holding, Idle
    <3>3. regbots[n] = seen[n]
      BY <3>2 DEF HolderInv, Holding
    <3>4. Idle \in Update /\ Idle.pc # "start"
      BY DEF Idle, Update
    <3> QED
      BY <1>5, <2>1, <3>1, <3>3, <3>4
  <2>3. CASE found # seen[n]
    <3>1. /\ updates' = [updates EXCEPT ![n][s] = Starting(found)]
          /\ seen'[n] = found /\ regbots'[n] = {}
          /\ \A m \in Nodes \ {n} : seen'[m] = seen[m] /\ regbots'[m] = regbots[m]
      <4>1. /\ updates' = [updates EXCEPT ![n][s] = Starting(found)]
            /\ seen' = [seen EXCEPT ![n] = found] /\ regbots' = [regbots EXCEPT ![n] = {}]
        BY <1>7, <2>3 DEF LookUp, StopRegbots
      <4> QED
        BY <4>1 DEF TypeOK
    <3>2. IF Starting(found).pc = "start"
          THEN regbots'[n] \cup Starting(found).todo = seen'[n]
          ELSE Starting(found) = Idle /\ regbots'[n] = seen'[n]
      BY <1>6, <3>1
    <3>3. Starting(found) \in Update
      BY <1>6
    <3> QED
      BY <1>5, <2>1, <3>1, <3>2, <3>3
  <2> QED
    BY <2>2, <2>3
<1>8. ASSUME NEW n \in Nodes, NEW s \in Slots, NEW g \in Gateways, StartRegbot(n, s, g)
      PROVE  HolderInv'
  <2> DEFINE left == updates[n][s].todo \ {g}
  <2>1. /\ updates[n][s] # Idle /\ UNCHANGED <<active, check, seen>>
        /\ updates' = [updates EXCEPT ![n][s] = Starting(left)]
    BY <1>8 DEF StartRegbot, Idle
  <2>2. regbots'[n] = regbots[n] \cup {g}
        /\ \A m \in Nodes \ {n} : regbots'[m] = regbots[m]
    BY <1>8 DEF StartRegbot, TypeOK
  <2>3. regbots[n] \cup updates[n][s].todo = seen[n] /\ g \in updates[n][s].todo
    BY <1>8 DEF StartRegbot, HolderInv, Holding
  <2>4. left \in SUBSET Gateways
    BY DEF TypeOK, Update
  <2>5. regbots'[n] \cup left = seen'[n]
    <3>1. \A x : x \in regbots'[n] \cup left <=> x \in regbots[n] \cup updates[n][s].todo
      <4> SUFFICES ASSUME NEW x
                   PROVE  x \in regbots'[n] \cup left <=> x \in regbots[n] \cup updates[n][s].todo
        OBVIOUS
      <4>1. CASE x = g
        BY <2>2, <2>3, <4>1
      <4>2. CASE x # g
        BY <2>2, <4>2
      <4> QED
        BY <4>1, <4>2
    <3>2. regbots'[n] \cup left = regbots[n] \cup updates[n][s].todo
      BY <3>1
    <3> QED
      BY <2>1, <2>3, <3>2
  <2> HIDE DEF left
  <2> QED
    <3>1. Starting(left) \in Update
      BY <1>6, <2>4
    <3>2. IF Starting(left).pc = "start"
          THEN regbots'[n] \cup Starting(left).todo = seen'[n]
          ELSE Starting(left) = Idle /\ regbots'[n] = seen'[n]
      BY <1>6, <2>4, <2>5
    <3> QED
      BY <1>5, <2>1, <2>2, <3>1, <3>2
<1>9. ASSUME NEW n \in Nodes, Crash(n) PROVE HolderInv'
  <2>1. /\ ~active'[n] /\ seen'[n] = {} /\ regbots'[n] = {}
        /\ \A s \in Slots : updates'[n][s] = Idle
        /\ \A m \in Nodes \ {n} :
             /\ active'[m] = active[m] /\ check'[m] = check[m] /\ seen'[m] = seen[m]
             /\ updates'[m] = updates[m] /\ regbots'[m] = regbots[m]
    BY <1>9 DEF Crash, TypeOK
  <2>2. Holding(n)'
    BY <2>1 DEF Holding, Quiet, Idle
  <2> QED
    BY <2>1, <2>2, HoldingFrame DEF HolderInv
<1>10. ASSUME UNCHANGED <<active, check, seen, updates, regbots>> PROVE HolderInv'
  BY <1>10, HoldingFrame DEF HolderInv
<1>11. ASSUME NEW n \in Nodes, Bot(n) PROVE HolderInv'
  BY <1>10, <1>11 DEF Bot, Response, ResponseAfterStop, Register
<1>12. CASE KeyExpires \/ ConfigChanges \/ UNCHANGED vars
  BY <1>10, <1>12 DEF KeyExpires, ConfigChanges, vars, botVars
<1>13. ASSUME NEW n \in Nodes, NEW s \in Slots, CommandFails(n) \/ UpdateFails(n, s) PROVE FALSE
  BY <1>13 DEF CommandFails, UpdateFails
<1>14. 1 \in Slots
  BY RegbotAssumption DEF Slots
<1> QED
  BY <1>2, <1>3, <1>4, <1>7, <1>8, <1>9, <1>11, <1>12, <1>13, <1>14
    DEF Next, Role, UpdateStep

\* HolderRegisters for any instances and gateways, unless an update may outlast the check
\* interval: the holder runs the bots of what it found last (updateCarrierRegbots).
THEOREM HolderSafe ==
  ASSUME ~Slow
  PROVE  Spec => []HolderRegisters
<1> DEFINE HInv == faults = 0 => HolderInv
<1>1. Init => HInv
  <2> SUFFICES ASSUME Init, NEW n \in Nodes PROVE Holding(n)
    BY DEF HolderInv
  <2>1. ~active[n] /\ seen[n] = {} /\ regbots[n] = {} /\ \A s \in Slots : updates[n][s] = Idle
    BY DEF Init
  <2> QED
    BY <2>1 DEF Holding, Quiet, Idle
<1>2. IInv /\ HInv /\ [Next]_vars => HInv'
  <2> SUFFICES ASSUME TypeOK, LeaseInv, HolderInv, [Next]_vars, ~Fault PROVE HolderInv'
    BY FaultsGrow, NoFault DEF IInv
  <2> QED
    BY HolderStep
<1>3. HInv => HolderRegisters
  BY DEF HolderInv, Holding, HolderRegisters, HoldersBots, Quiet, Idle
<1> HIDE DEF HInv
<1> QED
  BY <1>1, <1>2, <1>3, LeaseIsExclusive, PTL DEF Spec
=============================================================================
