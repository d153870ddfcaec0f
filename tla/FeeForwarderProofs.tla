------------------------- MODULE FeeForwarderProofs -------------------------
(***************************************************************************)
(* Theorems about the fee forwarder, for every set of users, tokens,       *)
(* operators, requests and target calls, and any fees, expirations and     *)
(* approvals.                                                              *)
(***************************************************************************)
EXTENDS FeeForwarder, FiniteRecursion

Allowances == [Tokens \X Users -> [amount : Nat, expiration : Nat]]

(* The records behind the types: what is signed, charged and approved.     *)
Records ==
  /\ allowance \in Allowances
  /\ approved \in [Tokens \X Users -> Nat]
  /\ granted \in [Tokens \X Users -> Nat]
  /\ swept \in [Tokens \X Users -> Nat]
  /\ signed \in [DOMAIN signed -> Requests]
  /\ charged \in [DOMAIN charged -> Int]

IInv == TypeOK /\ Records

(* An amount that counts only under a condition.                           *)
Part(condition, amount) == IF condition THEN amount ELSE 0

(* The fee a request takes from an entry, and what its target call takes   *)
(* from, brings to and draws under the allowance of an entry.              *)
FeeOf(entry, r, fee_amount) == Part(entry = <<r.fee_token, r.user>>, fee_amount)
OutOf(entry, r) == Part(entry = <<r.target.token, r.target.from>>, r.target.amount)
InTo(entry, r) == Part(entry = <<r.target.token, r.target.to>>, r.target.amount)
DrawnFrom(entry, r) ==
  Part(r.target.fn = "transfer_from" /\ entry = <<r.target.token, r.target.from>>,
       r.target.amount)

(* The allowance forward draws on, renewed if need be.                     *)
Renewed(entry, r) ==
  IF entry = <<r.fee_token, r.user>> THEN Approval(r).amount ELSE allowance[entry].amount

-----------------------------------------------------------------------------
LEMMA MaxPair ==
  ASSUME NEW a \in Nat, NEW b \in Int
  PROVE  Max({a, b}) \in Nat /\ Max({a, b}) >= a /\ Max({a, b}) >= b
<1>1. \E x \in {a, b} : \A y \in {a, b} : x >= y
  OBVIOUS
<1>2. Max({a, b}) \in {a, b} /\ Max({a, b}) >= a /\ Max({a, b}) >= b
  BY <1>1 DEF Max
<1>3. QED
  BY <1>2

(* What a transfer does to every balance, from and to equal or not, and    *)
(* what counting an amount does to every allowance.                        *)
IsMoved(c, b, token, from, to, amount) ==
  /\ c \in [Tokens \X Holders -> Nat]
  /\ \A entry \in Tokens \X Holders :
       c[entry] = b[entry] - Part(entry = <<token, from>>, amount)
                    + Part(entry = <<token, to>>, amount)

IsSpent(c, a, spent, amount) ==
  /\ c \in Allowances
  /\ \A entry \in Tokens \X Users :
       c[entry].amount = a[entry].amount - Part(entry = spent, amount)

LEMMA MoveValue ==
  ASSUME NEW b \in [Tokens \X Holders -> Nat], NEW token \in Tokens,
         NEW from \in Holders, NEW to \in Holders, NEW amount \in Nat,
         amount <= b[<<token, from>>]
  PROVE  IsMoved(Move(b, token, from, to, amount), b, token, from, to, amount)
<1> DEFINE f == <<token, from>>
           t == <<token, to>>
           c == [b EXCEPT ![f] = @ - amount]
<1>1. f \in Tokens \X Holders /\ t \in Tokens \X Holders
  OBVIOUS
<1>2. Move(b, token, from, to, amount) = [c EXCEPT ![t] = @ + amount]
  BY DEF Move
<1> HIDE DEF f, t
<1>3. amount <= b[f]
  BY DEF f
<1>4. c \in [Tokens \X Holders -> Nat] /\ \A entry \in Tokens \X Holders :
        c[entry] = b[entry] - Part(entry = f, amount)
  BY <1>1, <1>3 DEF Part
<1> HIDE DEF c
<1>5. /\ [c EXCEPT ![t] = @ + amount] \in [Tokens \X Holders -> Nat]
      /\ \A entry \in Tokens \X Holders :
           [c EXCEPT ![t] = @ + amount][entry] = c[entry] + Part(entry = t, amount)
  BY <1>1, <1>4 DEF Part
<1>6. QED
  BY <1>2, <1>4, <1>5 DEF f, t, IsMoved

LEMMA SpendValue ==
  ASSUME NEW a \in Allowances, NEW spent \in Tokens \X Users, NEW amount \in Nat,
         amount <= a[spent].amount
  PROVE  IsSpent(Spend(a, spent, amount), a, spent, amount)
<1>1. Spend(a, spent, amount)
        = [a EXCEPT ![spent] = [a[spent] EXCEPT !.amount = @ - amount]]
  BY DEF Spend
<1>2. [a[spent] EXCEPT !.amount = @ - amount] \in [amount : Nat, expiration : Nat]
  BY DEF Allowances
<1>3. [a[spent] EXCEPT !.amount = @ - amount].amount = a[spent].amount - amount
  BY DEF Allowances
<1>4. QED
  BY <1>1, <1>2, <1>3 DEF Allowances, Part, IsSpent

-----------------------------------------------------------------------------
(* What the guards of forward give: the fee is covered by the signed       *)
(* maximum, the allowance in force and the user's balance.                 *)
LEMMA ForwardGuards ==
  ASSUME IInv, NEW nonce, NEW fee_amount \in Int, NEW relayer,
         forward(nonce, fee_amount, relayer)
  PROVE  /\ nonce \in DOMAIN signed \ DOMAIN charged
         /\ signed[nonce] \in RequestType
         /\ fee_amount \in Nat /\ fee_amount <= signed[nonce].max_fee_amount
         /\ signed[nonce].max_fee_amount \in Nat
         /\ <<signed[nonce].fee_token, signed[nonce].user>> \in Tokens \X Users
         /\ Approval(signed[nonce]) \in [amount : Nat, expiration : Nat]
         /\ fee_amount <= Approval(signed[nonce]).amount
         /\ fee_amount <= balance[<<signed[nonce].fee_token, signed[nonce].user>>]
<1> DEFINE r == signed[nonce]
<1>1. nonce \in DOMAIN signed \ DOMAIN charged /\ r \in RequestType
  BY ForwarderAssumption DEF forward, IInv, Records
<1>2. /\ r.max_fee_amount \in Int /\ r.expiration_ledger \in Nat
      /\ r.fee_token \in Tokens /\ r.user \in Users
  BY <1>1 DEF RequestType
<1>3. 0 < fee_amount /\ fee_amount <= r.max_fee_amount
  BY DEF forward, FeeBounds
<1>4. Approval(r) \in [amount : Nat, expiration : Nat]
  <2>1. CASE NeedsApproval(r)
    BY <1>2, <1>3, <2>1 DEF Approval
  <2>2. CASE ~NeedsApproval(r)
    BY <1>2, <2>2 DEF Approval, IInv, Records, Allowances
  <2>3. QED
    BY <2>1, <2>2
<1>5. fee_amount <= Approval(r).amount /\ fee_amount <= balance[<<r.fee_token, r.user>>]
  BY DEF forward
<1> HIDE DEF r
<1>6. fee_amount \in Nat /\ r.max_fee_amount \in Nat
  BY <1>2, <1>3
<1>7. QED
  BY <1>1, <1>2, <1>3, <1>4, <1>5, <1>6 DEF r

(* The target call of an executed request: where it moves tokens from.     *)
LEMMA ForwardTarget ==
  ASSUME IInv, NEW nonce, NEW fee_amount \in Int, NEW relayer,
         forward(nonce, fee_amount, relayer)
  PROVE  /\ signed[nonce].target \in Calls
         /\ signed[nonce].target.fn = "transfer" =>
              \/ signed[nonce].target.from = Forwarder
              \/ /\ signed[nonce].target.from = signed[nonce].user
                 /\ signed[nonce].signs_target
         /\ signed[nonce].target.fn = "transfer_from" => signed[nonce].target.from \in Users
<1>1. signed[nonce].target \in Calls
  BY ForwardGuards DEF RequestType
<1>2. QED
  BY <1>1 DEF forward, InvokeTarget, TargetSucceeds, Calls
(* What forward does to the balances: the fee leaves the user, and the     *)
(* target call moves its amount.                                           *)
BalancesMoved(r, fee_amount) ==
  /\ balance' \in [Tokens \X Holders -> Nat]
  /\ \A entry \in Tokens \X Users :
       balance'[entry]
         = balance[entry] - FeeOf(entry, r, fee_amount) - OutOf(entry, r) + InTo(entry, r)

LEMMA ForwardBalances ==
  ASSUME IInv, NEW nonce, NEW fee_amount \in Int, NEW relayer,
         forward(nonce, fee_amount, relayer), NEW r, r = signed[nonce]
  PROVE  BalancesMoved(r, fee_amount)
<1> DEFINE call == r.target
           paid == Move(balance, r.fee_token, r.user, Forwarder, fee_amount)
           left == Spend([allowance EXCEPT ![<<r.fee_token, r.user>>] = Approval(r)],
                         <<r.fee_token, r.user>>, fee_amount)
<1>1. /\ r.fee_token \in Tokens /\ r.user \in Users /\ fee_amount \in Nat
      /\ fee_amount <= balance[<<r.fee_token, r.user>>]
  BY ForwardGuards DEF RequestType
<1>2. /\ call.token \in Tokens /\ call.from \in Holders /\ call.to \in Holders
      /\ call.amount \in Nat
  BY ForwardTarget DEF Calls
<1>3. balance \in [Tokens \X Holders -> Nat] /\ r.user \in Holders /\ Forwarder \in Holders
  BY <1>1 DEF IInv, TypeOK, Holders
<1>4. IsMoved(paid, balance, r.fee_token, r.user, Forwarder, fee_amount)
  BY <1>1, <1>3, MoveValue
<1>5. /\ call.amount <= paid[<<call.token, call.from>>]
      /\ balance' = Move(paid, call.token, call.from, call.to, call.amount)
  <2>1. InvokeTarget(r, paid, left)
    BY DEF forward
  <2> HIDE DEF paid, left
  <2>2. QED
    BY <2>1 DEF InvokeTarget, TargetSucceeds, TargetBalances
<1> HIDE DEF paid, call
<1>6. IsMoved(balance', paid, call.token, call.from, call.to, call.amount)
  <2>1. paid \in [Tokens \X Holders -> Nat]
    BY <1>4 DEF IsMoved
  <2>2. QED
    BY <1>2, <1>5, <2>1, MoveValue
<1>7. ASSUME NEW entry \in Tokens \X Users
      PROVE  paid[entry] = balance[entry] - Part(entry = <<r.fee_token, r.user>>, fee_amount)
  <2>1. entry \in Tokens \X Holders
    BY DEF Holders
  <2>2. entry # <<r.fee_token, Forwarder>>
    BY ForwarderAssumption
  <2>3. Part(entry = <<r.fee_token, Forwarder>>, fee_amount) = 0
    BY <2>2 DEF Part
  <2>4. balance[entry] \in Int /\ Part(entry = <<r.fee_token, r.user>>, fee_amount) \in Int
    BY <1>1, <1>3, <2>1 DEF Part
  <2>5. QED
    BY <1>4, <2>1, <2>3, <2>4 DEF IsMoved
<1>8. \A entry \in Tokens \X Users : entry \in Tokens \X Holders
  BY DEF Holders
<1>9. QED
  BY <1>6, <1>7, <1>8 DEF call, IsMoved, FeeOf, OutOf, InTo, BalancesMoved

(* What forward does to the allowances: the approval replaces the user's   *)
(* if it is needed, and the fee and a drawing target call both count.      *)
AllowancesSpent(r, fee_amount) ==
  /\ allowance' \in Allowances
  /\ \A entry \in Tokens \X Users :
       allowance'[entry].amount
         = Renewed(entry, r) - FeeOf(entry, r, fee_amount) - DrawnFrom(entry, r)

LEMMA ForwardAllowances ==
  ASSUME IInv, NEW nonce, NEW fee_amount \in Int, NEW relayer,
         forward(nonce, fee_amount, relayer), NEW r, r = signed[nonce]
  PROVE  AllowancesSpent(r, fee_amount)
<1> DEFINE call == r.target
           from == <<r.fee_token, r.user>>
           renewed == [allowance EXCEPT ![from] = Approval(r)]
           paid == Move(balance, r.fee_token, r.user, Forwarder, fee_amount)
           left == Spend(renewed, from, fee_amount)
<1>1. /\ from \in Tokens \X Users /\ fee_amount \in Nat
      /\ Approval(r) \in [amount : Nat, expiration : Nat]
      /\ fee_amount <= Approval(r).amount
  BY ForwardGuards
<1>2. /\ call.fn \in {"transfer", "transfer_from"} /\ call.token \in Tokens
      /\ call.fn = "transfer_from" => <<call.token, call.from>> \in Tokens \X Users
      /\ call.amount \in Nat
  BY ForwardTarget DEF Calls
<1>3. InvokeTarget(r, paid, left)
  BY DEF forward
<1> HIDE DEF from, paid
<1>4. /\ renewed \in Allowances /\ renewed[from] = Approval(r)
      /\ \A entry \in Tokens \X Users :
           renewed[entry].amount = IF entry = from THEN Approval(r).amount
                                                   ELSE allowance[entry].amount
  BY <1>1 DEF IInv, Records, Allowances
<1> HIDE DEF renewed
<1>5. IsSpent(left, renewed, from, fee_amount)
  BY <1>1, <1>4, SpendValue
<1> HIDE DEF left, call
<1>6. /\ allowance' \in Allowances
      /\ \A entry \in Tokens \X Users :
           allowance'[entry].amount = left[entry].amount
             - Part(call.fn = "transfer_from" /\ entry = <<call.token, call.from>>, call.amount)
  <2>1. CASE call.fn = "transfer_from"
    <3>1. /\ call.amount <= Live(left[<<call.token, call.from>>])
          /\ allowance' = Spend(left, <<call.token, call.from>>, call.amount)
      BY <1>3, <2>1 DEF InvokeTarget, TargetSucceeds, TargetAllowances, call
    <3>2. call.amount <= left[<<call.token, call.from>>].amount
      <4>1. left[<<call.token, call.from>>].amount \in Nat
        BY <1>2, <1>5, <2>1 DEF Allowances, IsSpent
      <4>2. QED
        BY <1>2, <3>1, <4>1 DEF Live
    <3>3. IsSpent(allowance', left, <<call.token, call.from>>, call.amount)
      <4>1. left \in Allowances
        BY <1>5 DEF IsSpent
      <4>2. QED
        BY <1>2, <2>1, <3>1, <3>2, <4>1, SpendValue
    <3>4. QED
      BY <2>1, <3>3 DEF IsSpent
  <2>2. CASE call.fn = "transfer"
    <3>1. allowance' = left
      BY <1>3, <2>2 DEF InvokeTarget, TargetAllowances, call
    <3>2. \A entry \in Tokens \X Users : left[entry].amount \in Nat
      BY <1>5 DEF Allowances, IsSpent
    <3>3. QED
      BY <1>5, <2>2, <3>1, <3>2 DEF Part, IsSpent
  <2>3. QED
    BY <1>2, <2>1, <2>2
<1>7. ASSUME NEW entry \in Tokens \X Users
      PROVE  left[entry].amount
               = (IF entry = from THEN Approval(r).amount ELSE allowance[entry].amount)
                   - Part(entry = from, fee_amount)
  <2>1. left[entry].amount = renewed[entry].amount - Part(entry = from, fee_amount)
    BY <1>5 DEF IsSpent
  <2>2. QED
    BY <1>4, <2>1
<1>8. ASSUME NEW entry \in Tokens \X Users
      PROVE  allowance'[entry].amount
               = (IF entry = from THEN Approval(r).amount ELSE allowance[entry].amount)
                   - Part(entry = from, fee_amount)
                   - Part(call.fn = "transfer_from" /\ entry = <<call.token, call.from>>,
                          call.amount)
  BY <1>6, <1>7
<1>9. allowance' \in Allowances
  BY <1>6
<1>10. QED
  BY <1>8, <1>9 DEF call, from, Renewed, FeeOf, DrawnFrom, AllowancesSpent

(* What forward adds to the approvals on record.                           *)
ApprovalRecorded(r) ==
  /\ approved' \in [Tokens \X Users -> Nat] /\ granted' \in [Tokens \X Users -> Nat]
  /\ \A entry \in Tokens \X Users :
       /\ approved[entry] <= approved'[entry] /\ granted[entry] <= granted'[entry]
       /\ entry = <<r.fee_token, r.user>> =>
            \/ /\ Approval(r).amount <= approved'[entry]
               /\ granted'[entry] = granted[entry] + Approval(r).amount
            \/ Approval(r).amount = allowance[entry].amount

LEMMA ForwardApprovals ==
  ASSUME IInv, NEW nonce, NEW fee_amount \in Int, NEW relayer,
         forward(nonce, fee_amount, relayer), NEW r, r = signed[nonce]
  PROVE  ApprovalRecorded(r)
<1> DEFINE from == <<r.fee_token, r.user>>
<1>1. from \in Tokens \X Users /\ r.max_fee_amount \in Nat
  BY ForwardGuards
<1>2. IF NeedsApproval(r) THEN RecordApproval(from, r.max_fee_amount)
                          ELSE UNCHANGED <<approved, granted>>
  BY DEF forward
<1>3. NeedsApproval(r) => Approval(r).amount = r.max_fee_amount
  BY DEF Approval
<1>4. ~NeedsApproval(r) => Approval(r) = allowance[from]
  BY DEF Approval
<1> HIDE DEF from
<1>5. approved[from] \in Nat
  BY <1>1 DEF IInv, Records
<1> DEFINE most == Max({approved[from], r.max_fee_amount})
<1>6. most \in Nat /\ most >= approved[from] /\ most >= r.max_fee_amount
  <2> DEFINE b == r.max_fee_amount
  <2> HIDE DEF b
  <2>1. b \in Nat /\ Max({approved[from], b}) = most
    BY <1>1 DEF b
  <2> HIDE DEF most
  <2>2. most \in Nat /\ most >= approved[from] /\ most >= b
    BY <1>5, <2>1, MaxPair
  <2>3. QED
    BY <2>2 DEF b
<1>7. CASE NeedsApproval(r)
  <2>1. /\ approved' = [approved EXCEPT ![from] = most]
        /\ granted' = [granted EXCEPT ![from] = granted[from] + r.max_fee_amount]
    BY <1>2, <1>7 DEF RecordApproval
  <2> HIDE DEF most
  <2>2. /\ approved' \in [Tokens \X Users -> Nat] /\ granted' \in [Tokens \X Users -> Nat]
        /\ approved'[from] >= r.max_fee_amount
        /\ granted'[from] = granted[from] + r.max_fee_amount
        /\ \A entry \in Tokens \X Users :
             approved[entry] <= approved'[entry] /\ granted[entry] <= granted'[entry]
    BY <1>1, <1>6, <2>1 DEF IInv, Records
  <2>3. QED
    BY <1>1, <1>3, <1>7, <2>2 DEF from, ApprovalRecorded
<1>8. CASE ~NeedsApproval(r)
  <2>1. approved' = approved /\ granted' = granted
    BY <1>2, <1>8
  <2>2. \A entry \in Tokens \X Users : approved[entry] \in Nat /\ granted[entry] \in Nat
    BY DEF IInv, Records
  <2>3. QED
    BY <1>4, <1>8, <2>1, <2>2 DEF IInv, Records, from, ApprovalRecorded
<1>9. QED
  BY <1>7, <1>8
-----------------------------------------------------------------------------
LEMMA InvInit == Init => IInv
  BY ForwarderAssumption DEF Init, IInv, TypeOK, Records, Allowances, Holders

LEMMA InvForward ==
  ASSUME IInv, NEW nonce \in Nonces, NEW fee_amount \in Int, NEW relayer,
         forward(nonce, fee_amount, relayer)
  PROVE  IInv'
<1>1. /\ balance' \in [Tokens \X Holders -> Nat] /\ allowance' \in Allowances
      /\ approved' \in [Tokens \X Users -> Nat] /\ granted' \in [Tokens \X Users -> Nat]
  <2>1. /\ BalancesMoved(signed[nonce], fee_amount)
        /\ AllowancesSpent(signed[nonce], fee_amount) /\ ApprovalRecorded(signed[nonce])
    BY ForwardBalances, ForwardAllowances, ForwardApprovals
  <2>2. QED
    BY <2>1 DEF BalancesMoved, AllowancesSpent, ApprovalRecorded
<1>2. nonce \in DOMAIN signed \ DOMAIN charged
  BY ForwardGuards
<1>3. /\ charged' = [n \in DOMAIN charged \cup {nonce} |->
                       IF n = nonce THEN fee_amount ELSE charged[n]]
      /\ UNCHANGED <<roles, allowed, signed, swept, ledger>>
  BY DEF forward
<1>4. charged' \in [DOMAIN charged' -> Int] /\ DOMAIN charged' = DOMAIN charged \cup {nonce}
  BY <1>3 DEF IInv, Records
<1>5. Records'
  BY <1>1, <1>3, <1>4 DEF IInv, Records, Allowances
<1>6. \A entry \in Tokens \X Users :
        {allowance'[entry].amount, approved'[entry], granted'[entry], swept'[entry]} \subseteq Nat
  BY <1>5 DEF Records, Allowances
<1>7. TypeOK'
  BY <1>1, <1>2, <1>3, <1>4, <1>6 DEF IInv, TypeOK, roles, Holders
<1>8. QED
  BY <1>5, <1>7 DEF IInv

LEMMA InvPreApprove ==
  ASSUME IInv, NEW token \in Tokens, NEW user \in Users, NEW amount \in PreApprovals,
         NEW expiration \in Expirations, PreApprove(token, user, amount, expiration)
  PROVE  /\ IInv'
         /\ amount \in Nat
         /\ allowance'[<<token, user>>].amount = amount
         /\ amount <= approved'[<<token, user>>]
         /\ granted'[<<token, user>>] = granted[<<token, user>>] + amount
         /\ \A entry \in Tokens \X Users : entry # <<token, user>> =>
              /\ allowance'[entry] = allowance[entry]
              /\ approved'[entry] = approved[entry] /\ granted'[entry] = granted[entry]
<1> DEFINE mine == <<token, user>>
           most == Max({approved[mine], amount})
<1>1. amount \in Nat /\ expiration \in Nat /\ mine \in Tokens \X Users
  BY ForwarderAssumption
<1>2. /\ allowance' = [allowance EXCEPT ![mine] = [amount |-> amount, expiration |-> expiration]]
      /\ approved' = [approved EXCEPT ![mine] = most]
      /\ granted' = [granted EXCEPT ![mine] = granted[mine] + amount]
      /\ UNCHANGED <<roles, allowed, balance, requests, swept, ledger>>
  BY DEF PreApprove, RecordApproval
<1> HIDE DEF mine
<1>3. most \in Nat /\ most >= amount
  <2>1. approved[mine] \in Nat
    BY <1>1 DEF IInv, Records
  <2>2. QED
    BY <1>1, <2>1, MaxPair
<1> HIDE DEF most
<1>4. /\ allowance' \in Allowances
      /\ approved' \in [Tokens \X Users -> Nat] /\ granted' \in [Tokens \X Users -> Nat]
  BY <1>1, <1>2, <1>3 DEF IInv, Records, Allowances
<1>5. Records'
  BY <1>2, <1>4 DEF IInv, Records, requests, Allowances
<1>6. \A entry \in Tokens \X Users :
        {allowance'[entry].amount, approved'[entry], granted'[entry], swept'[entry]} \subseteq Nat
  BY <1>5 DEF Records, Allowances
<1>7. IInv'
  BY <1>2, <1>5, <1>6 DEF IInv, TypeOK, roles, requests, Holders
<1>8. /\ allowance'[mine].amount = amount /\ amount <= approved'[mine]
      /\ granted'[mine] = granted[mine] + amount
      /\ \A entry \in Tokens \X Users : entry # mine =>
           /\ allowance'[entry] = allowance[entry]
           /\ approved'[entry] = approved[entry] /\ granted'[entry] = granted[entry]
  BY <1>1, <1>2, <1>3 DEF IInv, Records, Allowances
<1>9. QED
  BY <1>1, <1>7, <1>8 DEF mine

(* A sweep pays its recipient; if that is a user, it is on record.         *)
LEMMA InvSweep ==
  ASSUME IInv, NEW token \in Tokens, NEW recipient \in Holders, NEW operator \in Operators,
         sweep_tokens(token, recipient, operator)
  PROVE  /\ IInv'
         /\ \A entry \in Tokens \X Users :
              balance'[entry] - swept'[entry] = balance[entry] - swept[entry]
<1> DEFINE amount == balance[<<token, Forwarder>>]
<1>1. /\ balance' = Move(balance, token, Forwarder, recipient, amount)
      /\ swept' = [entry \in Tokens \X Users |->
           IF entry = <<token, recipient>> THEN swept[entry] + amount ELSE swept[entry]]
      /\ UNCHANGED <<roles, allowed, requests, approvals, ledger>>
  BY DEF sweep_tokens
<1>2. /\ balance \in [Tokens \X Holders -> Nat] /\ Forwarder \in Holders
      /\ amount \in Nat /\ amount <= balance[<<token, Forwarder>>]
  BY DEF IInv, TypeOK, Holders
<1> HIDE DEF amount
<1>3. IsMoved(balance', balance, token, Forwarder, recipient, amount)
  BY <1>1, <1>2, MoveValue
<1>4. /\ swept' \in [Tokens \X Users -> Nat]
      /\ \A entry \in Tokens \X Users :
           swept'[entry] = swept[entry] + Part(entry = <<token, recipient>>, amount)
  BY <1>1, <1>2 DEF IInv, Records, Part
<1>5. Records'
  BY <1>1, <1>4 DEF IInv, Records, requests, approvals, Allowances
<1>6. \A entry \in Tokens \X Users :
        {allowance'[entry].amount, approved'[entry], granted'[entry], swept'[entry]} \subseteq Nat
  BY <1>5 DEF Records, Allowances
<1>7. balance' \in [Tokens \X Holders -> Nat]
  BY <1>3 DEF IsMoved
<1>8. IInv'
  BY <1>1, <1>5, <1>6, <1>7 DEF IInv, TypeOK, roles, requests, Holders
<1>9. ASSUME NEW entry \in Tokens \X Users
      PROVE  balance'[entry] - swept'[entry] = balance[entry] - swept[entry]
  <2>1. entry \in Tokens \X Holders /\ entry # <<token, Forwarder>>
    BY ForwarderAssumption DEF Holders
  <2>2. balance'[entry] = balance[entry] + Part(entry = <<token, recipient>>, amount)
    <3>1. balance[entry] \in Nat /\ Part(entry = <<token, Forwarder>>, amount) = 0
      BY <1>2, <2>1 DEF Part
    <3>2. QED
      BY <1>3, <2>1, <3>1 DEF IsMoved
  <2>3. /\ balance[entry] \in Nat /\ swept[entry] \in Nat
        /\ Part(entry = <<token, recipient>>, amount) \in Nat
    BY <1>2, <2>1 DEF IInv, Records, Part
  <2>4. QED
    BY <1>4, <2>2, <2>3
<1>10. QED
  BY <1>8, <1>9

LEMMA InvStep == IInv /\ [Next]_vars => IInv'
<1> SUFFICES ASSUME IInv, [Next]_vars PROVE IInv'
  OBVIOUS
<1> USE DEF roles, requests, approvals
<1>1. ASSUME NEW nonce \in Nonces, NEW request \in Requests, Sign(nonce, request) PROVE IInv'
  <2>1. signed' \in [DOMAIN signed' -> Requests] /\ DOMAIN signed' = DOMAIN signed \cup {nonce}
    BY <1>1 DEF Sign, IInv, Records
  <2>2. QED
    BY <1>1, <2>1 DEF Sign, IInv, TypeOK, Records, Allowances, Holders
<1>2. ASSUME NEW nonce \in Nonces, NEW relayer \in Operators, NEW fee_amount \in Fees,
             forward(nonce, fee_amount, relayer)
      PROVE  IInv'
  <2>1. fee_amount \in Int
    BY ForwarderAssumption
  <2>2. QED
    BY <1>2, <2>1, InvForward
<1>3. ASSUME NEW token \in Tokens, NEW user \in Users, NEW amount \in PreApprovals,
             NEW expiration \in Expirations, PreApprove(token, user, amount, expiration)
      PROVE  IInv'
  BY <1>3, InvPreApprove
<1>4. ASSUME NEW token \in Tokens, NEW operator \in Operators,
             enable_fee_token(token, operator) \/ disable_fee_token(token, operator)
      PROVE  IInv'
  BY <1>4 DEF enable_fee_token, disable_fee_token, IInv, TypeOK, Records, Allowances, Holders
<1>5. ASSUME NEW token \in Tokens, NEW operator \in Operators, NEW recipient \in Holders,
             sweep_tokens(token, recipient, operator)
      PROVE  IInv'
  BY <1>5, InvSweep
<1>6. ASSUME NEW account \in Operators, NEW name \in {"manager", "executor"},
             grant_role(account, name) \/ revoke_role(account, name)
      PROVE  IInv'
  <2>1. PICK holders \in SUBSET Operators : ChangeRole(name, holders)
    <3>1. role[name] \in SUBSET Operators
      BY DEF IInv, TypeOK
    <3>2. QED
      BY <1>6, <3>1 DEF grant_role, revoke_role
  <2>2. QED
    BY <2>1, ForwarderAssumption DEF ChangeRole, IInv, TypeOK, Records, Allowances, Holders
<1>7. CASE CloseLedger
  BY <1>7, ForwarderAssumption DEF CloseLedger, IInv, TypeOK, Records, Allowances, Holders
<1>8. CASE UNCHANGED vars
  BY <1>8 DEF vars, IInv, TypeOK, Records, Allowances, Holders
<1>9. QED
  BY <1>1, <1>2, <1>3, <1>4, <1>5, <1>6, <1>7, <1>8 DEF Next

(* Every variable has its type: no balance and no allowance is negative.   *)
THEOREM TypeCorrect == Spec => []TypeOK
<1>1. Init => IInv
  BY InvInit
<1>2. IInv /\ [Next]_vars => IInv'
  BY InvStep
<1>3. IInv => TypeOK
  BY DEF IInv
<1>4. QED
  BY <1>1, <1>2, <1>3, PTL DEF Spec

-----------------------------------------------------------------------------
(* Approvals do not accumulate: collecting a fee, drawing by a target call *)
(* and renewing an approval all keep what the forwarder may take within    *)
(* the largest one.                                                        *)
THEOREM AllowanceCorrect == Spec => []AllowanceBounded
<1>1. Init => AllowanceBounded
  BY DEF Init, AllowanceBounded
<1>2. IInv /\ AllowanceBounded /\ [Next]_vars => AllowanceBounded'
  <2> SUFFICES ASSUME IInv, AllowanceBounded, [Next]_vars PROVE AllowanceBounded'
    OBVIOUS
  <2>1. ASSUME NEW nonce \in Nonces, NEW relayer \in Operators, NEW fee_amount \in Fees,
               forward(nonce, fee_amount, relayer)
        PROVE  AllowanceBounded'
    <3> SUFFICES ASSUME NEW entry \in Tokens \X Users
                 PROVE  allowance'[entry].amount <= approved'[entry]
      BY DEF AllowanceBounded
    <3> DEFINE r == signed[nonce]
    <3>0. fee_amount \in Int
      BY ForwarderAssumption
    <3>1. AllowancesSpent(signed[nonce], fee_amount) /\ ApprovalRecorded(signed[nonce])
      BY <2>1, <3>0, ForwardAllowances, ForwardApprovals
    <3>2. allowance'[entry].amount
            = Renewed(entry, r) - FeeOf(entry, r, fee_amount) - DrawnFrom(entry, r)
      BY <3>1 DEF AllowancesSpent
    <3>3. /\ FeeOf(entry, r, fee_amount) \in Nat /\ DrawnFrom(entry, r) \in Nat
          /\ Approval(r).amount \in Nat
      BY <2>1, <3>0, ForwardGuards, ForwardTarget DEF Calls, Part, FeeOf, DrawnFrom
    <3>4. /\ approved'[entry] \in Nat /\ approved[entry] \in Nat
          /\ allowance[entry].amount \in Nat /\ allowance[entry].amount <= approved[entry]
      BY <3>1 DEF ApprovalRecorded, IInv, Records, Allowances, AllowanceBounded
    <3>5. /\ approved[entry] <= approved'[entry]
          /\ entry = <<r.fee_token, r.user>> =>
               \/ Approval(r).amount <= approved'[entry]
               \/ Approval(r).amount = allowance[entry].amount
      BY <3>1 DEF ApprovalRecorded
    <3> HIDE DEF r
    <3>6. Renewed(entry, r) \in Nat /\ Renewed(entry, r) <= approved'[entry]
      BY <3>3, <3>4, <3>5 DEF Renewed
    <3>7. QED
      BY <3>2, <3>3, <3>4, <3>6
  <2>2. ASSUME NEW token \in Tokens, NEW user \in Users, NEW amount \in PreApprovals,
               NEW expiration \in Expirations, PreApprove(token, user, amount, expiration)
        PROVE  AllowanceBounded'
    <3> SUFFICES ASSUME NEW entry \in Tokens \X Users
                 PROVE  allowance'[entry].amount <= approved'[entry]
      BY DEF AllowanceBounded
    <3>1. CASE entry = <<token, user>>
      BY <2>2, <3>1, InvPreApprove
    <3>2. CASE entry # <<token, user>>
      <4>1. allowance'[entry] = allowance[entry] /\ approved'[entry] = approved[entry]
        BY <2>2, <3>2, InvPreApprove
      <4>2. QED
        BY <4>1 DEF AllowanceBounded
    <3>3. QED
      BY <3>1, <3>2
  <2>3. CASE UNCHANGED <<allowance, approved>>
    BY <2>3 DEF AllowanceBounded
  <2>4. QED
    BY <2>1, <2>2, <2>3
       DEF Next, Sign, enable_fee_token, disable_fee_token, sweep_tokens, grant_role,
           revoke_role, ChangeRole, CloseLedger, vars, approvals
<1>3. QED
  BY <1>1, <1>2, InvInit, InvStep, PTL DEF Spec
-----------------------------------------------------------------------------
(* A sum over a set that gains an element, or does not.                    *)
LEMMA SumGrows ==
  ASSUME NEW S, IsFiniteSet(S), NEW x, x \notin S, NEW f, NEW g,
         IntOn(f, S), g[x] \in Int, \A y \in S : f[y] = g[y],
         NEW T, NEW c \in BOOLEAN, T = IF c THEN S \cup {x} ELSE S
  PROVE  /\ SumFunctionOnSet(f, S) \in Int
         /\ SumFunctionOnSet(g, T) = SumFunctionOnSet(f, S) + Part(c, g[x])
<1>1. SumFunctionOnSet(f, S) \in Int
  BY SumType
<1>2. SumFunctionOnSet(f, S) = SumFunctionOnSet(g, S)
  BY SumCongruence
<1>3. IntOn(g, S \cup {x})
  BY DEF IntOn
<1>4. SumFunctionOnSet(g, S \cup {x}) = SumFunctionOnSet(g, S) + g[x]
  BY <1>3, SumInsert
<1>5. QED
  BY <1>1, <1>2, <1>4 DEF Part

(* What the properties sum over is finite, and the amounts are numbers.    *)
LEMMA Summable ==
  ASSUME IInv, NEW S, S \subseteq DOMAIN charged
  PROVE  /\ IsFiniteSet(S)
         /\ IntOn(charged, S) /\ IntOn(MaxFee, S) /\ IntOn(TargetAmount, S)
<1>1. S \in SUBSET Nonces /\ S \subseteq DOMAIN signed
  BY DEF IInv, TypeOK
<1>2. IsFiniteSet(S)
  BY <1>1, FS_Subset, ForwarderAssumption
<1>3. IntOn(charged, S)
  BY DEF IntOn, IInv, Records
<1>4. ASSUME NEW n \in DOMAIN signed PROVE MaxFee[n] \in Int /\ TargetAmount[n] \in Int
  <2>1. signed[n] \in RequestType
    BY ForwarderAssumption DEF IInv, Records
  <2>2. signed[n].max_fee_amount \in Int /\ signed[n].target \in Calls
    BY <2>1 DEF RequestType
  <2>3. signed[n].target.amount \in Int
    BY <2>2 DEF Calls
  <2>4. QED
    BY <2>2, <2>3 DEF MaxFee, TargetAmount
<1>5. IntOn(MaxFee, S) /\ IntOn(TargetAmount, S)
  BY <1>1, <1>4 DEF IntOn
<1>6. QED
  BY <1>2, <1>3, <1>5

LEMMA SumsTyped ==
  ASSUME IInv, NEW token, NEW user
  PROVE  /\ FeesPaid(token, user) \in Int /\ FeesSigned(token, user) \in Int
         /\ SentByCalls(token, user) \in Int /\ GotByCalls(token, user) \in Int
         /\ DrawnByCalls(token, user) \in Int
<1> DEFINE E == Executed(token, user)
           O == MovedOut(token, user)
           I == MovedIn(token, user)
           D == Drawn(token, user)
<1>1. E \subseteq DOMAIN charged /\ O \subseteq DOMAIN charged /\ I \subseteq DOMAIN charged
      /\ D \subseteq DOMAIN charged
  BY DEF Executed, MovedOut, MovedIn, Drawn
<1> HIDE DEF E, O, I, D
<1>2. SumFunctionOnSet(charged, E) \in Int /\ SumFunctionOnSet(MaxFee, E) \in Int
  BY <1>1, Summable, SumType
<1>3. /\ SumFunctionOnSet(TargetAmount, O) \in Int /\ SumFunctionOnSet(TargetAmount, I) \in Int
      /\ SumFunctionOnSet(TargetAmount, D) \in Int
  BY <1>1, Summable, SumType
<1>4. QED
  BY <1>2, <1>3
     DEF E, O, I, D, FeesPaid, FeesSigned, SentByCalls, GotByCalls, DrawnByCalls

(* Whatever leaves the executed requests and their fees leaves the sums.   *)
LEMMA SumsUnchanged ==
  ASSUME IInv, charged' = charged,
         \A n \in DOMAIN charged : n \in DOMAIN signed' /\ signed'[n] = signed[n],
         NEW token, NEW user
  PROVE  /\ FeesPaid(token, user)' = FeesPaid(token, user)
         /\ FeesSigned(token, user)' = FeesSigned(token, user)
         /\ SentByCalls(token, user)' = SentByCalls(token, user)
         /\ GotByCalls(token, user)' = GotByCalls(token, user)
         /\ DrawnByCalls(token, user)' = DrawnByCalls(token, user)
         /\ MovedOut(token, user)' = MovedOut(token, user)
         /\ Drawn(token, user)' = Drawn(token, user)
<1> DEFINE E == Executed(token, user)
           O == MovedOut(token, user)
           I == MovedIn(token, user)
           D == Drawn(token, user)
<1>1. E' = E /\ O' = O /\ I' = I /\ D' = D
  BY DEF Executed, MovedOut, MovedIn, Drawn
<1>2. \A n \in DOMAIN charged : MaxFee[n] = MaxFee'[n] /\ TargetAmount[n] = TargetAmount'[n]
  BY DEF MaxFee, TargetAmount, IInv, TypeOK
<1>3. E \subseteq DOMAIN charged /\ O \subseteq DOMAIN charged /\ I \subseteq DOMAIN charged
      /\ D \subseteq DOMAIN charged
  BY DEF Executed, MovedOut, MovedIn, Drawn
<1>4. ASSUME NEW S, S \subseteq DOMAIN charged
      PROVE  /\ SumFunctionOnSet(MaxFee, S) = SumFunctionOnSet(MaxFee', S)
             /\ SumFunctionOnSet(TargetAmount, S) = SumFunctionOnSet(TargetAmount', S)
  <2>1. IsFiniteSet(S) /\ IntOn(MaxFee, S) /\ IntOn(TargetAmount, S)
    BY <1>4, Summable
  <2>2. \A n \in S : MaxFee[n] = MaxFee'[n] /\ TargetAmount[n] = TargetAmount'[n]
    BY <1>2, <1>4
  <2>3. SumFunctionOnSet(MaxFee, S) = SumFunctionOnSet(MaxFee', S)
    BY <2>1, <2>2, SumCongruence
  <2>4. SumFunctionOnSet(TargetAmount, S) = SumFunctionOnSet(TargetAmount', S)
    BY <2>1, <2>2, SumCongruence
  <2>5. QED
    BY <2>3, <2>4
<1> HIDE DEF E, O, I, D
<1>5. /\ SumFunctionOnSet(charged', E') = SumFunctionOnSet(charged, E)
      /\ SumFunctionOnSet(MaxFee', E') = SumFunctionOnSet(MaxFee, E)
      /\ SumFunctionOnSet(TargetAmount', O') = SumFunctionOnSet(TargetAmount, O)
      /\ SumFunctionOnSet(TargetAmount', I') = SumFunctionOnSet(TargetAmount, I)
      /\ SumFunctionOnSet(TargetAmount', D') = SumFunctionOnSet(TargetAmount, D)
  BY <1>1, <1>3, <1>4
<1>6. QED
  BY <1>1, <1>5
     DEF E, O, I, D, FeesPaid, FeesSigned, SentByCalls, GotByCalls, DrawnByCalls

(* An executed request counts in the sums of those it takes from or gives  *)
(* to, and in no other.                                                    *)
Counted(token, user, r, fee_amount) ==
  /\ FeesPaid(token, user)' = FeesPaid(token, user) + FeeOf(<<token, user>>, r, fee_amount)
  /\ FeesSigned(token, user)'
       = FeesSigned(token, user) + FeeOf(<<token, user>>, r, r.max_fee_amount)
  /\ SentByCalls(token, user)' = SentByCalls(token, user) + OutOf(<<token, user>>, r)
  /\ GotByCalls(token, user)' = GotByCalls(token, user) + InTo(<<token, user>>, r)
  /\ DrawnByCalls(token, user)' = DrawnByCalls(token, user) + DrawnFrom(<<token, user>>, r)

LEMMA SumsForward ==
  ASSUME IInv, NEW nonce, NEW fee_amount \in Int, NEW relayer,
         forward(nonce, fee_amount, relayer), NEW r, r = signed[nonce],
         NEW token, NEW user
  PROVE  Counted(token, user, r, fee_amount)
<1> DEFINE entry == <<token, user>>
           E == Executed(token, user)
           O == MovedOut(token, user)
           I == MovedIn(token, user)
           D == Drawn(token, user)
           inE == entry = <<r.fee_token, r.user>>
           inO == entry = <<r.target.token, r.target.from>>
           inI == entry = <<r.target.token, r.target.to>>
           inD == r.target.fn = "transfer_from" /\ inO
<1>1. nonce \in DOMAIN signed \ DOMAIN charged
  BY ForwardGuards
<1>2. r.max_fee_amount \in Int /\ r.target.amount \in Int
  <2>1. signed[nonce].max_fee_amount \in Nat
    BY ForwardGuards
  <2>2. signed[nonce].target \in Calls
    BY ForwardTarget
  <2>3. QED
    BY <2>1, <2>2 DEF Calls
<1>3. /\ charged' = [n \in DOMAIN charged \cup {nonce} |->
                       IF n = nonce THEN fee_amount ELSE charged[n]]
      /\ signed' = signed
  BY DEF forward
<1>4. MaxFee' = MaxFee /\ TargetAmount' = TargetAmount
  BY <1>3 DEF MaxFee, TargetAmount
<1>5. MaxFee[nonce] = r.max_fee_amount /\ TargetAmount[nonce] = r.target.amount
  BY <1>1 DEF MaxFee, TargetAmount
<1>6. charged'[nonce] = fee_amount /\ \A n \in DOMAIN charged : charged[n] = charged'[n]
  BY <1>1, <1>3
<1>7. /\ E' = IF inE THEN E \cup {nonce} ELSE E
      /\ O' = IF inO THEN O \cup {nonce} ELSE O
      /\ I' = IF inI THEN I \cup {nonce} ELSE I
      /\ D' = IF inD THEN D \cup {nonce} ELSE D
  <2>1. E' = IF inE THEN E \cup {nonce} ELSE E
    BY <1>1, <1>3 DEF Executed
  <2>2. O' = IF inO THEN O \cup {nonce} ELSE O
    BY <1>1, <1>3 DEF MovedOut
  <2>3. I' = IF inI THEN I \cup {nonce} ELSE I
    BY <1>1, <1>3 DEF MovedIn
  <2>4. D' = IF inD THEN D \cup {nonce} ELSE D
    <3>1. D' = {n \in O' : signed[n].target.fn = "transfer_from"}
      BY <1>3 DEF Drawn
    <3>2. D = {n \in O : signed[n].target.fn = "transfer_from"}
      BY DEF Drawn
    <3> HIDE DEF O, D, inO
    <3>3. QED
      BY <2>2, <3>1, <3>2
  <2>5. QED
    BY <2>1, <2>2, <2>3, <2>4
<1>8. E \subseteq DOMAIN charged /\ O \subseteq DOMAIN charged /\ I \subseteq DOMAIN charged
      /\ D \subseteq DOMAIN charged
  BY DEF Executed, MovedOut, MovedIn, Drawn
<1>9. inE \in BOOLEAN /\ inO \in BOOLEAN /\ inI \in BOOLEAN /\ inD \in BOOLEAN
  OBVIOUS
<1> HIDE DEF E, O, I, D, inE, inO, inI, inD
<1>10. SumFunctionOnSet(charged', E') = SumFunctionOnSet(charged, E) + Part(inE, fee_amount)
  <2>1. IsFiniteSet(E) /\ IntOn(charged, E) /\ nonce \notin E
    BY <1>1, <1>8, Summable
  <2>2. \A n \in E : charged[n] = charged'[n]
    BY <1>6, <1>8
  <2>3. SumFunctionOnSet(charged', E') = SumFunctionOnSet(charged, E) + Part(inE, charged'[nonce])
    BY <1>6, <1>7, <1>9, <2>1, <2>2, SumGrows
  <2>4. QED
    BY <1>6, <2>3
<1>11. SumFunctionOnSet(MaxFee', E') = SumFunctionOnSet(MaxFee, E) + Part(inE, r.max_fee_amount)
  <2>1. IsFiniteSet(E) /\ IntOn(MaxFee, E) /\ nonce \notin E /\ MaxFee[nonce] \in Int
    BY <1>1, <1>2, <1>5, <1>8, Summable
  <2>2. SumFunctionOnSet(MaxFee, E') = SumFunctionOnSet(MaxFee, E) + Part(inE, MaxFee[nonce])
    BY <1>7, <1>9, <2>1, SumGrows
  <2>3. QED
    BY <1>4, <1>5, <2>2
<1>12. ASSUME NEW S, S \subseteq DOMAIN charged, NEW T, NEW c \in BOOLEAN,
              T = IF c THEN S \cup {nonce} ELSE S
       PROVE  SumFunctionOnSet(TargetAmount', T)
                = SumFunctionOnSet(TargetAmount, S) + Part(c, r.target.amount)
  <2>1. IsFiniteSet(S) /\ IntOn(TargetAmount, S) /\ nonce \notin S /\ TargetAmount[nonce] \in Int
    BY <1>1, <1>2, <1>5, <1>12, Summable
  <2>2. SumFunctionOnSet(TargetAmount, T) = SumFunctionOnSet(TargetAmount, S)
                                              + Part(c, TargetAmount[nonce])
    BY <1>12, <2>1, SumGrows
  <2>3. QED
    BY <1>4, <1>5, <2>2
<1>13. SumFunctionOnSet(TargetAmount', O') = SumFunctionOnSet(TargetAmount, O) + Part(inO, r.target.amount)
  BY <1>7, <1>8, <1>9, <1>12
<1>14. SumFunctionOnSet(TargetAmount', I') = SumFunctionOnSet(TargetAmount, I) + Part(inI, r.target.amount)
  BY <1>7, <1>8, <1>9, <1>12
<1>15. SumFunctionOnSet(TargetAmount', D') = SumFunctionOnSet(TargetAmount, D) + Part(inD, r.target.amount)
  BY <1>7, <1>8, <1>9, <1>12
<1>16. QED
  BY <1>10, <1>11, <1>13, <1>14, <1>15
     DEF E, O, I, D, inE, inO, inI, inD, FeesPaid, FeesSigned, SentByCalls, GotByCalls,
         DrawnByCalls, FeeOf, OutOf, InTo, DrawnFrom, Counted
-----------------------------------------------------------------------------
(* Everything taken from a user as fees and by drawing target calls, and   *)
(* what is left of the allowance, stay within what the user ever approved: *)
(* both kinds of draw count against the one allowance of the lazy mode.    *)
THEOREM ApprovalsCorrect == Spec => []WithinApprovals
<1>1. Init => WithinApprovals
  <2> SUFFICES ASSUME Init PROVE WithinApprovals
    OBVIOUS
  <2> SUFFICES \A token \in Tokens, user \in Users : WithinApproved(token, user)
    BY DEF WithinApprovals
  <2> TAKE token \in Tokens, user \in Users
  <2>1. Executed(token, user) = {} /\ Drawn(token, user) = {}
    BY DEF Init, Executed, MovedOut, Drawn
  <2>2. FeesPaid(token, user) = 0 /\ DrawnByCalls(token, user) = 0
    BY <2>1, SumEmpty DEF FeesPaid, DrawnByCalls
  <2>3. QED
    BY <2>2 DEF Init, WithinApproved
<1>2. IInv /\ WithinApprovals /\ [Next]_vars => WithinApprovals'
  <2> SUFFICES ASSUME IInv, WithinApprovals, [Next]_vars PROVE WithinApprovals'
    OBVIOUS
  <2> SUFFICES \A token \in Tokens, user \in Users : WithinApproved(token, user)'
    BY DEF WithinApprovals
  <2> TAKE token \in Tokens, user \in Users
  <2> DEFINE entry == <<token, user>>
             F == FeesPaid(token, user)
             D == DrawnByCalls(token, user)
  <2>0. /\ F \in Int /\ D \in Int /\ entry \in Tokens \X Users
        /\ allowance[entry].amount \in Nat /\ granted[entry] \in Nat
        /\ F + D + allowance[entry].amount <= granted[entry]
    BY SumsTyped DEF WithinApprovals, WithinApproved, IInv, Records, Allowances
  <2>1. ASSUME NEW nonce \in Nonces, NEW relayer \in Operators, NEW fee_amount \in Fees,
               forward(nonce, fee_amount, relayer)
        PROVE  WithinApproved(token, user)'
    <3> DEFINE r == signed[nonce]
    <3>0. fee_amount \in Int
      BY ForwarderAssumption
    <3> DEFINE fee == FeeOf(entry, r, fee_amount)
               draw == DrawnFrom(entry, r)
    <3>1. /\ AllowancesSpent(signed[nonce], fee_amount) /\ ApprovalRecorded(signed[nonce])
          /\ Counted(token, user, signed[nonce], fee_amount)
      BY <2>1, <3>0, ForwardAllowances, ForwardApprovals, SumsForward
    <3>2. F' = F + fee /\ D' = D + draw
      BY <3>1 DEF Counted
    <3>3. allowance'[entry].amount = Renewed(entry, r) - fee - draw
      <4>1. \A e \in Tokens \X Users :
              allowance'[e].amount = Renewed(e, r) - FeeOf(e, r, fee_amount) - DrawnFrom(e, r)
        BY <3>1 DEF AllowancesSpent
      <4>2. QED
        BY <2>0, <4>1
    <3>4. fee \in Int /\ draw \in Int /\ Approval(r).amount \in Nat
      <4>1. r.target.amount \in Nat /\ Approval(r).amount \in Nat
        BY <2>1, <3>0, ForwardGuards, ForwardTarget DEF Calls
      <4>2. QED
        BY <3>0, <4>1 DEF Part, FeeOf, DrawnFrom
    <3>5. granted[entry] <= granted'[entry] /\ granted'[entry] \in Nat
      BY <2>0, <3>1 DEF ApprovalRecorded
    <3>6. entry = <<r.fee_token, r.user>> =>
            \/ granted'[entry] = granted[entry] + Approval(r).amount
            \/ Approval(r).amount = allowance[entry].amount
      BY <2>0, <3>1 DEF ApprovalRecorded
    <3> HIDE DEF r
    <3> HIDE DEF F, D, entry
    <3>7. Renewed(entry, r) \in Nat /\ F + D + Renewed(entry, r) <= granted'[entry]
      <4>1. CASE entry = <<r.fee_token, r.user>>
        <5>1. Renewed(entry, r) = Approval(r).amount
          BY <4>1 DEF Renewed
        <5> DEFINE a == Approval(r).amount
                   b == allowance[entry].amount
        <5>2. a \in Nat /\ b \in Nat /\ F + D + b <= granted[entry]
          BY <2>0, <3>4
        <5>3. granted'[entry] = granted[entry] + a \/ a = b
          BY <3>6, <4>1
        <5> HIDE DEF a, b
        <5>4. F + D + a <= granted'[entry]
          BY <2>0, <3>5, <5>2, <5>3
        <5>5. QED
          BY <5>1, <5>2, <5>4 DEF a
      <4>2. CASE entry # <<r.fee_token, r.user>>
        <5>1. Renewed(entry, r) = allowance[entry].amount
          BY <4>2 DEF Renewed
        <5>2. QED
          BY <2>0, <3>5, <5>1
      <4>3. QED
        BY <4>1, <4>2
    <3> HIDE DEF fee, draw
    <3>8. F' + D' + allowance'[entry].amount <= granted'[entry]
      BY <2>0, <3>2, <3>3, <3>4, <3>5, <3>7
    <3>9. QED
      BY <3>8 DEF F, D, entry, WithinApproved
  <2>2. ASSUME charged' = charged,
               \A n \in DOMAIN charged : n \in DOMAIN signed' /\ signed'[n] = signed[n]
        PROVE  F' = F /\ D' = D
    BY <2>2, SumsUnchanged
  <2>3. ASSUME NEW nonce \in Nonces, NEW request \in Requests, Sign(nonce, request)
        PROVE  WithinApproved(token, user)'
    <3>1. charged' = charged /\ allowance' = allowance /\ granted' = granted
      BY <2>3 DEF Sign, approvals
    <3>2. \A n \in DOMAIN charged : n \in DOMAIN signed' /\ signed'[n] = signed[n]
      BY <2>3 DEF Sign, IInv, TypeOK
    <3>3. QED
      BY <2>0, <2>2, <3>1, <3>2 DEF WithinApproved
  <2>4. ASSUME NEW tk \in Tokens, NEW us \in Users, NEW amount \in PreApprovals,
               NEW expiration \in Expirations, PreApprove(tk, us, amount, expiration)
        PROVE  WithinApproved(token, user)'
    <3>1. charged' = charged /\ signed' = signed
      BY <2>4 DEF PreApprove, requests
    <3>2. F' = F /\ D' = D
      <4>1. \A n \in DOMAIN charged : n \in DOMAIN signed' /\ signed'[n] = signed[n]
        BY <3>1 DEF IInv, TypeOK
      <4>2. QED
        BY <2>2, <3>1, <4>1
    <3> HIDE DEF F, D, entry, WithinApproved
    <3>3. CASE entry = <<tk, us>>
      <4>1. /\ amount \in Nat /\ allowance'[entry].amount = amount
            /\ granted'[entry] = granted[entry] + amount
        BY <2>4, <3>3, InvPreApprove
      <4>2. F' + D' + allowance'[entry].amount <= granted'[entry]
        BY <2>0, <3>2, <4>1
      <4>3. QED
        BY <4>2 DEF F, D, entry, WithinApproved
    <3>4. CASE entry # <<tk, us>>
      <4>1. allowance'[entry] = allowance[entry] /\ granted'[entry] = granted[entry]
        BY <2>0, <2>4, <3>4, InvPreApprove
      <4>2. F' + D' + allowance'[entry].amount <= granted'[entry]
        BY <2>0, <3>2, <4>1
      <4>3. QED
        BY <4>2 DEF F, D, entry, WithinApproved
    <3>5. QED
      BY <3>3, <3>4
  <2>5. CASE UNCHANGED <<requests, approvals>>
    <3>1. /\ charged' = charged /\ allowance' = allowance /\ granted' = granted
          /\ signed' = signed
      BY <2>5 DEF requests, approvals
    <3>2. \A n \in DOMAIN charged : n \in DOMAIN signed' /\ signed'[n] = signed[n]
      BY <3>1 DEF IInv, TypeOK
    <3>3. QED
      BY <2>0, <2>2, <3>1, <3>2 DEF WithinApproved
  <2>6. QED
    BY <2>1, <2>3, <2>4, <2>5
       DEF Next, enable_fee_token, disable_fee_token, sweep_tokens, grant_role, revoke_role,
           ChangeRole, CloseLedger, vars
<1>3. QED
  BY <1>1, <1>2, InvInit, InvStep, PTL DEF Spec
-----------------------------------------------------------------------------
LEMMA SettledForward ==
  ASSUME IInv, ChargedAsSigned, NEW nonce \in Nonces, NEW fee_amount \in Int, NEW relayer,
         forward(nonce, fee_amount, relayer), NEW token \in Tokens, NEW user \in Users
  PROVE  Settled(token, user)'
<1> DEFINE r == signed[nonce]
           entry == <<token, user>>
           fee == FeeOf(entry, r, fee_amount)
           most == FeeOf(entry, r, r.max_fee_amount)
           F == FeesPaid(token, user)
           M == FeesSigned(token, user)
           O == SentByCalls(token, user)
           I == GotByCalls(token, user)
<1>1. /\ F \in Int /\ M \in Int /\ O \in Int /\ I \in Int
      /\ entry \in Tokens \X Users /\ entry \in Tokens \X Holders
      /\ swept[entry] \in Int /\ balance[entry] \in Int /\ Funds \in Int
  BY SumsTyped, ForwarderAssumption DEF IInv, TypeOK, Records, Holders
<1>2. balance[entry] = Funds + swept[entry] + I - O - F /\ F <= M
  BY DEF ChargedAsSigned, Settled
<1>3. Counted(token, user, signed[nonce], fee_amount)
  BY SumsForward
<1>4. /\ F' = F + fee /\ M' = M + most
      /\ O' = O + OutOf(entry, r) /\ I' = I + InTo(entry, r)
  BY <1>3 DEF Counted
<1>5. balance'[entry] = balance[entry] - fee - OutOf(entry, r) + InTo(entry, r)
  <2>1. \A e \in Tokens \X Users :
          balance'[e] = balance[e] - FeeOf(e, r, fee_amount) - OutOf(e, r) + InTo(e, r)
    <3>1. BalancesMoved(signed[nonce], fee_amount)
      BY ForwardBalances
    <3>2. QED
      BY <3>1 DEF BalancesMoved
  <2>2. QED
    BY <1>1, <2>1
<1>6. /\ fee \in Int /\ most \in Int /\ fee <= most
      /\ OutOf(entry, r) \in Int /\ InTo(entry, r) \in Int
  <2>1. r.target.amount \in Int
    BY ForwardTarget DEF Calls
  <2>2. r.max_fee_amount \in Nat /\ fee_amount <= r.max_fee_amount
    BY ForwardGuards
  <2> HIDE DEF r
  <2>3. QED
    BY <2>1, <2>2 DEF FeeOf, OutOf, InTo, Part
<1>7. swept' = swept /\ signed' = signed /\ DOMAIN charged' = DOMAIN charged \cup {nonce}
  BY DEF forward
<1>8. ASSUME NEW n \in (MovedOut(token, user) \ Drawn(token, user))'
       PROVE  signed'[n].user = user /\ signed'[n].signs_target
  <2>1. /\ n \in DOMAIN charged \cup {nonce} /\ signed[n].target.token = token
        /\ signed[n].target.from = user /\ signed[n].target.fn # "transfer_from"
    BY <1>7, <1>8 DEF MovedOut, Drawn
  <2>2. CASE n \in DOMAIN charged
    <3>1. n \in MovedOut(token, user) \ Drawn(token, user)
      BY <2>1, <2>2 DEF MovedOut, Drawn
    <3>2. QED
      BY <1>7, <3>1 DEF ChargedAsSigned, Settled
  <2>3. CASE n = nonce
    <3>1. r.target.fn = "transfer"
      BY <2>1, <2>3, ForwardTarget DEF Calls
    <3>2. r.target.from # Forwarder
      BY <2>1, <2>3, ForwarderAssumption
    <3>3. r.target.from = r.user /\ r.signs_target
      BY <3>1, <3>2, ForwardTarget
    <3>4. QED
      BY <1>7, <2>1, <2>3, <3>3
  <2>4. QED
    BY <2>1, <2>2, <2>3
<1> HIDE DEF F, M, O, I, fee, most, r, entry
<1>9. balance'[entry] = Funds + swept'[entry] + I' - O' - F'
  BY <1>1, <1>2, <1>4, <1>5, <1>6, <1>7
<1>10. F' <= M'
  BY <1>1, <1>2, <1>4, <1>6
<1>11. QED
  BY <1>8, <1>9, <1>10 DEF Settled, F, M, O, I, entry

(* Steps that execute no request: sweeps and what touches no balance.      *)
LEMMA SettledOtherwise ==
  ASSUME IInv, ChargedAsSigned, charged' = charged,
         \A n \in DOMAIN charged : n \in DOMAIN signed' /\ signed'[n] = signed[n],
         IInv', NEW token \in Tokens, NEW user \in Users,
         balance'[<<token, user>>] - swept'[<<token, user>>]
           = balance[<<token, user>>] - swept[<<token, user>>]
  PROVE  Settled(token, user)'
<1> DEFINE entry == <<token, user>>
           F == FeesPaid(token, user)
           M == FeesSigned(token, user)
           O == SentByCalls(token, user)
           I == GotByCalls(token, user)
<1>1. F \in Int /\ M \in Int /\ O \in Int /\ I \in Int
  BY SumsTyped
<1>2. /\ swept[entry] \in Int /\ balance[entry] \in Int /\ Funds \in Int
      /\ swept'[entry] \in Int /\ balance'[entry] \in Int
  BY ForwarderAssumption DEF IInv, TypeOK, Records, Holders
<1>3. balance[entry] = Funds + swept[entry] + I - O - F /\ F <= M
  BY DEF ChargedAsSigned, Settled
<1>4. F' = F /\ M' = M /\ O' = O /\ I' = I
  BY SumsUnchanged
<1>5. balance'[entry] - swept'[entry] = balance[entry] - swept[entry]
  OBVIOUS
<1>6. ASSUME NEW n \in (MovedOut(token, user) \ Drawn(token, user))'
      PROVE  signed'[n].user = user /\ signed'[n].signs_target
  <2>1. n \in MovedOut(token, user) \ Drawn(token, user)
    BY <1>6, SumsUnchanged
  <2>2. n \in DOMAIN charged
    BY <2>1 DEF MovedOut
  <2>3. QED
    BY <2>1, <2>2 DEF ChargedAsSigned, Settled
<1> HIDE DEF F, M, O, I, entry
<1>7. balance'[entry] = Funds + swept'[entry] + I' - O' - F' /\ F' <= M'
  <2> DEFINE b == balance[entry]
             c == balance'[entry]
             s == swept[entry]
             t == swept'[entry]
  <2> HIDE DEF b, c, s, t
  <2>1. /\ b \in Int /\ c \in Int /\ s \in Int /\ t \in Int /\ Funds \in Int
        /\ b = Funds + s + I - O - F /\ c - t = b - s
    BY <1>2, <1>3, <1>5 DEF b, c, s, t
  <2>2. c = Funds + t + I - O - F
    BY <1>1, <2>1
  <2>3. QED
    BY <1>3, <1>4, <2>2 DEF c, t
<1>8. QED
  BY <1>6, <1>7 DEF Settled, F, M, O, I, entry

(* A user's balance is explained by the fees of the user's own executed    *)
(* requests, the transfers of executed target calls and the sweeps; fees   *)
(* are within the signed maxima, and what moves a user's tokens otherwise  *)
(* than under the allowance was signed by that user.                       *)
THEOREM SettlementCorrect == Spec => []ChargedAsSigned
<1>1. Init => ChargedAsSigned
  <2> SUFFICES ASSUME Init PROVE \A token \in Tokens, user \in Users : Settled(token, user)
    BY DEF ChargedAsSigned
  <2> TAKE token \in Tokens, user \in Users
  <2>1. /\ Executed(token, user) = {} /\ MovedOut(token, user) = {}
        /\ MovedIn(token, user) = {}
    BY DEF Init, Executed, MovedOut, MovedIn
  <2>2. /\ FeesPaid(token, user) = 0 /\ FeesSigned(token, user) = 0
        /\ SentByCalls(token, user) = 0 /\ GotByCalls(token, user) = 0
    BY <2>1, SumEmpty DEF FeesPaid, FeesSigned, SentByCalls, GotByCalls
  <2>3. balance[<<token, user>>] = Funds /\ swept[<<token, user>>] = 0
    BY DEF Init, Holders
  <2>4. QED
    BY <2>1, <2>2, <2>3, ForwarderAssumption DEF Settled
<1>2. IInv /\ IInv' /\ ChargedAsSigned /\ [Next]_vars => ChargedAsSigned'
  <2> SUFFICES ASSUME IInv, IInv', ChargedAsSigned, [Next]_vars
               PROVE  \A token \in Tokens, user \in Users : Settled(token, user)'
    BY DEF ChargedAsSigned
  <2> TAKE token \in Tokens, user \in Users
  <2>0. <<token, user>> \in Tokens \X Users
    OBVIOUS
  <2>1. ASSUME NEW nonce \in Nonces, NEW relayer \in Operators, NEW fee_amount \in Fees,
               forward(nonce, fee_amount, relayer)
        PROVE  Settled(token, user)'
    <3>1. fee_amount \in Int
      BY ForwarderAssumption
    <3>2. QED
      BY <2>1, <3>1, SettledForward
  <2>2. ASSUME NEW nonce \in Nonces, NEW request \in Requests, Sign(nonce, request)
        PROVE  Settled(token, user)'
    <3>1. \A n \in DOMAIN charged : n \in DOMAIN signed' /\ signed'[n] = signed[n]
      BY <2>2 DEF Sign, IInv, TypeOK
    <3>2. charged' = charged /\ balance' = balance /\ swept' = swept
      BY <2>2 DEF Sign
    <3>3. QED
      BY <3>1, <3>2, SettledOtherwise
  <2>3. ASSUME NEW tk \in Tokens, NEW operator \in Operators, NEW recipient \in Holders,
               sweep_tokens(tk, recipient, operator)
        PROVE  Settled(token, user)'
    <3>1. \A e \in Tokens \X Users : balance'[e] - swept'[e] = balance[e] - swept[e]
      BY <2>3, InvSweep
    <3>2. balance'[<<token, user>>] - swept'[<<token, user>>]
            = balance[<<token, user>>] - swept[<<token, user>>]
      BY <2>0, <3>1
    <3>3. charged' = charged /\ signed' = signed
      BY <2>3 DEF sweep_tokens, requests
    <3>4. \A n \in DOMAIN charged : n \in DOMAIN signed' /\ signed'[n] = signed[n]
      BY <3>3 DEF IInv, TypeOK
    <3>5. QED
      BY <3>2, <3>3, <3>4, SettledOtherwise
  <2>4. CASE UNCHANGED <<balance, requests, swept>>
    <3>1. charged' = charged /\ signed' = signed /\ balance' = balance /\ swept' = swept
      BY <2>4 DEF requests
    <3>2. \A n \in DOMAIN charged : n \in DOMAIN signed' /\ signed'[n] = signed[n]
      BY <3>1 DEF IInv, TypeOK
    <3>3. QED
      BY <3>1, <3>2, SettledOtherwise
  <2>5. QED
    BY <2>1, <2>2, <2>3, <2>4
       DEF Next, PreApprove, enable_fee_token, disable_fee_token, grant_role, revoke_role,
           ChangeRole, CloseLedger, vars
<1>3. QED
  BY <1>1, <1>2, InvInit, InvStep, PTL DEF Spec
=============================================================================
