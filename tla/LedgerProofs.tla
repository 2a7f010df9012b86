---------------------------- MODULE LedgerProofs ----------------------------
(***************************************************************************)
(* The books of x/transfermiddleware balance, for every set of users,      *)
(* denoms, channels, infos and amounts: no account and no supply goes      *)
(* below zero, escrow accounts hold what is abroad, native tokens are      *)
(* backed, and the query of custom/bank reports what is held.              *)
(***************************************************************************)
EXTENDS BankSupply, TransferMiddlewareProofs

-----------------------------------------------------------------------------
(* A bank whose supplies are what its accounts hold.                       *)

NatBank == [balance : [Account -> [Denom -> Nat]], supply : [Denom -> Nat]]

Held(b, d) == [acc \in Account |-> b.balance[acc][d]]

Ledger(b) ==
    /\ b \in NatBank
    /\ \A d \in Denom : b.supply[d] = Total(Held(b, d))

LEMMA AccountsFinite == IsFiniteSet(Account)
  BY FiniteAssumption, FS_Union DEF Account

LEMMA IbcDenomsFinite == IsFiniteSet(IbcDenom)
  BY FiniteAssumption, FS_Product DEF IbcDenom

LEMMA NatBankFacts ==
    ASSUME NEW b \in NatBank
    PROVE  /\ b \in Bank
           /\ b.balance \in [Account -> [Denom -> Nat]] /\ b.supply \in [Denom -> Nat]
           /\ \A acc \in Account, d \in Denom : b.balance[acc][d] \in Nat
           /\ \A d \in Denom : b.supply[d] \in Nat /\ Held(b, d) \in [Account -> Nat]
  BY DEF NatBank, Bank, Balances, Held

(* The type of a bank from the values it holds. *)
LEMMA NatBankIntro ==
    ASSUME NEW b \in Bank,
           \A acc \in Account, d \in Denom : b.balance[acc][d] >= 0,
           \A d \in Denom : b.supply[d] >= 0
    PROVE  b \in NatBank
  <1>1. b.balance \in [Account -> [Denom -> Int]] /\ b.supply \in [Denom -> Int]
    BY DEF Bank, Balances
  <1>2. b.supply \in [Denom -> Nat]
    BY <1>1
  <1>3. \A acc \in Account : b.balance[acc] \in [Denom -> Nat]
    <2>1. SUFFICES ASSUME NEW acc \in Account
                   PROVE  b.balance[acc] \in [Denom -> Nat]
      OBVIOUS
    <2>2. b.balance[acc] \in [Denom -> Int]
      BY <1>1
    <2>3. QED
      BY <2>2
  <1>4. b.balance \in [Account -> [Denom -> Nat]]
    BY <1>1, <1>3
  <1>5. b = [balance |-> b.balance, supply |-> b.supply]
    BY DEF Bank
  <1>6. QED
    BY <1>2, <1>4, <1>5 DEF NatBank

LEMMA SendKeepsLedger ==
    ASSUME NEW b, Ledger(b), NEW from \in Account, NEW to \in Account, from # to,
           NEW denom \in Denom, NEW k \in Nat, CanPay(b, from, denom, k)
    PROVE  Ledger(SendCoins(b, from, to, denom, k))
  <1> DEFINE c == SendCoins(b, from, to, denom, k)
  <1>1. b \in NatBank /\ \A d \in Denom : b.supply[d] = Total(Held(b, d))
    BY DEF Ledger
  <1>2. Sent(b, c, from, to, denom, k)
    BY <1>1, NatBankFacts, SendFacts
  <1> HIDE DEF c
  <1>3. b.balance[from][denom] >= k
    BY DEF CanPay
  <1>4. c \in NatBank
    <2>1. \A acc \in Account, d \in Denom : c.balance[acc][d] >= 0
      BY <1>1, <1>2, <1>3, NatBankFacts DEF Sent
    <2>2. \A d \in Denom : c.supply[d] >= 0
      BY <1>1, <1>2, NatBankFacts DEF Sent
    <2>3. QED
      BY <1>2, <2>1, <2>2, NatBankIntro DEF Sent
  <1>5. ASSUME NEW d \in Denom
        PROVE  c.supply[d] = Total(Held(c, d))
    <2>1. Held(b, d) \in [Account -> Nat] /\ Held(c, d) \in [Account -> Nat]
      BY <1>1, <1>4, NatBankFacts
    <2>2. \A acc \in Account : /\ Held(b, d)[acc] = b.balance[acc][d]
                               /\ Held(c, d)[acc] = c.balance[acc][d]
      BY DEF Held
    <2>3. CASE d = denom
      <3>1. /\ Held(c, d)[from] = Held(b, d)[from] - k
            /\ Held(c, d)[to] = Held(b, d)[to] + k
            /\ \A x \in Account : x # from /\ x # to => Held(c, d)[x] = Held(b, d)[x]
        BY <1>2, <2>2, <2>3 DEF Sent
      <3>2. Total(Held(c, d)) = Total(Held(b, d))
        BY <2>1, <3>1, AccountsFinite, TotalMove
      <3>3. QED
        BY <1>1, <1>2, <3>2 DEF Sent
    <2>4. CASE d # denom
      <3>1. Held(c, d) = Held(b, d)
        BY <1>2, <2>4 DEF Sent, Held
      <3>2. QED
        BY <1>1, <1>2, <3>1 DEF Sent
    <2>5. QED
      BY <2>3, <2>4
  <1>6. QED
    BY <1>4, <1>5 DEF Ledger, c

(* Minting, and burning of what the account holds. *)
LEMMA CreateKeepsLedger ==
    ASSUME NEW b, Ledger(b), NEW c, NEW acc \in Account, NEW denom \in Denom,
           NEW k \in Int, Created(b, c, acc, denom, k), b.balance[acc][denom] + k >= 0
    PROVE  Ledger(c)
  <1>1. b \in NatBank /\ \A d \in Denom : b.supply[d] = Total(Held(b, d))
    BY DEF Ledger
  <1>2. c \in Bank
    BY DEF Created
  <1>3. \A a \in Account, d \in Denom : c.balance[a][d] \in Nat
    <2>1. \A a \in Account, d \in Denom : c.balance[a][d] \in Int
      BY <1>2 DEF Bank, Balances
    <2>2. \A a \in Account, d \in Denom : c.balance[a][d] >= 0
      BY <1>1, NatBankFacts DEF Created
    <2>3. QED
      BY <2>1, <2>2
  <1>4. ASSUME NEW d \in Denom
        PROVE  c.supply[d] = Total(Held(c, d)) /\ c.supply[d] >= 0
    <2>1. Held(b, d) \in [Account -> Nat] /\ Held(c, d) \in [Account -> Nat]
      BY <1>1, <1>3, NatBankFacts DEF Held
    <2>2. \A a \in Account : /\ Held(b, d)[a] = b.balance[a][d]
                             /\ Held(c, d)[a] = c.balance[a][d]
      BY DEF Held
    <2>3. Total(Held(b, d)) \in Nat /\ Total(Held(c, d)) \in Nat
      BY <2>1, AccountsFinite, TotalType
    <2>4. CASE d = denom
      <3>1. \A x \in Account : x # acc => Held(c, d)[x] = Held(b, d)[x]
        BY <2>2 DEF Created
      <3>2. Total(Held(c, d)) - Held(c, d)[acc] = Total(Held(b, d)) - Held(b, d)[acc]
        BY <2>1, <3>1, AccountsFinite, TotalChange
      <3>3. /\ Held(b, d)[acc] \in Nat
            /\ Held(c, d)[acc] = Held(b, d)[acc] + k
            /\ c.supply[d] = Total(Held(b, d)) + k
        BY <1>1, <2>1, <2>2, <2>4 DEF Created
      <3>4. QED
        BY <2>3, <3>2, <3>3
    <2>5. CASE d # denom
      <3>1. Held(c, d) = Held(b, d)
        BY <2>5 DEF Created, Held
      <3>2. QED
        BY <1>1, <2>3, <2>5, <3>1 DEF Created
    <2>6. QED
      BY <2>4, <2>5
  <1>5. c \in NatBank
    BY <1>2, <1>3, <1>4, NatBankIntro
  <1>6. QED
    BY <1>4, <1>5 DEF Ledger

-----------------------------------------------------------------------------
(* What is abroad.                                                         *)

(* By this chain's books, what left through a channel and is not back: of  *)
(* its vouchers what the parachain had at first and is not in circulation  *)
(* here, of any other denom what the escrow account holds.                 *)
Abroad(b, channel, denom) ==
    IF IsVoucher(denom, channel) THEN RemoteSupply[denom] - b.supply[denom]
                                 ELSE b.balance[channel][denom]

(* From bank b to c, k more of the denom are abroad through the channel. *)
Shifts(b, c, channel, denom, k) ==
    \A ch \in Channel, d \in Denom :
        Abroad(c, ch, d) = IF ch = channel /\ d = denom THEN Abroad(b, ch, d) + k
                                                        ELSE Abroad(b, ch, d)

LEMMA AbroadType ==
    ASSUME NEW b \in NatBank, NEW channel \in Channel, NEW denom \in Denom
    PROVE  Abroad(b, channel, denom) \in Int
  BY NatBankFacts, AmountAssumption DEF Abroad, IsVoucher, Account

LEMMA TakeShifts ==
    ASSUME NEW b, Ledger(b), NEW u \in User, NEW channel \in Channel,
           NEW denom \in Denom, NEW k \in Nat, CanPay(b, u, denom, k)
    PROVE  /\ Ledger(Take(b, u, channel, denom, k))
           /\ Shifts(b, Take(b, u, channel, denom, k), channel, denom, k)
  <1>1. u \in Account /\ channel \in Account /\ u # channel /\ Channel \subseteq Account
    BY Disjoint DEF Account
  <1>2. b \in NatBank /\ b \in Bank
    BY NatBankFacts DEF Ledger
  <1>3. \A d \in Denom : b.supply[d] \in Int
    BY <1>2, NatBankFacts
  <1>4. CASE IsVoucher(denom, channel)
    <2> DEFINE c == BurnCoins(b, u, denom, k)
    <2>1. Take(b, u, channel, denom, k) = c
      BY <1>4 DEF Take
    <2>2. Created(b, c, u, denom, -k)
      BY <1>1, <1>2, BurnFacts
    <2> HIDE DEF c
    <2>3. b.balance[u][denom] + (-k) >= 0
      BY <1>1, <1>2, NatBankFacts DEF CanPay
    <2>4. Ledger(c)
      BY <1>1, <2>2, <2>3, CreateKeepsLedger
    <2>5. \A d \in IbcDenom : RemoteSupply[d] \in Int
      BY AmountAssumption
    <2>6. Shifts(b, c, channel, denom, k)
      <3>1. SUFFICES ASSUME NEW ch \in Channel, NEW d \in Denom
                     PROVE  Abroad(c, ch, d) = IF ch = channel /\ d = denom
                                               THEN Abroad(b, ch, d) + k ELSE Abroad(b, ch, d)
        BY DEF Shifts
      <3>2. CASE IsVoucher(d, ch)
        <4>1. d = denom => ch = channel
          BY <1>4, <3>2 DEF IsVoucher
        <4>2. d \in IbcDenom
          BY <3>2 DEF IsVoucher
        <4>3. c.supply[d] = IF d = denom THEN b.supply[d] + (-k) ELSE b.supply[d]
          BY <2>2 DEF Created
        <4>4. QED
          BY <1>3, <2>5, <3>2, <4>1, <4>2, <4>3 DEF Abroad
      <3>3. CASE ~ IsVoucher(d, ch)
        <4>1. ~ (ch = channel /\ d = denom)
          BY <1>4, <3>3
        <4>2. c.balance[ch][d] = b.balance[ch][d]
          BY <1>1, <2>2, Disjoint DEF Created
        <4>3. QED
          BY <3>3, <4>1, <4>2 DEF Abroad
      <3>4. QED
        BY <3>2, <3>3
    <2>7. QED
      BY <2>1, <2>4, <2>6
  <1>5. CASE ~ IsVoucher(denom, channel)
    <2> DEFINE c == SendCoins(b, u, channel, denom, k)
    <2>1. Take(b, u, channel, denom, k) = c
      BY <1>5 DEF Take
    <2>2. Sent(b, c, u, channel, denom, k)
      BY <1>1, <1>2, SendFacts
    <2>3. Ledger(c)
      BY <1>1, SendKeepsLedger
    <2> HIDE DEF c
    <2>4. Shifts(b, c, channel, denom, k)
      BY <1>1, <1>5, <2>2, Disjoint DEF Shifts, Abroad, Sent
    <2>5. QED
      BY <2>1, <2>3, <2>4
  <1>6. QED
    BY <1>4, <1>5

LEMMA GiveShifts ==
    ASSUME NEW b, Ledger(b), NEW u \in User, NEW channel \in Channel,
           NEW denom \in Denom, NEW k \in Nat,
           ~ IsVoucher(denom, channel) => CanPay(b, channel, denom, k)
    PROVE  /\ Ledger(Give(b, u, channel, denom, k))
           /\ CanPay(Give(b, u, channel, denom, k), u, denom, k)
           /\ Shifts(b, Give(b, u, channel, denom, k), channel, denom, -k)
  <1>1. u \in Account /\ channel \in Account /\ u # channel /\ Channel \subseteq Account
    BY Disjoint DEF Account
  <1>2. b \in NatBank /\ b \in Bank
    BY NatBankFacts DEF Ledger
  <1>3. (\A d \in Denom : b.supply[d] \in Int) /\ b.balance[u][denom] \in Nat
    BY <1>1, <1>2, NatBankFacts
  <1>4. CASE IsVoucher(denom, channel)
    <2> DEFINE c == MintCoins(b, u, denom, k)
    <2>1. Give(b, u, channel, denom, k) = c
      BY <1>4 DEF Give
    <2>2. Created(b, c, u, denom, k)
      BY <1>1, <1>2, MintFacts
    <2> HIDE DEF c
    <2>3. c.balance[u][denom] = b.balance[u][denom] + k
      BY <1>1, <2>2 DEF Created
    <2>4. Ledger(c) /\ CanPay(c, u, denom, k)
      BY <1>1, <1>3, <2>2, <2>3, CreateKeepsLedger DEF CanPay
    <2>5. \A d \in IbcDenom : RemoteSupply[d] \in Int
      BY AmountAssumption
    <2>6. Shifts(b, c, channel, denom, -k)
      <3>1. SUFFICES ASSUME NEW ch \in Channel, NEW d \in Denom
                     PROVE  Abroad(c, ch, d) = IF ch = channel /\ d = denom
                                               THEN Abroad(b, ch, d) + (-k) ELSE Abroad(b, ch, d)
        BY DEF Shifts
      <3>2. CASE IsVoucher(d, ch)
        <4>1. d = denom => ch = channel
          BY <1>4, <3>2 DEF IsVoucher
        <4>2. d \in IbcDenom
          BY <3>2 DEF IsVoucher
        <4>3. c.supply[d] = IF d = denom THEN b.supply[d] + k ELSE b.supply[d]
          BY <2>2 DEF Created
        <4>4. QED
          BY <1>3, <2>5, <3>2, <4>1, <4>2, <4>3 DEF Abroad
      <3>3. CASE ~ IsVoucher(d, ch)
        <4>1. ~ (ch = channel /\ d = denom)
          BY <1>4, <3>3
        <4>2. c.balance[ch][d] = b.balance[ch][d]
          BY <1>1, <2>2, Disjoint DEF Created
        <4>3. QED
          BY <3>3, <4>1, <4>2 DEF Abroad
      <3>4. QED
        BY <3>2, <3>3
    <2>7. QED
      BY <2>1, <2>4, <2>6
  <1>5. CASE ~ IsVoucher(denom, channel)
    <2> DEFINE c == SendCoins(b, channel, u, denom, k)
    <2>1. Give(b, u, channel, denom, k) = c
      BY <1>5 DEF Give
    <2>2. Sent(b, c, channel, u, denom, k)
      BY <1>1, <1>2, SendFacts
    <2>3. Ledger(c)
      BY <1>1, <1>5, SendKeepsLedger
    <2> HIDE DEF c
    <2>4. Shifts(b, c, channel, denom, -k)
      <3>1. SUFFICES ASSUME NEW ch \in Channel, NEW d \in Denom
                     PROVE  Abroad(c, ch, d) = IF ch = channel /\ d = denom
                                               THEN Abroad(b, ch, d) + (-k) ELSE Abroad(b, ch, d)
        BY DEF Shifts
      <3>2. /\ c.supply = b.supply
            /\ c.balance[ch][d] = IF d = denom /\ ch = channel THEN b.balance[ch][d] - k
                                                               ELSE b.balance[ch][d]
        BY <1>1, <2>2, Disjoint DEF Sent
      <3>3. b.balance[ch][d] \in Int
        BY <1>1, <1>2, NatBankFacts
      <3>4. QED
        BY <1>5, <3>2, <3>3 DEF Abroad
    <2>5. CanPay(c, u, denom, k)
      <3>1. c.balance[u][denom] = b.balance[u][denom] + k
        BY <1>1, <2>2 DEF Sent
      <3>2. QED
        BY <1>3, <3>1 DEF CanPay
    <2>6. QED
      BY <2>1, <2>3, <2>4, <2>5
  <1>6. QED
    BY <1>4, <1>5

(* What is abroad is the same in both. *)
SameAbroad(b, c) ==
    \A ch \in Channel, d \in Denom : Abroad(c, ch, d) = Abroad(b, ch, d)

(* Of two vouchers only the locked one belongs to the channel that holds   *)
(* it: a transfer of vouchers between a user and their channel leaves what *)
(* is abroad alone.                                                        *)
LEMMA LockSameAbroad ==
    ASSUME NEW b, NEW c, NEW from, NEW to, NEW denom, NEW k, NEW channel \in Channel,
           Sent(b, c, from, to, denom, k), IsVoucher(denom, channel),
           \/ from \in User /\ to = channel
           \/ from = channel /\ to \in User
    PROVE  SameAbroad(b, c)
  <1>1. SUFFICES ASSUME NEW ch \in Channel, NEW d \in Denom
                 PROVE  Abroad(c, ch, d) = Abroad(b, ch, d)
    BY DEF SameAbroad
  <1>2. ~ IsVoucher(d, ch) => c.balance[ch][d] = b.balance[ch][d]
    <2>1. ~ IsVoucher(d, ch) => ~ (d = denom /\ ch = channel)
      OBVIOUS
    <2>2. ch \in Account
      BY DEF Account
    <2>3. QED
      BY <2>1, <2>2, Disjoint DEF Sent
  <1>3. QED
    BY <1>2 DEF Abroad, Sent

LEMMA ConvertKeepsLedger ==
    ASSUME NEW b, Ledger(b), NEW u \in User, NEW info \in Infos, NEW k \in Nat,
           CanPay(b, u, info.ibcDenom, k)
    PROVE  /\ Ledger(Convert(b, u, info, k))
           /\ SameAbroad(b, Convert(b, u, info, k))
  <1>1. /\ info.nativeDenom \in Native /\ info.ibcDenom \in IbcDenom
        /\ info.channel \in Channel
        /\ info.ibcDenom[1] = info.channel
    BY InfoFacts, PairingAssumption
  <1>2. /\ u \in Account /\ info.channel \in Account /\ u # info.channel
        /\ info.nativeDenom \in Denom /\ info.ibcDenom \in Denom
        /\ IsVoucher(info.ibcDenom, info.channel)
    BY <1>1, Disjoint DEF Account, IsVoucher
  <1> DEFINE c == SendCoins(b, u, info.channel, info.ibcDenom, k)
             e == MintCoins(c, u, info.nativeDenom, k)
  <1>3. b \in Bank
    BY NatBankFacts DEF Ledger
  <1>4. Ledger(c) /\ Sent(b, c, u, info.channel, info.ibcDenom, k)
    BY <1>2, <1>3, SendKeepsLedger, SendFacts
  <1> HIDE DEF c
  <1>5. SameAbroad(b, c)
    BY <1>1, <1>2, <1>4, LockSameAbroad
  <1>6. c \in NatBank /\ c \in Bank /\ c.balance[u][info.nativeDenom] \in Nat
    BY <1>2, <1>4, NatBankFacts DEF Ledger
  <1>7. Created(c, e, u, info.nativeDenom, k)
    BY <1>2, <1>6, MintFacts
  <1> HIDE DEF e
  <1>8. Ledger(e)
    BY <1>2, <1>4, <1>6, <1>7, CreateKeepsLedger
  <1>9. SameAbroad(c, e)
    <2>1. SUFFICES ASSUME NEW ch \in Channel, NEW d \in Denom
                   PROVE  Abroad(e, ch, d) = Abroad(c, ch, d)
      BY DEF SameAbroad
    <2>2. e.balance[ch][d] = c.balance[ch][d]
      BY <1>7, Disjoint DEF Created, Account
    <2>3. IsVoucher(d, ch) => e.supply[d] = c.supply[d]
      BY <1>1, <1>7, Disjoint DEF Created, IsVoucher
    <2>4. QED
      BY <2>2, <2>3 DEF Abroad
  <1>10. Convert(b, u, info, k) = e
    BY DEF Convert, c, e
  <1>11. QED
    BY <1>5, <1>8, <1>9, <1>10 DEF SameAbroad

(* An overridden send: the native tokens, just escrowed, are burned, and   *)
(* the vouchers leave in their place.                                      *)
LEMMA OverrideShifts ==
    ASSUME NEW b, Ledger(b), NEW u \in User, NEW native \in Native, NEW channel \in Channel,
           NEW k \in Nat, RegistryTypeOK,
           native \in DOMAIN infoByNative, infoByNative[native].channel = channel,
           CanPay(b, channel, native, k),
           CanPay(b, channel, infoByNative[native].ibcDenom, k)
    PROVE  LET c == OverrideSend(b, u, channel, native, k)
               ibc == infoByNative[native].ibcDenom
           IN  /\ Ledger(c)
               /\ \A ch \in Channel, d \in Denom :
                    Abroad(c, ch, d) =
                      IF ch = channel /\ d = native THEN Abroad(b, ch, d) - k
                      ELSE IF ch = channel /\ d = ibc THEN Abroad(b, ch, d) + k
                      ELSE Abroad(b, ch, d)
  <1> DEFINE ibc == infoByNative[native].ibcDenom
             burned == BurnCoins(b, channel, native, k)
             released == SendCoins(burned, channel, u, ibc, k)
             sent == Take(released, u, channel, ibc, k)
  <1>1. infoByNative[native] \in Infos
    BY DEF RegistryTypeOK
  <1>2. ibc \in IbcDenom /\ ibc[1] = channel
    BY <1>1, InfoFacts, PairingAssumption
  <1> HIDE DEF ibc
  <1>3. /\ u \in Account /\ channel \in Account /\ u # channel
        /\ native \in Denom /\ ibc \in Denom /\ native # ibc
        /\ IsVoucher(ibc, channel) /\ ~ IsVoucher(native, channel)
    BY <1>2, Disjoint DEF Account, IsVoucher
  <1>4. b \in NatBank /\ b \in Bank
    BY NatBankFacts DEF Ledger
  <1>5. /\ b.balance[channel][native] \in Nat /\ b.balance[channel][native] >= k
        /\ b.balance[channel][ibc] \in Nat /\ b.balance[channel][ibc] >= k
    BY <1>3, <1>4, NatBankFacts DEF CanPay, ibc
  <1>6. Created(b, burned, channel, native, -k)
    BY <1>3, <1>4, BurnFacts
  <1> HIDE DEF burned
  <1>7. Ledger(burned)
    BY <1>3, <1>5, <1>6, CreateKeepsLedger
  <1>8. CanPay(burned, channel, ibc, k)
    BY <1>3, <1>5, <1>6 DEF Created, CanPay
  <1>9. burned \in NatBank /\ burned \in Bank /\ burned.balance[u][ibc] \in Nat
    BY <1>3, <1>7, NatBankFacts DEF Ledger
  <1>10. Ledger(released) /\ Sent(burned, released, channel, u, ibc, k)
    BY <1>3, <1>7, <1>8, <1>9, SendKeepsLedger, SendFacts
  <1> HIDE DEF released
  <1>11. CanPay(released, u, ibc, k)
    <2>1. released.balance[u][ibc] = burned.balance[u][ibc] + k
      BY <1>3, <1>10 DEF Sent
    <2>2. QED
      BY <1>9, <2>1 DEF CanPay
  <1>12. Ledger(sent) /\ Shifts(released, sent, channel, ibc, k)
    BY <1>3, <1>10, <1>11, TakeShifts
  <1>13. SameAbroad(burned, released)
    BY <1>3, <1>10, LockSameAbroad
  <1> HIDE DEF sent
  <1>14. ASSUME NEW ch \in Channel, NEW d \in Denom
         PROVE  Abroad(burned, ch, d) = IF ch = channel /\ d = native THEN Abroad(b, ch, d) - k
                                        ELSE Abroad(b, ch, d)
    <2>1. ch \in Account /\ b.balance[ch][d] \in Int
      BY <1>4, NatBankFacts DEF Account
    <2>2. burned.balance[ch][d] = IF d = native /\ ch = channel THEN b.balance[ch][d] + (-k)
                                  ELSE b.balance[ch][d]
      BY <1>6, <2>1 DEF Created
    <2>3. CASE IsVoucher(d, ch)
      <3>1. d # native
        BY <2>3, Disjoint DEF IsVoucher
      <3>2. burned.supply[d] = b.supply[d]
        BY <1>6, <3>1 DEF Created
      <3>3. QED
        BY <2>3, <3>1, <3>2 DEF Abroad
    <2>4. CASE ~ IsVoucher(d, ch)
      BY <2>1, <2>2, <2>4 DEF Abroad
    <2>5. QED
      BY <2>3, <2>4
  <1>15. OverrideSend(b, u, channel, native, k) = sent
    BY DEF OverrideSend, burned, released, sent, ibc
  <1>16. ASSUME NEW ch \in Channel, NEW d \in Denom
         PROVE  Abroad(sent, ch, d) =
                  IF ch = channel /\ d = native THEN Abroad(b, ch, d) - k
                  ELSE IF ch = channel /\ d = ibc THEN Abroad(b, ch, d) + k
                  ELSE Abroad(b, ch, d)
    <2>1. Abroad(sent, ch, d) = IF ch = channel /\ d = ibc THEN Abroad(burned, ch, d) + k
                                                           ELSE Abroad(burned, ch, d)
      BY <1>12, <1>13 DEF Shifts, SameAbroad
    <2>2. QED
      BY <1>3, <1>14, <2>1
  <1>17. QED
    BY <1>12, <1>15, <1>16 DEF ibc

-----------------------------------------------------------------------------
(* Packets in transit.                                                     *)

Pending(ps, channel, denom) ==
    {p \in ps : p.channel = channel /\ p.denom = denom /\ p.status # "received"}

Weight(ps, channel, denom) == Total([p \in Pending(ps, channel, denom) |-> p.amount])

(* What one packet adds. *)
Share(p, channel, denom) ==
    IF p.channel = channel /\ p.denom = denom /\ p.status # "received" THEN p.amount ELSE 0

LEMMA PacketFacts ==
    ASSUME NEW p \in Packet
    PROVE  /\ p.amount \in Amount /\ p.amount \in Nat /\ p.sequence \in Nat
           /\ p.sender \in User /\ p.channel \in Channel /\ p.denom \in Denom
           /\ \A c, d : Share(p, c, d) \in Nat
  <1>1. /\ p.amount \in Amount /\ p.sequence \in Nat
        /\ p.sender \in User /\ p.channel \in Channel /\ p.denom \in Denom
    BY DEF Packet
  <1>2. p.amount \in Nat
    BY <1>1, AmountAssumption
  <1>3. QED
    BY <1>1, <1>2 DEF Share

LEMMA PendingFacts ==
    ASSUME NEW ps, ps \subseteq Packet, IsFiniteSet(ps), NEW channel, NEW denom
    PROVE  LET f == [p \in Pending(ps, channel, denom) |-> p.amount]
           IN  /\ IsFiniteSet(Pending(ps, channel, denom))
               /\ f \in [Pending(ps, channel, denom) -> Nat]
               /\ Weight(ps, channel, denom) \in Nat
  <1> DEFINE S == Pending(ps, channel, denom)
             f == [p \in S |-> p.amount]
  <1>1. S \subseteq ps
    BY DEF Pending
  <1> HIDE DEF S
  <1>2. IsFiniteSet(S)
    BY <1>1, FS_Subset
  <1>3. f \in [S -> Nat]
    BY <1>1, PacketFacts
  <1>4. Weight(ps, channel, denom) = Total(f)
    BY DEF Weight, S
  <1> HIDE DEF f
  <1>5. Total(f) \in Nat
    BY <1>2, <1>3, TotalType
  <1>6. QED
    BY <1>2, <1>3, <1>4, <1>5 DEF S, f

LEMMA AddPacket ==
    ASSUME NEW ps, ps \subseteq Packet, IsFiniteSet(ps), NEW p \in Packet, p \notin ps,
           NEW channel, NEW denom
    PROVE  Weight(ps \cup {p}, channel, denom)
             = Weight(ps, channel, denom) + Share(p, channel, denom)
  <1> DEFINE new == ps \cup {p}
             S == Pending(ps, channel, denom)
             T == Pending(new, channel, denom)
             g == [q \in T |-> q.amount]
  <1>1. new \subseteq Packet /\ IsFiniteSet(new)
    BY FS_AddElement
  <1>2. IsFiniteSet(T) /\ g \in [T -> Nat]
    <2> HIDE DEF new
    <2>1. QED
      BY <1>1, PendingFacts
  <1>3. Weight(ps, channel, denom) \in Nat
    BY PendingFacts
  <1>4. CASE p \in T
    <2>1. T \ {p} = S
      BY DEF Pending
    <2>2. Total(g) = g[p] + Total([q \in T \ {p} |-> g[q]])
      <3> HIDE DEF g, T
      <3>1. QED
        BY <1>2, <1>4, TotalSplit
    <2>3. [q \in T \ {p} |-> g[q]] = [q \in S |-> q.amount]
      BY <2>1
    <2>4. g[p] = p.amount /\ p.amount = Share(p, channel, denom)
      BY <1>4 DEF Pending, Share
    <2>5. p.amount \in Nat
      BY PacketFacts
    <2> HIDE DEF g, S, T
    <2>6. Total(g) = p.amount + Weight(ps, channel, denom)
      BY <2>2, <2>3, <2>4 DEF Weight, S
    <2>7. Total(g) = Weight(ps \cup {p}, channel, denom)
      BY DEF g, T, Weight
    <2>8. QED
      BY <1>3, <2>4, <2>5, <2>6, <2>7
  <1>5. CASE p \notin T
    <2>1. T = S /\ Share(p, channel, denom) = 0
      BY <1>5 DEF Pending, Share
    <2>2. Weight(ps \cup {p}, channel, denom) = Weight(ps, channel, denom)
      BY <2>1 DEF Weight
    <2>3. QED
      BY <1>3, <2>1, <2>2
  <1>6. QED
    BY <1>4, <1>5

LEMMA RemovePacket ==
    ASSUME NEW ps, ps \subseteq Packet, IsFiniteSet(ps), NEW p \in ps, NEW channel, NEW denom
    PROVE  /\ Weight(ps, channel, denom)
                = Weight(ps \ {p}, channel, denom) + Share(p, channel, denom)
           /\ Weight(ps \ {p}, channel, denom) \in Nat
  <1> DEFINE rest == ps \ {p}
  <1>1. rest \subseteq Packet /\ IsFiniteSet(rest) /\ p \notin rest /\ p \in Packet
    BY FS_RemoveElement
  <1>2. rest \cup {p} = ps
    OBVIOUS
  <1> HIDE DEF rest
  <1>3. /\ Weight(rest \cup {p}, channel, denom)
             = Weight(rest, channel, denom) + Share(p, channel, denom)
        /\ Weight(rest, channel, denom) \in Nat
    BY <1>1, AddPacket, PendingFacts
  <1>4. QED
    BY <1>2, <1>3 DEF rest

LEMMA InTransitIsWeight ==
    \A c \in Channel, d \in Denom : InTransit(c, d) = Weight(packets, c, d)
  BY DEF InTransit, Weight, Pending

-----------------------------------------------------------------------------
(* The inductive invariant: supplies are what accounts hold, sequences tell*)
(* packets apart, and what this chain's books say is abroad is what the    *)
(* counterparties hold and what is on its way.                             *)

SequencesDistinct ==
    /\ \A p \in packets : p.sequence < sequence
    /\ \A p, q \in packets : p.sequence = q.sequence => p = q

AbroadAccounted ==
    \A c \in Channel, d \in Denom :
        Abroad(bank, c, d) = Weight(packets, c, d) + remote[c][d]

BooksInv ==
    /\ PegInv
    /\ Ledger(bank)
    /\ remote \in [Channel -> [Denom -> Nat]]
    /\ sequence \in 1 .. (MaxPackets + 1)
    /\ IsFiniteSet(packets)
    /\ SequencesDistinct
    /\ AbroadAccounted

LEMMA BooksFacts ==
    ASSUME BooksInv
    PROVE  /\ RegistryTypeOK /\ IndexesAgree
           /\ bank \in NatBank /\ bank \in Bank
           /\ packets \subseteq Packet
           /\ \A c \in Channel, d \in Denom :
                /\ remote[c][d] \in Nat
                /\ Weight(packets, c, d) \in Nat
                /\ Abroad(bank, c, d) \in Int
  <1>1. packets \subseteq Packet /\ IsFiniteSet(packets) /\ bank \in NatBank
    BY DEF BooksInv, PegInv, Ledger
  <1>2. \A c \in Channel, d \in Denom : Weight(packets, c, d) \in Nat
    BY <1>1, PendingFacts
  <1>3. \A c \in Channel, d \in Denom : Abroad(bank, c, d) \in Int
    BY <1>1, AbroadType
  <1>4. QED
    BY <1>1, <1>2, <1>3 DEF BooksInv, PegInv, RegistryInv

(* A packet that the counterparty could take, or that failed, is covered   *)
(* by the escrow account.                                                  *)
LEMMA EscrowCanPay ==
    ASSUME BooksInv, NEW c \in Channel, NEW d \in Denom, NEW k \in Nat,
           Weight(packets, c, d) + remote[c][d] >= k
    PROVE  ~ IsVoucher(d, c) => CanPay(bank, c, d, k)
  BY DEF BooksInv, AbroadAccounted, Abroad, CanPay

LEMMA SendShifts ==
    ASSUME BooksInv, NEW u \in User, NEW channel \in Channel, NEW denom \in Denom,
           NEW k \in Amount, SendPacket(u, channel, denom, k)
    PROVE  LET sent == IF Overrides(denom, channel) THEN infoByNative[denom].ibcDenom
                                                    ELSE denom
           IN  sent \in Denom /\ Ledger(bank') /\ Shifts(bank, bank', channel, sent, k)
  <1> DEFINE taken == Take(bank, u, channel, denom, k)
             ibc == infoByNative[denom].ibcDenom
  <1>1. k \in Nat /\ CanPay(bank, u, denom, k) /\ Ledger(bank)
    BY AmountAssumption DEF SendPacket, BooksInv
  <1>2. Ledger(taken) /\ Shifts(bank, taken, channel, denom, k)
    BY <1>1, TakeShifts
  <1>3. CASE ~ Overrides(denom, channel)
    <2>1. bank' = taken
      BY <1>3 DEF SendPacket
    <2> HIDE DEF taken
    <2>2. QED
      BY <1>2, <1>3, <2>1
  <1>4. CASE Overrides(denom, channel)
    <2>1. bank' = OverrideSend(taken, u, channel, denom, k) /\ CanPay(taken, channel, ibc, k)
      BY <1>4 DEF SendPacket
    <2>2. /\ RegistryTypeOK /\ denom \in Native /\ denom \in DOMAIN infoByNative
          /\ infoByNative[denom].channel = channel /\ infoByNative[denom] \in Infos
      BY <1>4, BooksFacts DEF Overrides, HasInfo, RegistryTypeOK
    <2>3. ibc \in IbcDenom /\ ibc \in Denom /\ ibc # denom
      BY <2>2, InfoFacts, Disjoint
    <2> HIDE DEF taken, ibc
    <2>4. CanPay(taken, channel, denom, k)
      <3>1. ~ IsVoucher(denom, channel)
        BY <2>2, Disjoint DEF IsVoucher
      <3>2. taken.balance[channel][denom] = bank.balance[channel][denom] + k
        BY <1>2, <3>1 DEF Shifts, Abroad
      <3>3. bank.balance[channel][denom] \in Nat
        BY BooksFacts, NatBankFacts DEF Account
      <3>4. QED
        BY <1>1, <3>2, <3>3 DEF CanPay
    <2>5. /\ Ledger(bank')
          /\ \A ch \in Channel, d \in Denom :
               Abroad(bank', ch, d) =
                  IF ch = channel /\ d = denom THEN Abroad(taken, ch, d) - k
                  ELSE IF ch = channel /\ d = ibc THEN Abroad(taken, ch, d) + k
                  ELSE Abroad(taken, ch, d)
      BY <1>1, <1>2, <2>1, <2>2, <2>4, OverrideShifts DEF ibc
    <2>6. Shifts(bank, bank', channel, ibc, k)
      <3>1. SUFFICES ASSUME NEW ch \in Channel, NEW d \in Denom
                     PROVE  Abroad(bank', ch, d) = IF ch = channel /\ d = ibc
                                                   THEN Abroad(bank, ch, d) + k
                                                   ELSE Abroad(bank, ch, d)
        BY DEF Shifts
      <3>2. Abroad(taken, ch, d) = IF ch = channel /\ d = denom THEN Abroad(bank, ch, d) + k
                                                                ELSE Abroad(bank, ch, d)
        BY <1>2 DEF Shifts
      <3>3. Abroad(bank, ch, d) \in Int
        BY BooksFacts
      <3>4. QED
        BY <1>1, <2>3, <2>5, <3>2, <3>3
    <2>7. QED
      BY <1>4, <2>3, <2>5, <2>6 DEF ibc
  <1>5. QED
    BY <1>3, <1>4

LEMMA SendKeepsBooks ==
    ASSUME BooksInv, NEW u \in User, NEW channel \in Channel, NEW denom \in Denom,
           NEW k \in Amount, SendPacket(u, channel, denom, k)
    PROVE  BooksInv'
  <1> DEFINE sent == IF Overrides(denom, channel) THEN infoByNative[denom].ibcDenom
                                                  ELSE denom
             p == [sequence |-> sequence, channel |-> channel, denom |-> sent,
                   amount |-> k, sender |-> u, status |-> "sent"]
  <1>1. sent \in Denom /\ Ledger(bank') /\ Shifts(bank, bank', channel, sent, k)
    BY SendShifts
  <1>2. /\ packets' = packets \cup {p} /\ sequence' = sequence + 1 /\ remote' = remote
        /\ sequence <= MaxPackets
    BY DEF SendPacket
  <1> HIDE DEF sent
  <1>3. PegInv'
    BY SendIsPegStep DEF BooksInv, PegStep
  <1>4. sequence \in Nat /\ MaxPackets \in Nat /\ sequence' \in 1 .. (MaxPackets + 1)
    BY <1>2, AmountAssumption DEF BooksInv
  <1>5. p \in Packet /\ p.sequence = sequence
    BY <1>1, <1>4 DEF Packet
  <1>6. \A q \in packets : q.sequence < sequence /\ q.sequence \in Nat
    BY BooksFacts, PacketFacts DEF BooksInv, SequencesDistinct
  <1>7. p \notin packets
    BY <1>4, <1>5, <1>6
  <1>8. SequencesDistinct'
    <2> HIDE DEF p
    <2>1. \A q \in packets' : q.sequence < sequence'
      BY <1>2, <1>4, <1>5, <1>6
    <2>2. \A q, r \in packets' : q.sequence = r.sequence => q = r
      BY <1>2, <1>4, <1>5, <1>6 DEF BooksInv, SequencesDistinct
    <2>3. QED
      BY <2>1, <2>2 DEF SequencesDistinct
  <1>9. IsFiniteSet(packets')
    BY <1>2, FS_AddElement DEF BooksInv
  <1>10. AbroadAccounted'
    <2>1. SUFFICES ASSUME NEW c \in Channel, NEW d \in Denom
                   PROVE  Abroad(bank', c, d) = Weight(packets', c, d) + remote'[c][d]
      BY DEF AbroadAccounted
    <2>2. Share(p, c, d) = IF c = channel /\ d = sent THEN k ELSE 0
      BY DEF Share
    <2> HIDE DEF p
    <2>3. Weight(packets', c, d) = Weight(packets, c, d) + Share(p, c, d)
      BY <1>2, <1>5, <1>7, BooksFacts, AddPacket DEF BooksInv
    <2>4. Abroad(bank, c, d) = Weight(packets, c, d) + remote[c][d]
      BY DEF BooksInv, AbroadAccounted
    <2>5. Abroad(bank', c, d) = IF c = channel /\ d = sent THEN Abroad(bank, c, d) + k
                                                           ELSE Abroad(bank, c, d)
      BY <1>1 DEF Shifts
    <2>6. k \in Nat /\ Weight(packets, c, d) \in Nat /\ remote[c][d] \in Nat
      BY BooksFacts, AmountAssumption
    <2>7. QED
      BY <1>2, <2>2, <2>3, <2>4, <2>5, <2>6
  <1>11. remote' \in [Channel -> [Denom -> Nat]]
    BY <1>2 DEF BooksInv
  <1>12. QED
    BY <1>1, <1>3, <1>4, <1>8, <1>9, <1>10, <1>11 DEF BooksInv

(* What comes in, converted or not. *)
LEMMA RecvShifts ==
    ASSUME BooksInv, NEW u \in User, NEW channel \in Channel, NEW denom \in Denom,
           NEW k \in Nat, Weight(packets, channel, denom) + remote[channel][denom] >= k
    PROVE  LET b == OnRecv(bank, u, channel, denom, k)
               c == Refund(bank, u, channel, denom, k)
           IN  /\ Ledger(b) /\ Shifts(bank, b, channel, denom, -k)
               /\ Ledger(c) /\ Shifts(bank, c, channel, denom, -k)
  <1> DEFINE given == Give(bank, u, channel, denom, k)
  <1>1. /\ Ledger(given) /\ CanPay(given, u, denom, k)
        /\ Shifts(bank, given, channel, denom, -k)
    <2>1. ~ IsVoucher(denom, channel) => CanPay(bank, channel, denom, k)
      BY EscrowCanPay
    <2>2. QED
      BY <2>1, GiveShifts DEF BooksInv
  <1>2. ASSUME NEW info \in Infos, info.ibcDenom = denom
        PROVE  /\ Ledger(Convert(given, u, info, k))
               /\ Shifts(bank, Convert(given, u, info, k), channel, denom, -k)
    <2> HIDE DEF given
    <2>1. /\ Ledger(Convert(given, u, info, k))
          /\ SameAbroad(given, Convert(given, u, info, k))
      BY <1>1, <1>2, ConvertKeepsLedger
    <2>2. QED
      BY <1>1, <2>1 DEF Shifts, SameAbroad
  <1>3. RegistryTypeOK /\ IndexesAgree
    BY BooksFacts
  <1>4. /\ Ledger(OnRecv(bank, u, channel, denom, k))
        /\ Shifts(bank, OnRecv(bank, u, channel, denom, k), channel, denom, -k)
    <2>1. CASE ConvertsOnRecv(denom, channel)
      <3> DEFINE info == infoByAsset[denom[2]]
      <3>1. info \in Infos /\ info.ibcDenom = denom
        BY <1>3, <2>1 DEF ConvertsOnRecv, RegistryTypeOK, IndexesAgree
      <3>2. OnRecv(bank, u, channel, denom, k) = Convert(given, u, info, k)
        BY <2>1 DEF OnRecv
      <3> HIDE DEF given, info
      <3>3. QED
        BY <1>2, <3>1, <3>2
    <2>2. CASE ~ ConvertsOnRecv(denom, channel)
      BY <1>1, <2>2 DEF OnRecv
    <2>3. QED
      BY <2>1, <2>2
  <1>5. /\ Ledger(Refund(bank, u, channel, denom, k))
        /\ Shifts(bank, Refund(bank, u, channel, denom, k), channel, denom, -k)
    <2>1. CASE ConvertsOnRefund(denom, channel)
      <3> DEFINE info == infoByNative[nativeByIbc[denom]]
      <3>1. info \in Infos /\ info.ibcDenom = denom
        BY <1>3, <2>1 DEF ConvertsOnRefund, HasInfo, RegistryTypeOK, IndexesAgree
      <3>2. Refund(bank, u, channel, denom, k) = Convert(given, u, info, k)
        BY <2>1 DEF Refund
      <3> HIDE DEF given, info
      <3>3. QED
        BY <1>2, <3>1, <3>2
    <2>2. CASE ~ ConvertsOnRefund(denom, channel)
      BY <1>1, <2>2 DEF Refund
    <2>3. QED
      BY <2>1, <2>2
  <1>6. QED
    BY <1>4, <1>5

LEMMA RecvKeepsBooks ==
    ASSUME BooksInv, NEW u \in User, NEW channel \in Channel, NEW denom \in Denom,
           NEW k \in Amount, RecvPacket(u, channel, denom, k)
    PROVE  BooksInv'
  <1>1. /\ k \in Nat /\ remote[channel][denom] >= k
        /\ bank' = OnRecv(bank, u, channel, denom, k)
        /\ remote' = [remote EXCEPT ![channel][denom] = @ - k]
        /\ packets' = packets /\ sequence' = sequence
    BY AmountAssumption DEF RecvPacket
  <1>2. PegInv'
    BY RecvIsPegStep DEF BooksInv, PegStep
  <1>3. remote \in [Channel -> [Denom -> Nat]]
    BY DEF BooksInv
  <1>4. /\ remote' \in [Channel -> [Denom -> Nat]]
        /\ \A c \in Channel, d \in Denom :
             remote'[c][d] = IF c = channel /\ d = denom THEN remote[c][d] - k
                                                         ELSE remote[c][d]
    BY <1>1, <1>3
  <1>5. Ledger(bank') /\ Shifts(bank, bank', channel, denom, -k)
    <2>1. Weight(packets, channel, denom) + remote[channel][denom] >= k
      BY <1>1, BooksFacts
    <2>2. QED
      BY <1>1, <2>1, RecvShifts
  <1>6. AbroadAccounted'
    <2>1. SUFFICES ASSUME NEW c \in Channel, NEW d \in Denom
                   PROVE  Abroad(bank', c, d) = Weight(packets', c, d) + remote'[c][d]
      BY DEF AbroadAccounted
    <2>2. Abroad(bank, c, d) = Weight(packets, c, d) + remote[c][d]
      BY DEF BooksInv, AbroadAccounted
    <2>3. Abroad(bank', c, d) = IF c = channel /\ d = denom THEN Abroad(bank, c, d) + (-k)
                                                            ELSE Abroad(bank, c, d)
      BY <1>5 DEF Shifts
    <2>4. Weight(packets, c, d) \in Nat /\ remote[c][d] \in Nat
      BY BooksFacts
    <2>5. QED
      BY <1>1, <1>4, <2>2, <2>3, <2>4
  <1>7. QED
    BY <1>1, <1>2, <1>4, <1>5, <1>6 DEF BooksInv, SequencesDistinct

(* OnAcknowledgementPacket with an error, and OnTimeoutPacket. *)
LEMMA RefundKeepsBooks ==
    ASSUME BooksInv, NEW packet \in packets, packet.status # "received",
           UNCHANGED registryVars, UNCHANGED remote,
           bank' = Refund(bank, packet.sender, packet.channel, packet.denom, packet.amount),
           packets' = packets \ {packet}, sequence' = sequence
    PROVE  BooksInv'
  <1> DEFINE u == packet.sender
             channel == packet.channel
             denom == packet.denom
             k == packet.amount
  <1>1. /\ u \in User /\ channel \in Channel /\ denom \in Denom /\ k \in Nat
        /\ packets \subseteq Packet /\ IsFiniteSet(packets)
    BY BooksFacts, PacketFacts DEF BooksInv
  <1>2. PegInv'
    BY RefundIsPegStep DEF BooksInv, PegStep
  <1>3. \A c \in Channel, d \in Denom :
          Share(packet, c, d) = IF c = channel /\ d = denom THEN k ELSE 0
    BY DEF Share
  <1>4. \A c \in Channel, d \in Denom :
          /\ Weight(packets, c, d) = Weight(packets', c, d) + Share(packet, c, d)
          /\ Weight(packets', c, d) \in Nat
    BY <1>1, RemovePacket
  <1>5. \A c \in Channel, d \in Denom :
          Weight(packets, c, d) \in Nat /\ remote[c][d] \in Nat /\ Abroad(bank, c, d) \in Int
    BY BooksFacts
  <1> HIDE DEF u, channel, denom, k
  <1>6. Ledger(bank') /\ Shifts(bank, bank', channel, denom, -k)
    <2>1. Weight(packets, channel, denom) + remote[channel][denom] >= k
      BY <1>1, <1>3, <1>4, <1>5
    <2>2. bank' = Refund(bank, u, channel, denom, k)
      BY DEF u, channel, denom, k
    <2>3. QED
      BY <1>1, <2>1, <2>2, RecvShifts
  <1>7. AbroadAccounted'
    <2>1. SUFFICES ASSUME NEW c \in Channel, NEW d \in Denom
                   PROVE  Abroad(bank', c, d) = Weight(packets', c, d) + remote'[c][d]
      BY DEF AbroadAccounted
    <2>2. Abroad(bank, c, d) = Weight(packets, c, d) + remote[c][d]
      BY DEF BooksInv, AbroadAccounted
    <2>3. Abroad(bank', c, d) = IF c = channel /\ d = denom THEN Abroad(bank, c, d) + (-k)
                                                            ELSE Abroad(bank, c, d)
      BY <1>6 DEF Shifts
    <2>4. /\ Weight(packets, c, d) = Weight(packets', c, d) + Share(packet, c, d)
          /\ Share(packet, c, d) = IF c = channel /\ d = denom THEN k ELSE 0
          /\ Weight(packets', c, d) \in Nat /\ remote[c][d] \in Nat /\ remote' = remote
      BY <1>3, <1>4, <1>5
    <2>5. QED
      BY <1>1, <2>2, <2>3, <2>4
  <1>8. IsFiniteSet(packets') /\ SequencesDistinct'
    BY <1>1, FS_RemoveElement DEF BooksInv, SequencesDistinct
  <1>9. QED
    BY <1>2, <1>6, <1>7, <1>8 DEF BooksInv

LEMMA SettleKeepsBooks ==
    ASSUME BooksInv, SettleStep
    PROVE  BooksInv'
  <1>1. PICK packet \in packets : \/ RemoteRecv(packet) \/ RemoteRefuse(packet)
                                  \/ AckSuccess(packet) \/ AckError(packet)
                                  \/ TimeoutPacket(packet)
    BY DEF SettleStep
  <1>2. /\ packets \subseteq Packet /\ IsFiniteSet(packets) /\ packet \in Packet
        /\ bank \in NatBank /\ remote \in [Channel -> [Denom -> Nat]]
        /\ packet.channel \in Channel /\ packet.denom \in Denom /\ packet.amount \in Nat
    BY BooksFacts, PacketFacts DEF BooksInv
  <1>3. PegInv'
    BY SettleIsPegStep DEF BooksInv, PegStep
  <1>4. /\ IsFiniteSet(packets \ {packet}) /\ packets \ {packet} \subseteq Packet
        /\ \A c \in Channel, d \in Denom :
             /\ Weight(packets, c, d)
                  = Weight(packets \ {packet}, c, d) + Share(packet, c, d)
             /\ Weight(packets \ {packet}, c, d) \in Nat
    BY <1>2, RemovePacket, FS_RemoveElement
  <1>5. \A c \in Channel, d \in Denom :
          /\ Abroad(bank, c, d) = Weight(packets, c, d) + remote[c][d]
          /\ remote[c][d] \in Nat /\ Share(packet, c, d) \in Nat
    BY <1>2, BooksFacts, PacketFacts DEF BooksInv, AbroadAccounted
  <1>6. ASSUME NEW q \in Packet, q.sequence = packet.sequence,
               packets' = (packets \ {packet}) \cup {q}, sequence' = sequence
        PROVE  /\ IsFiniteSet(packets') /\ SequencesDistinct'
               /\ \A c \in Channel, d \in Denom :
                    Weight(packets', c, d)
                      = Weight(packets \ {packet}, c, d) + Share(q, c, d)
    <2>1. SequencesDistinct
      BY DEF BooksInv
    <2>2. q \notin packets \ {packet}
      BY <1>6, <2>1 DEF SequencesDistinct
    <2>3. SequencesDistinct'
      BY <1>6, <2>1 DEF SequencesDistinct
    <2>4. QED
      BY <1>4, <1>6, <2>2, <2>3, AddPacket, FS_AddElement
  <1>7. CASE RemoteRecv(packet)
    <2> DEFINE q == [packet EXCEPT !.status = "received"]
    <2>1. /\ packet.status = "sent"
          /\ packets' = (packets \ {packet}) \cup {q} /\ sequence' = sequence /\ bank' = bank
          /\ remote' = [remote EXCEPT ![packet.channel][packet.denom] = @ + packet.amount]
      BY <1>7 DEF RemoteRecv
    <2>2. q \in Packet /\ q.sequence = packet.sequence /\ q.status = "received"
      BY <1>2 DEF Packet
    <2> HIDE DEF q
    <2>3. \A c \in Channel, d \in Denom :
            /\ Share(q, c, d) = 0
            /\ Share(packet, c, d) = IF c = packet.channel /\ d = packet.denom
                                     THEN packet.amount ELSE 0
      BY <2>1, <2>2 DEF Share
    <2>4. /\ remote' \in [Channel -> [Denom -> Nat]]
          /\ \A c \in Channel, d \in Denom :
               remote'[c][d] = IF c = packet.channel /\ d = packet.denom
                               THEN remote[c][d] + packet.amount ELSE remote[c][d]
      BY <1>2, <2>1
    <2>5. /\ IsFiniteSet(packets') /\ SequencesDistinct'
          /\ \A c \in Channel, d \in Denom :
               Weight(packets', c, d)
                 = Weight(packets \ {packet}, c, d) + Share(q, c, d)
      BY <1>6, <2>1, <2>2
    <2>6. AbroadAccounted'
      <3>1. SUFFICES ASSUME NEW c \in Channel, NEW d \in Denom
                     PROVE  Abroad(bank', c, d) = Weight(packets', c, d) + remote'[c][d]
        BY DEF AbroadAccounted
      <3>2. /\ Abroad(bank', c, d) = Weight(packets, c, d) + remote[c][d]
            /\ Weight(packets, c, d)
                 = Weight(packets \ {packet}, c, d) + Share(packet, c, d)
            /\ Weight(packets', c, d) = Weight(packets \ {packet}, c, d) + Share(q, c, d)
        BY <1>4, <1>5, <2>1, <2>5
      <3>3. /\ Weight(packets \ {packet}, c, d) \in Nat /\ remote[c][d] \in Nat
            /\ Share(packet, c, d) \in Nat
        BY <1>4, <1>5
      <3>4. /\ Share(q, c, d) = 0
            /\ Share(packet, c, d) = IF c = packet.channel /\ d = packet.denom
                                     THEN packet.amount ELSE 0
            /\ remote'[c][d] = IF c = packet.channel /\ d = packet.denom
                               THEN remote[c][d] + packet.amount ELSE remote[c][d]
        BY <2>3, <2>4
      <3>5. QED
        BY <1>2, <3>2, <3>3, <3>4
    <2>7. QED
      BY <1>3, <2>1, <2>4, <2>5, <2>6 DEF BooksInv
  <1>8. CASE RemoteRefuse(packet)
    <2> DEFINE q == [packet EXCEPT !.status = "refused"]
    <2>1. /\ packet.status = "sent"
          /\ packets' = (packets \ {packet}) \cup {q} /\ sequence' = sequence
          /\ bank' = bank /\ remote' = remote
      BY <1>8 DEF RemoteRefuse
    <2>2. /\ q \in Packet /\ q.sequence = packet.sequence /\ q.status = "refused"
          /\ q.channel = packet.channel /\ q.denom = packet.denom /\ q.amount = packet.amount
      BY <1>2 DEF Packet
    <2> HIDE DEF q
    <2>3. \A c \in Channel, d \in Denom : Share(q, c, d) = Share(packet, c, d)
      BY <2>1, <2>2 DEF Share
    <2>4. /\ IsFiniteSet(packets') /\ SequencesDistinct'
          /\ \A c \in Channel, d \in Denom :
               Weight(packets', c, d)
                 = Weight(packets \ {packet}, c, d) + Share(q, c, d)
      BY <1>6, <2>1, <2>2
    <2>5. AbroadAccounted'
      <3>1. SUFFICES ASSUME NEW c \in Channel, NEW d \in Denom
                     PROVE  Abroad(bank', c, d) = Weight(packets', c, d) + remote'[c][d]
        BY DEF AbroadAccounted
      <3>2. QED
        BY <1>4, <1>5, <2>1, <2>3, <2>4
    <2>6. QED
      BY <1>3, <2>1, <2>4, <2>5 DEF BooksInv
  <1>9. CASE AckSuccess(packet)
    <2>1. /\ packet.status = "received"
          /\ packets' = packets \ {packet} /\ sequence' = sequence
          /\ bank' = bank /\ remote' = remote
      BY <1>9 DEF AckSuccess
    <2>2. \A c \in Channel, d \in Denom : Share(packet, c, d) = 0
      BY <2>1 DEF Share
    <2>3. AbroadAccounted'
      <3>1. SUFFICES ASSUME NEW c \in Channel, NEW d \in Denom
                     PROVE  Abroad(bank', c, d) = Weight(packets', c, d) + remote'[c][d]
        BY DEF AbroadAccounted
      <3>2. /\ Abroad(bank', c, d) = Weight(packets, c, d) + remote'[c][d]
            /\ Weight(packets, c, d)
                 = Weight(packets \ {packet}, c, d) + Share(packet, c, d)
            /\ Weight(packets \ {packet}, c, d) \in Nat
        BY <1>4, <1>5, <2>1
      <3>3. QED
        BY <2>1, <2>2, <3>2
    <2>4. SequencesDistinct'
      BY <2>1 DEF BooksInv, SequencesDistinct
    <2>5. QED
      BY <1>3, <1>4, <2>1, <2>3, <2>4 DEF BooksInv
  <1>10. CASE AckError(packet) \/ TimeoutPacket(packet)
    <2>1. /\ packet.status # "received"
          /\ UNCHANGED registryVars /\ UNCHANGED remote
          /\ bank' = Refund(bank, packet.sender, packet.channel, packet.denom, packet.amount)
          /\ packets' = packets \ {packet} /\ sequence' = sequence
      BY <1>10 DEF AckError, TimeoutPacket
    <2>2. QED
      BY <2>1, RefundKeepsBooks
  <1>11. QED
    BY <1>1, <1>7, <1>8, <1>9, <1>10

LEMMA BooksNext ==
    ASSUME BooksInv, [Next]_vars
    PROVE  BooksInv'
  <1>1. CASE TransferStep
    BY <1>1, SendKeepsBooks, RecvKeepsBooks DEF TransferStep
  <1>2. CASE SettleStep
    BY <1>2, SettleKeepsBooks
  <1>3. CASE UNCHANGED transferVars
    <2>1. PegInv'
      BY PegNext DEF BooksInv, PegStep
    <2>2. QED
      BY <1>3, <2>1 DEF transferVars, BooksInv, SequencesDistinct, AbroadAccounted
  <1>4. QED
    BY <1>1, <1>2, <1>3 DEF Next, RegistryStep, vars

(* At genesis the users hold what there is, and everything else is abroad. *)
LEMMA GenesisLedger ==
    ASSUME Init
    PROVE  Ledger(bank)
  <1>1. bank \in Bank
    BY PegInit DEF PegInv
  <1>2. \A acc \in Account, d \in Denom :
           bank.balance[acc][d] = IF acc \in User /\ d \in Native THEN GenesisSupply[acc][d] ELSE 0
    BY DEF Init
  <1>3. \A d \in Denom : bank.supply[d] = IF d \in Native THEN AtGenesis(d) ELSE 0
    BY DEF Init
  <1>4. \A u \in User, n \in Native : GenesisSupply[u][n] \in Nat
    BY AmountAssumption
  <1>5. \A acc \in Account, d \in Denom : bank.balance[acc][d] \in Nat
    BY <1>2, <1>4
  <1>6. bank \in NatBank
    <2>1. \A acc \in Account, d \in Denom : bank.balance[acc][d] >= 0
      BY <1>5
    <2>2. \A d \in Denom : bank.supply[d] >= 0
      BY <1>3, AtGenesisType
    <2>3. QED
      BY <1>1, <2>1, <2>2, NatBankIntro
  <1>7. ASSUME NEW d \in Denom
        PROVE  bank.supply[d] = Total(Held(bank, d))
    <2> DEFINE held == Held(bank, d)
    <2>1. held \in [Account -> Nat] /\ \A acc \in Account : held[acc] = bank.balance[acc][d]
      BY <1>5 DEF Held
    <2> HIDE DEF held
    <2>2. CASE d \in Native
      <3> DEFINE f == [u \in User |-> GenesisSupply[u][d]]
      <3>1. /\ f \in [User -> Nat] /\ User \subseteq Account
            /\ \A u \in User : held[u] = f[u]
            /\ \A acc \in Account \ User : held[acc] = 0
        BY <1>2, <1>4, <2>1, <2>2 DEF Account
      <3>2. bank.supply[d] = Total(f)
        BY <1>3, <2>2 DEF AtGenesis
      <3> HIDE DEF f
      <3>3. Total(f) = Total(held)
        BY <2>1, <3>1, TotalOfNonzero
      <3>4. QED
        BY <3>2, <3>3 DEF held
    <2>3. CASE d \notin Native
      <3>1. \A acc \in Account : held[acc] = 0
        BY <1>2, <2>1, <2>3
      <3>2. Total(held) = 0
        BY <2>1, <3>1, TotalOfZeros
      <3>3. QED
        BY <1>3, <2>3, <3>2 DEF held
    <2>4. QED
      BY <2>2, <2>3
  <1>8. QED
    BY <1>6, <1>7 DEF Ledger

LEMMA BooksInit ==
    ASSUME Init
    PROVE  BooksInv
  <1>1. PegInv /\ Ledger(bank)
    BY PegInit, GenesisLedger
  <1>2. \A d \in IbcDenom : RemoteSupply[d] \in Nat
    BY AmountAssumption
  <1>3. remote = [c \in Channel |-> [d \in Denom |->
                    IF IsVoucher(d, c) THEN RemoteSupply[d] ELSE 0]]
    BY DEF Init
  <1>4. remote \in [Channel -> [Denom -> Nat]]
    BY <1>2, <1>3 DEF IsVoucher
  <1>5. sequence \in 1 .. (MaxPackets + 1)
    BY AmountAssumption DEF Init
  <1>6. packets = {} /\ IsFiniteSet(packets) /\ SequencesDistinct
    BY FS_EmptySet DEF Init, SequencesDistinct
  <1>7. \A c \in Channel, d \in Denom : Weight(packets, c, d) = 0
    <2>1. SUFFICES ASSUME NEW c \in Channel, NEW d \in Denom
                   PROVE  Weight(packets, c, d) = 0
      OBVIOUS
    <2> DEFINE f == [p \in Pending(packets, c, d) |-> p.amount]
    <2>2. Pending(packets, c, d) = {}
      BY <1>6 DEF Pending
    <2>3. f \in [{} -> Nat]
      BY <2>2
    <2>4. Weight(packets, c, d) = Total(f)
      BY DEF Weight
    <2> HIDE DEF f
    <2>5. QED
      BY <2>3, <2>4, TotalOfZeros
  <1>8. AbroadAccounted
    <2>1. SUFFICES ASSUME NEW c \in Channel, NEW d \in Denom
                   PROVE  Abroad(bank, c, d) = Weight(packets, c, d) + remote[c][d]
      BY DEF AbroadAccounted
    <2>2. remote[c][d] = IF IsVoucher(d, c) THEN RemoteSupply[d] ELSE 0
      BY <1>3
    <2>3. CASE IsVoucher(d, c)
      <3>1. d \in IbcDenom /\ d \notin Native
        BY <2>3, Disjoint DEF IsVoucher
      <3>2. bank.supply[d] = 0
        BY <3>1 DEF Init
      <3>3. QED
        BY <1>2, <1>7, <2>2, <2>3, <3>1, <3>2 DEF Abroad
    <2>4. CASE ~ IsVoucher(d, c)
      <3>1. c \in Account /\ c \notin User
        BY Disjoint DEF Account
      <3>2. bank.balance[c][d] = 0
        BY <3>1 DEF Init
      <3>3. QED
        BY <1>7, <2>2, <2>4, <3>2 DEF Abroad
    <2>5. QED
      BY <2>3, <2>4
  <1>9. QED
    BY <1>1, <1>4, <1>5, <1>6, <1>8 DEF BooksInv

LEMMA BooksInvariance == Spec => []BooksInv
  <1>1. Init => BooksInv
    BY BooksInit
  <1>2. BooksInv /\ [Next]_vars => BooksInv'
    BY BooksNext
  <1> QED  BY <1>1, <1>2, PTL DEF Spec

(* No step takes more out of an account or off a supply than there is, for *)
(* every set of users, denoms, channels and infos: the refunds and the     *)
(* returns of the transfer application find the tokens they pay, whatever  *)
(* the middleware converted meanwhile (Refund, OnRecvPacket).              *)
THEOREM MiddlewareTypeCorrect == Spec => []TypeOK
  <1>1. BooksInv => TypeOK
    BY DEF BooksInv, PegInv, RegistryInv, Ledger, NatBank, TypeOK
  <1> QED  BY <1>1, BooksInvariance, PTL

(* The escrow account of a channel holds exactly what left through it and  *)
(* is not back, of every denom that is not a voucher of that channel       *)
(* (handleOverrideSendPacketTransferLogic).                                *)
THEOREM EscrowStaysBacked == Spec => []EscrowBacked
  <1>1. BooksInv => EscrowBacked
    BY InTransitIsWeight DEF BooksInv, AbroadAccounted, Abroad, EscrowBacked
  <1> QED  BY <1>1, BooksInvariance, PTL

-----------------------------------------------------------------------------
(* Native tokens are backed.                                               *)

Minted(b) == [n \in Native |-> b.supply[n]]
Escrowed(b) == [d \in IbcDenom |-> b.balance[d[1]][d]]

(* NativeBacked of any bank. *)
Backed(b) == Total(Minted(b)) = NativeAtGenesis + Total(Escrowed(b))

LEMMA NativeBackedIsBacked ==
    /\ NativeSupply = Total(Minted(bank)) /\ Locked = Total(Escrowed(bank))
    /\ NativeBacked <=> Backed(bank)
  BY DEF NativeBacked, Backed, NativeSupply, Locked, Minted, Escrowed

LEMMA PegTypes ==
    ASSUME NEW b \in NatBank
    PROVE  /\ Minted(b) \in [Native -> Nat] /\ Escrowed(b) \in [IbcDenom -> Nat]
           /\ Total(Minted(b)) \in Nat /\ Total(Escrowed(b)) \in Nat
  <1>1. Minted(b) \in [Native -> Nat] /\ Escrowed(b) \in [IbcDenom -> Nat]
    BY NatBankFacts, Disjoint DEF Minted, Escrowed
  <1>2. Total(Minted(b)) \in Nat
    BY <1>1, FiniteAssumption, TotalType
  <1>3. Total(Escrowed(b)) \in Nat
    BY <1>1, IbcDenomsFinite, TotalType
  <1>4. QED
    BY <1>1, <1>2, <1>3

LEMMA NativeAtGenesisType == NativeAtGenesis \in Nat
  <1> DEFINE f == [n \in Native |-> AtGenesis(n)]
  <1>1. f \in [Native -> Nat]
    BY AtGenesisType
  <1>2. NativeAtGenesis = Total(f)
    BY DEF NativeAtGenesis
  <1> HIDE DEF f
  <1>3. QED
    BY <1>1, <1>2, FiniteAssumption, TotalType

(* One native denom and one IBC denom change by the same amount. *)
LEMMA MoveKeepsBacking ==
    ASSUME NEW b \in NatBank, NEW c \in NatBank, Backed(b),
           NEW n \in Native, NEW d \in IbcDenom, NEW k \in Int,
           \A x \in Native :
              Minted(c)[x] = IF x = n THEN Minted(b)[x] + k ELSE Minted(b)[x],
           \A x \in IbcDenom :
              Escrowed(c)[x] = IF x = d THEN Escrowed(b)[x] + k ELSE Escrowed(b)[x]
    PROVE  Backed(c)
  <1>1. /\ Minted(b) \in [Native -> Nat] /\ Escrowed(b) \in [IbcDenom -> Nat]
        /\ Total(Minted(b)) \in Nat /\ Total(Escrowed(b)) \in Nat
    BY PegTypes
  <1>2. /\ Minted(c) \in [Native -> Nat] /\ Escrowed(c) \in [IbcDenom -> Nat]
        /\ Total(Minted(c)) \in Nat /\ Total(Escrowed(c)) \in Nat
    BY PegTypes
  <1>3. Total(Minted(c)) - Minted(c)[n] = Total(Minted(b)) - Minted(b)[n]
    <2>1. \A x \in Native : x # n => Minted(c)[x] = Minted(b)[x]
      BY <1>1
    <2>2. QED
      BY <1>1, <1>2, <2>1, FiniteAssumption, TotalChange
  <1>4. Total(Escrowed(c)) - Escrowed(c)[d] = Total(Escrowed(b)) - Escrowed(b)[d]
    <2>1. \A x \in IbcDenom : x # d => Escrowed(c)[x] = Escrowed(b)[x]
      BY <1>1
    <2>2. QED
      BY <1>1, <1>2, <2>1, IbcDenomsFinite, TotalChange
  <1>5. /\ Minted(c)[n] = Minted(b)[n] + k /\ Escrowed(c)[d] = Escrowed(b)[d] + k
        /\ Minted(b)[n] \in Nat /\ Escrowed(b)[d] \in Nat
    BY <1>1
  <1>6. QED
    BY <1>1, <1>2, <1>3, <1>4, <1>5, NativeAtGenesisType DEF Backed

LEMMA PegStepKeepsBacking ==
    ASSUME BooksInv, BooksInv', NativeBacked, [P!Next]_(P!pegVars)
    PROVE  NativeBacked'
  <1>1. bank \in NatBank /\ bank' \in NatBank
    BY DEF BooksInv, Ledger
  <1>2. Backed(bank)
    BY NativeBackedIsBacked
  <1>3. Backed(bank') => NativeBacked'
    BY DEF NativeBacked, Backed, NativeSupply, Locked, Minted, Escrowed
  <1>4. CASE Minted(bank') = Minted(bank) /\ Escrowed(bank') = Escrowed(bank)
    BY <1>2, <1>3, <1>4 DEF Backed
  <1>5. ASSUME NEW n \in Native, NEW d \in IbcDenom, NEW k \in Amount,
               P!Lock(n, d, k) \/ P!Release(n, d, k)
        PROVE  NativeBacked'
    <2>1. k \in Int /\ -k \in Int
      BY AmountAssumption
    <2>2. CASE P!Lock(n, d, k)
      <3>1. /\ Minted(bank') = [Minted(bank) EXCEPT ![n] = @ + k]
            /\ Escrowed(bank') = [Escrowed(bank) EXCEPT ![d] = @ + k]
        BY <2>2 DEF P!Lock, Minted, Escrowed
      <3>2. /\ \A x \in Native : Minted(bank')[x] =
                  IF x = n THEN Minted(bank)[x] + k ELSE Minted(bank)[x]
            /\ \A x \in IbcDenom : Escrowed(bank')[x] =
                  IF x = d THEN Escrowed(bank)[x] + k ELSE Escrowed(bank)[x]
        BY <1>1, <3>1, PegTypes
      <3>3. QED
        BY <1>1, <1>2, <1>3, <2>1, <3>2, MoveKeepsBacking
    <2>3. CASE P!Release(n, d, k)
      <3>1. /\ Minted(bank') = [Minted(bank) EXCEPT ![n] = @ - k]
            /\ Escrowed(bank') = [Escrowed(bank) EXCEPT ![d] = @ - k]
        BY <2>3 DEF P!Release, Minted, Escrowed
      <3>2. /\ \A x \in Native : Minted(bank')[x] =
                  IF x = n THEN Minted(bank)[x] + (-k) ELSE Minted(bank)[x]
            /\ \A x \in IbcDenom : Escrowed(bank')[x] =
                  IF x = d THEN Escrowed(bank)[x] + (-k) ELSE Escrowed(bank)[x]
        BY <1>1, <2>1, <3>1, PegTypes
      <3>3. QED
        BY <1>1, <1>2, <1>3, <2>1, <3>2, MoveKeepsBacking
    <2>4. QED
      BY <1>5, <2>2, <2>3
  <1>6. CASE UNCHANGED P!pegVars
    BY <1>4, <1>6 DEF P!pegVars, Minted, Escrowed
  <1>7. CASE P!Unregister \/ \E n \in Native, d \in IbcDenom : P!Register(n, d)
    BY <1>4, <1>7 DEF P!Unregister, P!Register, Minted, Escrowed
  <1>8. QED
    BY <1>5, <1>6, <1>7 DEF P!Next

LEMMA GenesisBacked ==
    ASSUME Init
    PROVE  NativeBacked
  <1>1. bank \in NatBank
    BY GenesisLedger DEF Ledger
  <1>2. \A d \in IbcDenom : bank.balance[d[1]][d] = 0
    BY Disjoint DEF Init
  <1>3. Total(Escrowed(bank)) = 0
    <2>1. \A d \in IbcDenom : Escrowed(bank)[d] = 0
      BY <1>2 DEF Escrowed
    <2>2. QED
      BY <1>1, <2>1, PegTypes, TotalOfZeros
  <1>4. \A n \in Native : bank.supply[n] = AtGenesis(n)
    BY Disjoint DEF Init
  <1>5. Total(Minted(bank)) = NativeAtGenesis
    <2>1. Minted(bank) = [n \in Native |-> AtGenesis(n)]
      BY <1>4 DEF Minted
    <2>2. QED
      BY <2>1 DEF NativeAtGenesis
  <1>6. Backed(bank)
    BY <1>3, <1>5, NativeAtGenesisType DEF Backed
  <1>7. QED
    BY <1>6, NativeBackedIsBacked

(* Native tokens beyond those of genesis and locked IBC tokens are equal   *)
(* in sum after any sequence of sends, receives, acks, timeouts,           *)
(* registrations and removals: a corollary of the peg, step by step, since *)
(* a lock or a release changes one term on each side by the same amount    *)
(* (handleOverrideSendPacketTransferLogic, OnRecvPacket, refundToken).     *)
THEOREM NativeStaysBacked == Spec => []NativeBacked
  <1>1. Init => BooksInv /\ NativeBacked
    BY BooksInit, GenesisBacked
  <1>2. (BooksInv /\ NativeBacked) /\ [Next]_vars => (BooksInv /\ NativeBacked)'
    <2>1. SUFFICES ASSUME BooksInv, NativeBacked, [Next]_vars
                   PROVE  BooksInv' /\ NativeBacked'
      OBVIOUS
    <2>2. BooksInv'
      BY <2>1, BooksNext
    <2>3. [P!Next]_(P!pegVars)
      BY <2>1, PegNext DEF BooksInv, PegStep
    <2>4. QED
      BY <2>1, <2>2, <2>3, PegStepKeepsBacking
  <1> QED  BY <1>1, <1>2, PTL DEF Spec

(* "After the bridge launch ... the total supply will remain the same":    *)
(* what circulates here, what is on its way and what the parachain holds   *)
(* is constant in sum.  Of every IBC denom what circulates, travels and is *)
(* held abroad is what the parachain had at first, and NativeBacked does   *)
(* the rest.                                                               *)
THEOREM SupplyIsShared == Spec => []SharedSupply
  <1>1. BooksInv /\ NativeBacked => SharedSupply
    <2>1. SUFFICES ASSUME BooksInv, NativeBacked
                   PROVE  SharedSupply
      OBVIOUS
    <2> DEFINE f == [d \in IbcDenom |-> bank.supply[d] + InTransit(d[1], d) + remote[d[1]][d]]
    <2>2. ASSUME NEW d \in IbcDenom
          PROVE  f[d] = RemoteSupply[d]
      <3>1. d \in Denom /\ d[1] \in Channel /\ IsVoucher(d, d[1])
        BY Disjoint DEF IsVoucher
      <3>2. RemoteSupply[d] - bank.supply[d] = Weight(packets, d[1], d) + remote[d[1]][d]
        BY <2>1, <3>1 DEF BooksInv, AbroadAccounted, Abroad
      <3>3. /\ RemoteSupply[d] \in Nat /\ bank.supply[d] \in Nat
            /\ Weight(packets, d[1], d) \in Nat /\ remote[d[1]][d] \in Nat
        BY <2>1, <3>1, BooksFacts, NatBankFacts, AmountAssumption
      <3>4. InTransit(d[1], d) = Weight(packets, d[1], d)
        BY <3>1, InTransitIsWeight
      <3>5. QED
        BY <3>2, <3>3, <3>4
    <2>3. f = RemoteSupply
      BY <2>2, AmountAssumption
    <2>4. SharedSupply <=> (NativeSupply - Locked) + Total(f)
                              = NativeAtGenesis + Total(RemoteSupply)
      BY DEF SharedSupply
    <2> HIDE DEF f
    <2>5. NativeSupply \in Nat /\ Locked \in Nat
      BY <2>1, BooksFacts, PegTypes, NativeBackedIsBacked
    <2>6. Total(RemoteSupply) \in Nat
      BY AmountAssumption, IbcDenomsFinite, TotalType
    <2>7. QED
      BY <2>1, <2>3, <2>4, <2>5, <2>6, NativeAtGenesisType DEF NativeBacked
  <1> QED  BY <1>1, BooksInvariance, NativeStaysBacked, PTL

-----------------------------------------------------------------------------
(* The query of custom/bank.                                               *)

(* Of a registered denom the query takes off exactly what the escrow       *)
(* account of its own channel holds: no other info names the denom.        *)
LEMMA EscrowedTokenIsBalance ==
    ASSUME BooksInv, NEW n \in DOMAIN infoByNative, NEW denom \in Denom,
           denom \in {infoByNative[n].ibcDenom, n}
    PROVE  GetTotalEscrowedToken(denom) = bank.balance[infoByNative[n].channel][denom]
  <1> DEFINE info == infoByNative[n]
             named == {i \in Exported : denom \in {i.ibcDenom, i.nativeDenom}}
             f == [i \in named |-> bank.balance[i.channel][denom]]
  <1>1. RegistryTypeOK /\ IndexesAgree /\ bank \in NatBank
    BY BooksFacts
  <1>2. info \in Infos /\ info.nativeDenom = n
    BY <1>1 DEF RegistryTypeOK, IndexesAgree
  <1>3. info \in Exported
    BY <1>1 DEF IndexesAgree, Exported
  <1>4. ASSUME NEW i \in Exported
        PROVE  /\ i \in Infos /\ i.nativeDenom \in DOMAIN infoByNative
               /\ infoByNative[i.nativeDenom] = i
    BY <1>1 DEF RegistryTypeOK, IndexesAgree, Exported, HasInfo
  <1>5. ASSUME NEW i \in named
        PROVE  i = info
    <2>1. /\ i \in Infos /\ i.nativeDenom \in DOMAIN infoByNative
          /\ infoByNative[i.nativeDenom] = i
      BY <1>4
    <2>2. /\ i.nativeDenom \in Native /\ i.ibcDenom \in IbcDenom
          /\ n \in Native /\ info.ibcDenom \in IbcDenom
      BY <1>2, <2>1, InfoFacts
    <2>3. i.ibcDenom = info.ibcDenom \/ i.nativeDenom = n
      BY <2>2, Disjoint
    <2>4. i.nativeDenom = n
      BY <1>1, <2>1, <2>3, KeysAreUnique
    <2>5. QED
      BY <2>1, <2>4
  <1>6. named = {info}
    BY <1>2, <1>3, <1>5
  <1>7. info.channel \in Account
    BY <1>2, InfoFacts DEF Account
  <1>8. f \in [{info} -> Nat] /\ f[info] = bank.balance[info.channel][denom]
    <2> HIDE DEF named, info
    <2>1. QED
      BY <1>1, <1>6, <1>7, NatBankFacts
  <1>9. GetTotalEscrowedToken(denom) = Total(f)
    BY DEF GetTotalEscrowedToken
  <1> HIDE DEF f
  <1>10. QED
    BY <1>8, <1>9, TotalOfOne

(* What is left of the supply is held outside the escrow account. *)
LEMMA ReportedOfDenom ==
    ASSUME BooksInv, NEW n \in DOMAIN infoByNative, NEW denom \in Denom,
           denom \in {infoByNative[n].ibcDenom, n}
    PROVE  TotalSupply(denom)
             = Total([acc \in Account \ {infoByNative[n].channel} |-> bank.balance[acc][denom]])
  <1> DEFINE channel == infoByNative[n].channel
             others == Account \ {channel}
             held == Held(bank, denom)
             rest == [acc \in others |-> bank.balance[acc][denom]]
  <1>1. bank \in NatBank /\ RegistryTypeOK /\ bank.supply[denom] = Total(held)
    BY BooksFacts DEF BooksInv, Ledger
  <1>2. channel \in Account
    BY <1>1, InfoFacts DEF RegistryTypeOK, Account
  <1>3. held \in [Account -> Nat]
    BY <1>1, NatBankFacts
  <1>4. rest = [acc \in others |-> held[acc]] /\ held[channel] = bank.balance[channel][denom]
    BY <1>2 DEF Held
  <1>5. GetTotalEscrowedToken(denom) = bank.balance[channel][denom]
    BY EscrowedTokenIsBalance
  <1> HIDE DEF channel, held
  <1>6. Total(held) = held[channel] + Total([acc \in others |-> held[acc]])
    BY <1>2, <1>3, AccountsFinite, TotalSplit
  <1>7. IsFiniteSet(others) /\ rest \in [others -> Nat]
    BY <1>1, <1>3, <1>4, AccountsFinite, FS_RemoveElement
  <1> HIDE DEF rest, others
  <1>8. Total(rest) \in Nat
    BY <1>7, TotalType
  <1>9. held[channel] \in Nat
    BY <1>2, <1>3
  <1>10. TotalSupply(denom) = Total(rest)
    BY <1>1, <1>4, <1>5, <1>6, <1>8, <1>9 DEF TotalSupply
  <1>11. QED
    BY <1>10 DEF rest, others, channel

(* The query of custom/bank reports exactly what is held outside the       *)
(* escrow account of the token's channel, of its native denom and of its   *)
(* voucher, however many tokens are registered; Coins.Sub never meets a    *)
(* negative difference, since what is reported is a sum of balances        *)
(* (TotalSupply, GetTotalEscrowedToken).                                   *)
THEOREM QueryReportsWhatIsHeld == Spec => []ReportedIsHeld
  <1>1. BooksInv => ReportedIsHeld
    <2>1. SUFFICES ASSUME BooksInv, NEW n \in DOMAIN infoByNative,
                          NEW denom \in {n, infoByNative[n].ibcDenom}
                   PROVE  TotalSupply(denom)
                            = Total([acc \in Account \ {infoByNative[n].channel} |->
                                       bank.balance[acc][denom]])
      BY DEF ReportedIsHeld
    <2>2. RegistryTypeOK
      BY <2>1, BooksFacts
    <2>3. denom \in Denom
      BY <2>1, <2>2, InfoFacts, Disjoint DEF RegistryTypeOK
    <2>4. QED
      BY <2>1, <2>3, ReportedOfDenom
  <1> QED  BY <1>1, BooksInvariance, PTL
=============================================================================
