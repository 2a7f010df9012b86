---------------------- MODULE TransferMiddlewareProofs ----------------------
(***************************************************************************)
(* TransferMiddleware implements Peg, for every set of users, denoms,      *)
(* channels, infos and amounts.  Balances are only known to be integers    *)
(* here; that they are never negative is proved in LedgerProofs.           *)
(***************************************************************************)
EXTENDS TransferMiddleware, TokenRegistryProofs, SumsProofs

Balances == [Account -> [Denom -> Int]]
Bank == [balance : Balances, supply : [Denom -> Int]]

(* What Peg sees of a bank is the same in both. *)
Same(b, c) ==
    /\ \A n \in Native : c.supply[n] = b.supply[n]
    /\ \A d \in IbcDenom : c.balance[d[1]][d] = b.balance[d[1]][d]

(* From bank b to c, k of the native denom are minted and k of the IBC     *)
(* denom are locked.                                                       *)
Moves(b, c, native, ibc, k) ==
    /\ \A n \in Native : c.supply[n] = IF n = native THEN b.supply[n] + k ELSE b.supply[n]
    /\ \A d \in IbcDenom :
          c.balance[d[1]][d] = IF d = ibc THEN b.balance[d[1]][d] + k
                                          ELSE b.balance[d[1]][d]

LEMMA Disjoint ==
    /\ \A u \in User, c \in Channel : u # c
    /\ \A n \in Native, d \in IbcDenom : n # d
    /\ \A d \in IbcDenom : d[1] \in Channel /\ d[1] \in Account /\ d \in Denom
    /\ \A n \in Native : n \in Denom
  BY AccountAssumption DEF IbcDenom, Denom, Account

(* What a step of the bank makes of bank b. *)
Sent(b, c, from, to, denom, k) ==
    /\ c \in Bank
    /\ c.supply = b.supply
    /\ \A acc \in Account, d \in Denom :
          c.balance[acc][d] = IF d = denom /\ acc = from THEN b.balance[acc][d] - k
                              ELSE IF d = denom /\ acc = to THEN b.balance[acc][d] + k
                              ELSE b.balance[acc][d]

Created(b, c, acc, denom, k) ==
    /\ c \in Bank
    /\ \A d \in Denom : c.supply[d] = IF d = denom THEN b.supply[d] + k ELSE b.supply[d]
    /\ \A a \in Account, d \in Denom :
          c.balance[a][d] = IF d = denom /\ a = acc THEN b.balance[a][d] + k
                            ELSE b.balance[a][d]

LEMMA AmountIsInt == \A k \in Amount : k \in Int
  BY AmountAssumption

LEMMA CreditFacts ==
    ASSUME NEW f \in Balances, NEW acc \in Account, NEW denom \in Denom, NEW k \in Int
    PROVE  /\ Credit(f, acc, denom, k) \in Balances
           /\ \A a \in Account, d \in Denom :
                 Credit(f, acc, denom, k)[a][d] =
                    IF a = acc /\ d = denom THEN f[a][d] + k ELSE f[a][d]
  BY DEF Balances, Credit

LEMMA SendFacts ==
    ASSUME NEW b \in Bank, NEW from \in Account, NEW to \in Account, from # to,
           NEW denom \in Denom, NEW k \in Int
    PROVE  Sent(b, SendCoins(b, from, to, denom, k), from, to, denom, k)
  <1> DEFINE f == Credit(b.balance, from, denom, -k)
             g == Credit(f, to, denom, k)
             c == SendCoins(b, from, to, denom, k)
  <1>1. c = [balance |-> g, supply |-> b.supply]
    BY DEF SendCoins
  <1>2. b.balance \in Balances /\ b.supply \in [Denom -> Int] /\ -k \in Int
    BY DEF Bank
  <1>3. f \in Balances /\ \A a \in Account, d \in Denom :
            f[a][d] = IF a = from /\ d = denom THEN b.balance[a][d] + (-k) ELSE b.balance[a][d]
    <2>1. f \in Balances
      BY <1>2, CreditFacts
    <2>2. ASSUME NEW a \in Account, NEW d \in Denom
          PROVE  f[a][d] = IF a = from /\ d = denom THEN b.balance[a][d] + (-k)
                                                     ELSE b.balance[a][d]
      BY <1>2 DEF Credit, Balances
    <2> QED  BY <2>1, <2>2
  <1> HIDE DEF f
  <1>4. g \in Balances /\ \A a \in Account, d \in Denom :
            g[a][d] = IF a = to /\ d = denom THEN f[a][d] + k ELSE f[a][d]
    BY <1>3, CreditFacts
  <1> HIDE DEF g, c
  <1>5. c \in Bank /\ c.supply = b.supply /\ c.balance = g
    BY <1>1, <1>2, <1>4 DEF Bank
  <1>6. \A a \in Account, d \in Denom : b.balance[a][d] \in Int
    BY <1>2 DEF Balances
  <1>7. \A a \in Account, d \in Denom :
            g[a][d] = IF d = denom /\ a = from THEN b.balance[a][d] - k
                      ELSE IF d = denom /\ a = to THEN b.balance[a][d] + k
                      ELSE b.balance[a][d]
    BY <1>3, <1>4, <1>6
  <1> QED  BY <1>5, <1>7 DEF c, Sent

LEMMA MintFacts ==
    ASSUME NEW b \in Bank, NEW to \in Account, NEW denom \in Denom, NEW k \in Int
    PROVE  Created(b, MintCoins(b, to, denom, k), to, denom, k)
  <1> DEFINE f == Credit(b.balance, to, denom, k)
             g == [b.supply EXCEPT ![denom] = @ + k]
             c == MintCoins(b, to, denom, k)
  <1>1. c = [balance |-> f, supply |-> g]
    BY DEF MintCoins
  <1>2. b.balance \in Balances /\ b.supply \in [Denom -> Int] /\ k \in Int
    BY DEF Bank
  <1>3. f \in Balances /\ \A a \in Account, d \in Denom :
            f[a][d] = IF a = to /\ d = denom THEN b.balance[a][d] + k ELSE b.balance[a][d]
    BY <1>2, CreditFacts
  <1>4. g \in [Denom -> Int] /\ \A d \in Denom :
            g[d] = IF d = denom THEN b.supply[d] + k ELSE b.supply[d]
    BY <1>2
  <1> HIDE DEF f, g, c
  <1>5. c \in Bank /\ c.supply = g /\ c.balance = f
    BY <1>1, <1>3, <1>4 DEF Bank
  <1>6. \A a \in Account, d \in Denom : b.balance[a][d] \in Int
    BY <1>2 DEF Balances
  <1> QED  BY <1>3, <1>4, <1>5, <1>6 DEF c, Created

LEMMA BurnFacts ==
    ASSUME NEW b \in Bank, NEW from \in Account, NEW denom \in Denom, NEW k \in Int
    PROVE  Created(b, BurnCoins(b, from, denom, k), from, denom, -k)
  <1> DEFINE f == Credit(b.balance, from, denom, -k)
             g == [b.supply EXCEPT ![denom] = @ - k]
             c == BurnCoins(b, from, denom, k)
  <1>1. c = [balance |-> f, supply |-> g]
    BY DEF BurnCoins
  <1>2. b.balance \in Balances /\ b.supply \in [Denom -> Int] /\ -k \in Int
    BY DEF Bank
  <1>3. f \in Balances /\ \A a \in Account, d \in Denom :
            f[a][d] = IF a = from /\ d = denom THEN b.balance[a][d] + (-k) ELSE b.balance[a][d]
    BY <1>2, CreditFacts
  <1>4. g \in [Denom -> Int] /\ \A d \in Denom :
            g[d] = IF d = denom THEN b.supply[d] + (-k) ELSE b.supply[d]
    BY <1>2
  <1> HIDE DEF f, g, c
  <1>5. c \in Bank /\ c.supply = g /\ c.balance = f
    BY <1>1, <1>3, <1>4 DEF Bank
  <1>6. \A a \in Account, d \in Denom : b.balance[a][d] \in Int
    BY <1>2 DEF Balances
  <1> QED  BY <1>3, <1>4, <1>5, <1>6 DEF c, Created

-----------------------------------------------------------------------------
(* The transfer application mints and burns no native token and leaves the *)
(* vouchers in the escrow account of their own channel alone.              *)
LEMMA TakeSame ==
    ASSUME NEW b \in Bank, NEW u \in User, NEW channel \in Channel,
           NEW denom \in Denom, NEW k \in Int
    PROVE  /\ Take(b, u, channel, denom, k) \in Bank
           /\ Same(b, Take(b, u, channel, denom, k))
  <1>1. u \in Account /\ channel \in Account /\ u # channel
    BY Disjoint DEF Account
  <1>2. CASE IsVoucher(denom, channel)
    <2> DEFINE c == BurnCoins(b, u, denom, k)
    <2>1. Take(b, u, channel, denom, k) = c
      BY <1>2 DEF Take
    <2>2. denom \in IbcDenom
      BY <1>2 DEF IsVoucher
    <2>3. Created(b, c, u, denom, -k)
      BY <1>1, BurnFacts
    <2> HIDE DEF c
    <2> QED  BY <1>1, <2>1, <2>2, <2>3, Disjoint DEF Same, Created
  <1>3. CASE ~ IsVoucher(denom, channel)
    <2> DEFINE c == SendCoins(b, u, channel, denom, k)
    <2>1. Take(b, u, channel, denom, k) = c
      BY <1>3 DEF Take
    <2>2. \A d \in IbcDenom : d = denom => d[1] # channel
      BY <1>3 DEF IsVoucher
    <2>3. Sent(b, c, u, channel, denom, k)
      BY <1>1, SendFacts
    <2> HIDE DEF c
    <2> QED  BY <1>1, <2>1, <2>2, <2>3, Disjoint DEF Same, Sent
  <1> QED  BY <1>2, <1>3

LEMMA GiveSame ==
    ASSUME NEW b \in Bank, NEW u \in User, NEW channel \in Channel,
           NEW denom \in Denom, NEW k \in Int
    PROVE  /\ Give(b, u, channel, denom, k) \in Bank
           /\ Same(b, Give(b, u, channel, denom, k))
  <1>1. u \in Account /\ channel \in Account /\ u # channel
    BY Disjoint DEF Account
  <1>2. CASE IsVoucher(denom, channel)
    <2> DEFINE c == MintCoins(b, u, denom, k)
    <2>1. Give(b, u, channel, denom, k) = c
      BY <1>2 DEF Give
    <2>2. denom \in IbcDenom
      BY <1>2 DEF IsVoucher
    <2>3. Created(b, c, u, denom, k)
      BY <1>1, MintFacts
    <2> HIDE DEF c
    <2> QED  BY <1>1, <2>1, <2>2, <2>3, Disjoint DEF Same, Created
  <1>3. CASE ~ IsVoucher(denom, channel)
    <2> DEFINE c == SendCoins(b, channel, u, denom, k)
    <2>1. Give(b, u, channel, denom, k) = c
      BY <1>3 DEF Give
    <2>2. \A d \in IbcDenom : d = denom => d[1] # channel
      BY <1>3 DEF IsVoucher
    <2>3. Sent(b, c, channel, u, denom, k)
      BY <1>1, SendFacts
    <2> HIDE DEF c
    <2> QED  BY <1>1, <2>1, <2>2, <2>3, Disjoint DEF Same, Sent
  <1> QED  BY <1>2, <1>3

(* A conversion locks what it mints. *)
LEMMA ConvertMoves ==
    ASSUME NEW b \in Bank, NEW u \in User, NEW info \in Infos, NEW k \in Int
    PROVE  /\ Convert(b, u, info, k) \in Bank
           /\ Moves(b, Convert(b, u, info, k), info.nativeDenom, info.ibcDenom, k)
  <1>1. /\ info.nativeDenom \in Native /\ info.ibcDenom \in IbcDenom
        /\ info.channel \in Channel
        /\ info.ibcDenom[1] = info.channel
    BY InfoFacts, PairingAssumption
  <1>2. /\ u \in Account /\ info.channel \in Account /\ u # info.channel
        /\ info.nativeDenom \in Denom /\ info.ibcDenom \in Denom
    BY <1>1, Disjoint DEF Account
  <1> DEFINE c == SendCoins(b, u, info.channel, info.ibcDenom, k)
             e == MintCoins(c, u, info.nativeDenom, k)
  <1>3. /\ c \in Bank
        /\ c.supply = b.supply
        /\ \A d \in IbcDenom : c.balance[d[1]][d] = IF d = info.ibcDenom
                                                    THEN b.balance[d[1]][d] + k
                                                    ELSE b.balance[d[1]][d]
    <2>1. Sent(b, c, u, info.channel, info.ibcDenom, k)
      BY <1>2, SendFacts
    <2> HIDE DEF c
    <2> QED  BY <2>1, <1>1, Disjoint DEF Sent
  <1> HIDE DEF c
  <1>4. /\ e \in Bank
        /\ \A n \in Native : e.supply[n] = IF n = info.nativeDenom THEN c.supply[n] + k
                                                                   ELSE c.supply[n]
        /\ \A d \in IbcDenom : e.balance[d[1]][d] = c.balance[d[1]][d]
    <2>1. Created(c, e, u, info.nativeDenom, k)
      BY <1>2, <1>3, MintFacts
    <2> HIDE DEF e
    <2> QED  BY <2>1, <1>1, Disjoint DEF Created
  <1>5. Convert(b, u, info, k) = e
    BY DEF Convert, c
  <1> QED  BY <1>3, <1>4, <1>5 DEF Moves

(* An overridden send releases what it burns. *)
LEMMA OverrideMoves ==
    ASSUME NEW b \in Bank, NEW u \in User, NEW native \in Native, NEW channel \in Channel,
           NEW k \in Int, RegistryTypeOK,
           native \in DOMAIN infoByNative, infoByNative[native].channel = channel
    PROVE  LET c == OverrideSend(b, u, channel, native, k)
           IN  c \in Bank /\ Moves(b, c, native, infoByNative[native].ibcDenom, -k)
  <1> DEFINE ibc == infoByNative[native].ibcDenom
             burned == BurnCoins(b, channel, native, k)
             released == SendCoins(burned, channel, u, ibc, k)
             sent == Take(released, u, channel, ibc, k)
  <1>1. infoByNative[native] \in Infos
    BY DEF RegistryTypeOK
  <1>2. ibc \in IbcDenom /\ ibc[1] = channel
    BY <1>1, InfoFacts, PairingAssumption
  <1>3. /\ u \in Account /\ channel \in Account /\ u # channel
        /\ native \in Denom /\ ibc \in Denom
    BY <1>2, Disjoint DEF Account
  <1>4. /\ burned \in Bank
        /\ \A n \in Native : burned.supply[n] = IF n = native THEN b.supply[n] + (-k)
                                                              ELSE b.supply[n]
        /\ \A d \in IbcDenom : burned.balance[d[1]][d] = b.balance[d[1]][d]
    <2>1. Created(b, burned, channel, native, -k)
      BY <1>3, BurnFacts
    <2> HIDE DEF burned
    <2> QED  BY <2>1, Disjoint DEF Created
  <1> HIDE DEF burned
  <1>5. /\ released \in Bank
        /\ released.supply = burned.supply
        /\ \A d \in IbcDenom : released.balance[d[1]][d] = IF d = ibc
                                                           THEN burned.balance[d[1]][d] - k
                                                           ELSE burned.balance[d[1]][d]
    <2>1. Sent(burned, released, channel, u, ibc, k)
      BY <1>3, <1>4, SendFacts
    <2> HIDE DEF released, ibc
    <2> QED  BY <2>1, <1>2, Disjoint DEF Sent
  <1> HIDE DEF released
  <1>6. sent \in Bank /\ Same(released, sent)
    BY <1>3, <1>5, TakeSame
  <1>7. OverrideSend(b, u, channel, native, k) = sent
    BY DEF OverrideSend, burned, released
  <1>8. /\ \A n \in Native : b.supply[n] \in Int
        /\ \A d \in IbcDenom : b.balance[d[1]][d] \in Int
    BY Disjoint DEF Bank, Balances
  <1> HIDE DEF sent, ibc
  <1>9. Moves(b, sent, native, ibc, -k)
    BY <1>4, <1>5, <1>6, <1>8 DEF Moves, Same
  <1> QED  BY <1>6, <1>7, <1>9 DEF ibc
-----------------------------------------------------------------------------
(* How the steps of the middleware look to Peg.                            *)

LEMMA SameStutters ==
    ASSUME Same(bank, bank'), infoByNative' = infoByNative
    PROVE  UNCHANGED P!pegVars
  BY DEF Same, P!pegVars

LEMMA MovesLocks ==
    ASSUME RegistryTypeOK, bank \in Bank, infoByNative' = infoByNative,
           NEW n \in DOMAIN infoByNative, NEW k \in Amount,
           Moves(bank, bank', n, infoByNative[n].ibcDenom, k)
    PROVE  P!Next
  <1>1. n \in Native /\ infoByNative[n].ibcDenom \in IbcDenom
    BY InfoFacts DEF RegistryTypeOK
  <1> DEFINE d == infoByNative[n].ibcDenom
  <1>2. P!Lock(n, d, k)
    BY <1>1, Zenon DEF P!Lock, Moves
  <1> QED  BY <1>1, <1>2 DEF P!Next

LEMMA MovesReleases ==
    ASSUME RegistryTypeOK, bank \in Bank, infoByNative' = infoByNative,
           NEW n \in DOMAIN infoByNative, NEW k \in Amount,
           bank.balance[infoByNative[n].ibcDenom[1]][infoByNative[n].ibcDenom] >= k,
           Moves(bank, bank', n, infoByNative[n].ibcDenom, -k)
    PROVE  P!Next
  <1>1. n \in Native /\ infoByNative[n].ibcDenom \in IbcDenom
    BY InfoFacts DEF RegistryTypeOK
  <1>2. /\ \A m \in Native : bank.supply[m] + (-k) = bank.supply[m] - k
        /\ \A e \in IbcDenom : bank.balance[e[1]][e] + (-k) = bank.balance[e[1]][e] - k
    <2>1. /\ \A m \in Native : bank.supply[m] \in Int
          /\ \A e \in IbcDenom : bank.balance[e[1]][e] \in Int
      BY Disjoint DEF Bank, Balances
    <2>2. k \in Int
      BY AmountAssumption
    <2> QED  BY <2>1, <2>2
  <1> DEFINE d == infoByNative[n].ibcDenom
  <1>3. P!Release(n, d, k)
    <2>1. /\ [m \in Native |-> bank.supply[m]]'
               = [[m \in Native |-> bank.supply[m]] EXCEPT ![n] = @ - k]
          /\ [e \in IbcDenom |-> bank.balance[e[1]][e]]'
               = [[e \in IbcDenom |-> bank.balance[e[1]][e]] EXCEPT ![d] = @ - k]
      BY <1>1, <1>2, Zenon DEF Moves
    <2>2. [e \in IbcDenom |-> bank.balance[e[1]][e]][d] >= k
      BY <1>1
    <2>3. <<n, d>> \in {<<m, infoByNative[m].ibcDenom>> : m \in DOMAIN infoByNative}
      OBVIOUS
    <2>4. {<<m, infoByNative[m].ibcDenom>> : m \in DOMAIN infoByNative}'
            = {<<m, infoByNative[m].ibcDenom>> : m \in DOMAIN infoByNative}
      OBVIOUS
    <2> QED  BY <2>1, <2>2, <2>3, <2>4, Zenon DEF P!Release
  <1> QED  BY <1>1, <1>3 DEF P!Next

LEMMA SameThenMoves ==
    ASSUME NEW b, NEW c, NEW e, NEW n, NEW d, NEW k, Same(b, c), Moves(c, e, n, d, k)
    PROVE  Moves(b, e, n, d, k)
  BY DEF Same, Moves

(* A conversion of a registered token, after the transfer application. *)
LEMMA ConversionLocks ==
    ASSUME RegistryInv, bank \in Bank, infoByNative' = infoByNative,
           NEW b \in Bank, Same(bank, b), NEW u \in User, NEW k \in Amount,
           NEW n \in DOMAIN infoByNative, bank' = Convert(b, u, infoByNative[n], k)
    PROVE  bank' \in Bank /\ P!Next
  <1>1. /\ RegistryTypeOK
        /\ infoByNative[n] \in Infos
        /\ infoByNative[n].nativeDenom = n
        /\ k \in Int
    BY AmountAssumption DEF RegistryInv, RegistryTypeOK, IndexesAgree
  <1>2. bank' \in Bank /\ Moves(b, bank', n, infoByNative[n].ibcDenom, k)
    BY <1>1, ConvertMoves
  <1>3. Moves(bank, bank', n, infoByNative[n].ibcDenom, k)
    BY <1>2, SameThenMoves
  <1> QED  BY <1>1, <1>2, <1>3, MovesLocks

PegInv == RegistryInv /\ bank \in Bank /\ packets \subseteq Packet /\ sequence \in Nat

(* A step of Peg, or none, to a state that satisfies the invariant. *)
PegStep == PegInv' /\ [P!Next]_(P!pegVars)

LEMMA SendIsPegStep ==
    ASSUME PegInv, NEW u \in User, NEW channel \in Channel, NEW denom \in Denom,
           NEW k \in Amount, SendPacket(u, channel, denom, k)
    PROVE  PegStep
  <1> DEFINE taken == Take(bank, u, channel, denom, k)
             ibc == infoByNative[denom].ibcDenom
             override == Overrides(denom, channel)
             sent == IF override THEN ibc ELSE denom
  <1>1. /\ RegistryInv' /\ infoByNative' = infoByNative
        /\ RegistryTypeOK
    BY DEF SendPacket, registryVars, PegInv, RegistryInv, RegistryTypeOK, IndexesAgree, HasInfo
  <1>2. bank \in Bank /\ k \in Int /\ k \in Nat
    BY AmountAssumption DEF PegInv
  <1>3. taken \in Bank /\ Same(bank, taken)
    BY <1>2, TakeSame
  <1>4. override => /\ denom \in Native /\ denom \in DOMAIN infoByNative
                    /\ infoByNative[denom].channel = channel
                    /\ infoByNative[denom] \in Infos
    BY <1>1 DEF Overrides, HasInfo, RegistryTypeOK
  <1>5. sent \in Denom
    BY <1>4, InfoFacts, Disjoint
  <1>6. packets' \subseteq Packet /\ sequence' \in Nat
    BY <1>5 DEF SendPacket, PegInv, Packet
  <1>7. CASE ~ override
    <2>1. bank' = taken
      BY <1>7 DEF SendPacket
    <2> HIDE DEF taken
    <2> QED  BY <2>1, <1>1, <1>3, <1>6, SameStutters DEF PegStep, PegInv
  <1>8. CASE override
    <2>1. bank' = OverrideSend(taken, u, channel, denom, k)
      BY <1>8 DEF SendPacket
    <2>2. taken.balance[channel][ibc] >= k
      BY <1>8 DEF SendPacket, CanPay
    <2>3. ibc \in IbcDenom /\ ibc[1] = channel
      BY <1>8, <1>4, InfoFacts, PairingAssumption
    <2> HIDE DEF taken
    <2>4. bank' \in Bank /\ Moves(taken, bank', denom, ibc, -k)
      BY <2>1, <1>1, <1>2, <1>3, <1>4, <1>8, OverrideMoves
    <2>5. Moves(bank, bank', denom, ibc, -k)
      BY <2>4, <1>3, SameThenMoves
    <2>6. bank.balance[ibc[1]][ibc] >= k
      BY <2>2, <2>3, <1>3 DEF Same
    <2>7. P!Next
      BY <2>5, <2>6, <1>1, <1>2, <1>4, <1>8, MovesReleases
    <2> QED  BY <2>4, <2>7, <1>1, <1>6 DEF PegStep, PegInv
  <1> QED  BY <1>7, <1>8

LEMMA RecvIsPegStep ==
    ASSUME PegInv, NEW u \in User, NEW channel \in Channel, NEW denom \in Denom,
           NEW k \in Amount, RecvPacket(u, channel, denom, k)
    PROVE  PegStep
  <1> DEFINE given == Give(bank, u, channel, denom, k)
  <1>1. /\ RegistryInv /\ RegistryInv' /\ infoByNative' = infoByNative
        /\ packets' \subseteq Packet /\ sequence' \in Nat
    BY DEF RecvPacket, registryVars, PegInv, RegistryInv, RegistryTypeOK, IndexesAgree, HasInfo
  <1>2. bank \in Bank /\ k \in Int
    BY AmountAssumption DEF PegInv
  <1>3. given \in Bank /\ Same(bank, given)
    BY <1>2, GiveSame
  <1>4. CASE ~ ConvertsOnRecv(denom, channel)
    <2>1. bank' = given
      BY <1>4 DEF RecvPacket, OnRecv
    <2> HIDE DEF given
    <2> QED  BY <2>1, <1>1, <1>3, SameStutters DEF PegStep, PegInv
  <1>5. CASE ConvertsOnRecv(denom, channel)
    <2> DEFINE n == infoByAsset[denom[2]].nativeDenom
    <2>1. bank' = Convert(given, u, infoByAsset[denom[2]], k)
      BY <1>5 DEF RecvPacket, OnRecv
    <2>2. n \in DOMAIN infoByNative /\ infoByNative[n] = infoByAsset[denom[2]]
      BY <1>1, <1>5 DEF ConvertsOnRecv, RegistryInv, IndexesAgree, HasInfo
    <2> HIDE DEF given, n
    <2>3. bank' \in Bank /\ P!Next
      BY <2>1, <2>2, <1>1, <1>2, <1>3, ConversionLocks
    <2> QED  BY <2>3, <1>1 DEF PegStep, PegInv
  <1> QED  BY <1>4, <1>5

(* OnAcknowledgementPacket with an error, and OnTimeoutPacket. *)
LEMMA RefundIsPegStep ==
    ASSUME PegInv, NEW packet \in packets, UNCHANGED registryVars,
           bank' = Refund(bank, packet.sender, packet.channel, packet.denom, packet.amount),
           packets' = packets \ {packet}, sequence' = sequence
    PROVE  PegStep
  <1> DEFINE u == packet.sender
             channel == packet.channel
             denom == packet.denom
             k == packet.amount
             given == Give(bank, u, channel, denom, k)
  <1>1. /\ RegistryInv /\ RegistryInv' /\ infoByNative' = infoByNative
        /\ packets' \subseteq Packet /\ sequence' \in Nat
    BY DEF registryVars, PegInv, RegistryInv, RegistryTypeOK, IndexesAgree, HasInfo
  <1>2. /\ bank \in Bank /\ k \in Amount /\ k \in Int
        /\ u \in User /\ channel \in Channel /\ denom \in Denom
    <2>1. packet \in Packet /\ bank \in Bank
      BY DEF PegInv
    <2>2. k \in Amount /\ u \in User /\ channel \in Channel /\ denom \in Denom
      BY <2>1 DEF Packet
    <2>3. k \in Int
      BY <2>2, AmountIsInt, Zenon
    <2> QED  BY <2>1, <2>2, <2>3
  <1>3. given \in Bank /\ Same(bank, given)
    BY <1>2, GiveSame
  <1>4. CASE ~ ConvertsOnRefund(denom, channel)
    <2>1. bank' = given
      BY <1>4 DEF Refund
    <2> HIDE DEF given
    <2> QED  BY <2>1, <1>1, <1>3, SameStutters DEF PegStep, PegInv
  <1>5. CASE ConvertsOnRefund(denom, channel)
    <2> DEFINE n == nativeByIbc[denom]
    <2>1. bank' = Convert(given, u, infoByNative[n], k)
      BY <1>5 DEF Refund
    <2>2. n \in DOMAIN infoByNative
      BY <1>5 DEF ConvertsOnRefund, HasInfo
    <2> HIDE DEF given, n, u, k
    <2>3. bank' \in Bank /\ P!Next
      BY <2>1, <2>2, <1>1, <1>2, <1>3, ConversionLocks
    <2> QED  BY <2>3, <1>1 DEF PegStep, PegInv
  <1> QED  BY <1>4, <1>5

LEMMA SettleIsPegStep ==
    ASSUME PegInv, SettleStep
    PROVE  PegStep
  <1> PICK packet \in packets : \/ RemoteRecv(packet) \/ RemoteRefuse(packet)
                                \/ AckSuccess(packet) \/ AckError(packet)
                                \/ TimeoutPacket(packet)
    BY DEF SettleStep
  <1>1. packet \in Packet
    BY DEF PegInv
  <1>2. CASE RemoteRecv(packet) \/ RemoteRefuse(packet) \/ AckSuccess(packet)
    <2>1. [packet EXCEPT !.status = "received"] \in Packet
          /\ [packet EXCEPT !.status = "refused"] \in Packet
      BY <1>1 DEF Packet
    <2>2. /\ packets' \subseteq Packet /\ sequence' \in Nat
          /\ bank' = bank /\ registryVars' = registryVars
      BY <1>2, <2>1 DEF RemoteRecv, RemoteRefuse, AckSuccess, PegInv
    <2>3. RegistryInv' /\ infoByNative' = infoByNative
      BY <2>2 DEF registryVars, PegInv, RegistryInv, RegistryTypeOK, IndexesAgree, HasInfo
    <2>4. Same(bank, bank')
      BY <2>2 DEF Same
    <2> QED  BY <2>2, <2>3, <2>4, SameStutters DEF PegStep, PegInv
  <1>3. CASE AckError(packet) \/ TimeoutPacket(packet)
    <2>1. /\ UNCHANGED registryVars
          /\ bank' = Refund(bank, packet.sender, packet.channel, packet.denom, packet.amount)
          /\ packets' = packets \ {packet} /\ sequence' = sequence
      BY <1>3 DEF AckError, TimeoutPacket
    <2> QED  BY <2>1, RefundIsPegStep
  <1> QED  BY <1>2, <1>3

(* The registry only ever pegs free denoms. *)
LEMMA RegistryIsPegStep ==
    ASSUME PegInv, RegistryStep
    PROVE  PegStep
  <1>1. RegistryTypeOK /\ IndexesAgree
    BY DEF PegInv, RegistryInv
  <1>2. bank' = bank /\ packets' = packets /\ sequence' = sequence /\ RegistryNext
    BY DEF RegistryStep, transferVars
  <1>3. PegInv'
    BY <1>1, <1>2, RegistryTypeStep, IndexesAgreeStep DEF PegInv, RegistryInv
  <1>4. /\ [n \in Native |-> bank.supply[n]]' = [n \in Native |-> bank.supply[n]]
        /\ [d \in IbcDenom |-> bank.balance[d[1]][d]]' = [d \in IbcDenom |-> bank.balance[d[1]][d]]
    BY <1>2
  <1>5. ASSUME NEW info \in Infos, AddParachainIBCInfo(info)
        PROVE  P!Next
    <2> DEFINE n == info.nativeDenom
               d == info.ibcDenom
    <2>1. n \in Native /\ d \in IbcDenom
      BY InfoFacts
    <2>2. /\ n \notin DOMAIN infoByNative
          /\ \A m \in DOMAIN infoByNative : infoByNative[m].ibcDenom # d
      BY <1>1, <1>5 DEF AddParachainIBCInfo, IsNew, HasInfo, IndexesAgree
    <2>3. /\ DOMAIN infoByNative' = DOMAIN infoByNative \cup {n}
          /\ infoByNative'[n] = info
          /\ \A m \in DOMAIN infoByNative : infoByNative'[m] = infoByNative[m]
      BY <1>5, <2>2 DEF AddParachainIBCInfo, Put
    <2>4. {<<m, infoByNative'[m].ibcDenom>> : m \in DOMAIN infoByNative'}
            = {<<m, infoByNative[m].ibcDenom>> : m \in DOMAIN infoByNative} \cup {<<n, d>>}
      BY <2>3
    <2>5. P!Register(n, d)
      BY <1>4, <2>2, <2>4 DEF P!Register
    <2> QED  BY <2>1, <2>5 DEF P!Next
  <1>6. ASSUME DOMAIN infoByNative' \subseteq DOMAIN infoByNative,
               \A m \in DOMAIN infoByNative' : infoByNative'[m] = infoByNative[m]
        PROVE  P!Next
    BY <1>4, <1>6 DEF P!Next, P!Unregister
  <1>7. ASSUME NEW native \in Native, AddParachainIBCInfoToRemoveList(native)
        PROVE  P!Next
    BY <1>7, <1>6 DEF AddParachainIBCInfoToRemoveList, indexes
  <1>8. ASSUME NEW gap \in BlockGaps, BeginBlocker(gap)
        PROVE  P!Next
    <2>1. PICK natives : infoByNative' = Drop(infoByNative, natives)
      BY <1>8 DEF BeginBlocker, RemoveParachainIBCInfos
    <2> QED  BY <2>1, <1>6 DEF Drop
  <1>9. ASSUME Restart
        PROVE  P!Next
    BY <1>1, <1>9, <1>6, RestartKeepsIndexes DEF indexes
  <1>10. P!Next
    BY <1>2, <1>5, <1>7, <1>8, <1>9 DEF RegistryNext, RegistryMsg, RegistryBlock
  <1> QED  BY <1>3, <1>10 DEF PegStep

-----------------------------------------------------------------------------
LEMMA AtGenesisType == \A n \in Native : AtGenesis(n) \in Nat
  <1>1. SUFFICES ASSUME NEW n \in Native
                 PROVE  AtGenesis(n) \in Nat
    OBVIOUS
  <1>2. [u \in User |-> GenesisSupply[u][n]] \in [User -> Nat]
    BY AmountAssumption
  <1>3. QED
    BY <1>2, FiniteAssumption, TotalType DEF AtGenesis

LEMMA PegInit ==
    ASSUME Init
    PROVE  PegInv /\ P!Init
  <1>1. RegistryInv
    BY RegistryTypeInit, IndexesAgreeInit DEF Init, RegistryInv
  <1>2. packets \subseteq Packet /\ sequence \in Nat
    BY DEF Init
  <1> DEFINE balance == [acc \in Account |-> [d \in Denom |->
                           IF acc \in User /\ d \in Native THEN GenesisSupply[acc][d] ELSE 0]]
             supply == [d \in Denom |-> IF d \in Native THEN AtGenesis(d) ELSE 0]
  <1>3. bank = [balance |-> balance, supply |-> supply]
    BY DEF Init
  <1>4. balance \in Balances /\ supply \in [Denom -> Int]
    BY AmountAssumption, AtGenesisType DEF Balances
  <1>5. /\ [n \in Native |-> bank.supply[n]] \in [Native -> Nat]
        /\ [d \in IbcDenom |-> bank.balance[d[1]][d]] = [d \in IbcDenom |-> 0]
    <2>1. bank.supply = supply /\ bank.balance = balance
      BY <1>3
    <2>2. \A n \in Native : supply[n] \in Nat
      BY AtGenesisType, Disjoint, Zenon
    <2>3. \A d \in IbcDenom : balance[d[1]][d] = 0
      BY Disjoint
    <2> HIDE DEF supply, balance
    <2> QED  BY <2>1, <2>2, <2>3
  <1>6. {<<n, infoByNative[n].ibcDenom>> : n \in DOMAIN infoByNative} = {}
    BY DEF Init, RegistryInit, Nothing
  <1>7. bank \in Bank
    BY <1>3, <1>4 DEF Bank
  <1> QED  BY <1>1, <1>2, <1>5, <1>6, <1>7 DEF PegInv, P!Init

LEMMA PegNext ==
    ASSUME PegInv, [Next]_vars
    PROVE  PegStep
  <1>1. CASE TransferStep
    BY <1>1, SendIsPegStep, RecvIsPegStep DEF TransferStep
  <1>2. CASE SettleStep
    BY <1>2, SettleIsPegStep
  <1>3. CASE RegistryStep
    BY <1>3, RegistryIsPegStep
  <1>4. CASE UNCHANGED vars
    <2>1. PegInv'
      BY <1>4 DEF vars, registryVars, transferVars, PegInv, RegistryInv, RegistryTypeOK,
                  IndexesAgree, HasInfo
    <2>2. infoByNative' = infoByNative /\ Same(bank, bank')
      BY <1>4 DEF vars, registryVars, transferVars, Same
    <2> QED  BY <2>1, <2>2, SameStutters DEF PegStep
  <1> QED  BY <1>1, <1>2, <1>3, <1>4 DEF Next

(* x/transfermiddleware implements the peg, whatever users, denoms,        *)
(* channels, infos and amounts there are: from registrations, removals,    *)
(* restarts, sends, receipts, acknowledgements and timeouts in any order,  *)
(* the supply of a native token changes only together with what is locked  *)
(* of the IBC token the registry pairs with it (SendPacket, OnRecvPacket,  *)
(* refundToken).                                                           *)
THEOREM MiddlewareImplementsPeg == Spec => ImplementsPeg
  <1>1. Init => PegInv /\ P!Init
    BY PegInit
  <1>2. PegInv /\ [Next]_vars => PegInv' /\ [P!Next]_(P!pegVars)
    BY PegNext DEF PegStep
  <1> QED  BY <1>1, <1>2, PTL DEF Spec, ImplementsPeg, P!Spec

-----------------------------------------------------------------------------
(* To the registry the packets do not exist. *)
LEMMA MiddlewareRunsRegistry == Spec => RegistrySpec
  <1>1. Init => RegistryInit
    BY DEF Init
  <1>2. [Next]_vars => [RegistryNext]_registryVars
    <2>1. TransferStep => UNCHANGED registryVars
      BY DEF TransferStep, SendPacket, RecvPacket
    <2>2. SettleStep => UNCHANGED registryVars
      BY DEF SettleStep, RemoteRecv, RemoteRefuse, AckSuccess, AckError, TimeoutPacket
    <2>3. UNCHANGED vars => UNCHANGED registryVars
      BY DEF vars
    <2>4. QED
      BY <2>1, <2>2, <2>3 DEF Next, RegistryStep
  <1> QED  BY <1>1, <1>2, PTL DEF Spec, RegistrySpec

(* Whatever packets are sent, received and settled between registrations   *)
(* and removals, the keys that OnRecvPacket, SendPacket and refundToken    *)
(* look by name the same infos, and a restart leaves them as they were.    *)
THEOREM MiddlewareKeepsIndexes == Spec => []IndexesAgree /\ RestartKeepsTokens
  BY MiddlewareRunsRegistry, IndexesStayInAgreement, RestartsKeepTokens, PTL
=============================================================================
