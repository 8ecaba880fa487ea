--------------------------- MODULE AccountProofs ----------------------------
(***************************************************************************)
(* What holds of a resident's login, push registrations, units, PIN and    *)
(* reset codes, for any number of users, devices, units, requests and codes.*)
(***************************************************************************)
EXTENDS Accounts, Membership, TransactionPin, ResetCodes, FiniteSetTheorems, TLAPS

-----------------------------------------------------------------------------
(* TransactionPin.                                                         *)

\* A PIN on its way is newer than the stored one was.
ChangesAreNew ==
    \A c \in Changes : change[c] # Settled =>
        change[c].seen < change[c].new /\ change[c].new <= pins

\* Unless requests have overlapped, one is under way at most, and the PIN it is
\* about to mail is stored.
OneChange ==
    ~mixed =>
        /\ \A c, d \in Changes : change[c] # Settled /\ change[d] # Settled => c = d
        /\ \A c \in Changes : change[c].op = "mail" => change[c].new = pin

\* The inductive invariant of the PIN.
PinInv == TransactionPinTypeOK /\ ChangesAreNew /\ OneChange /\ KnownPinWorks

\* It holds at the start.
LEMMA PinInvInit == TransactionPinInit => PinInv
<1> SUFFICES ASSUME TransactionPinInit PROVE PinInv
  OBVIOUS
<1> USE PinsAreBounded DEF TransactionPinInit
<1>1. TransactionPinTypeOK
  <2>1. change \in [Changes -> {Settled} \cup Change] /\ mixed \in BOOLEAN  OBVIOUS
  <2>2. pin \in 0..pins /\ known \in 0..pins /\ pins \in 0..MaxPins /\ lost \subseteq 1..pins
    OBVIOUS
  <2> QED  BY <2>1, <2>2 DEF TransactionPinTypeOK
<1>2. ChangesAreNew  BY DEF ChangesAreNew
<1>3. OneChange  BY DEF OneChange, Settled
<1>4. KnownPinWorks  BY DEF KnownPinWorks
<1> QED  BY <1>1, <1>2, <1>3, <1>4 DEF PinInv

\* Every step keeps it.
LEMMA PinInvNext == PinInv /\ [TransactionPinNext]_transactionPinVars => PinInv'
<1> SUFFICES ASSUME PinInv, [TransactionPinNext]_transactionPinVars
             PROVE  PinInv'
  OBVIOUS
<1> USE PinsAreBounded DEF PinInv
<1>0. /\ pins \in 0..MaxPins /\ pin \in 0..pins /\ known \in 0..pins
      /\ lost \subseteq 1..pins
      /\ \A c \in Changes : change[c] # Settled => change[c] \in Change
  BY DEF TransactionPinTypeOK
<1>1. ASSUME NEW c \in Changes, NEW op \in {"change", "forgot"}, PinLoad(c, op)
      PROVE  PinInv'
  <2>1. TransactionPinTypeOK'
    BY <1>0, <1>1 DEF PinLoad, TransactionPinTypeOK, ChangesAreNew, Change, Flushed
  <2>2. ChangesAreNew'
    BY <1>0, <1>1 DEF PinLoad, TransactionPinTypeOK, ChangesAreNew, Change, Settled
  <2>3. OneChange'
    BY <1>0, <1>1 DEF PinLoad, TransactionPinTypeOK, OneChange, ChangesAreNew, Change, Settled, Flushed
  <2>4. KnownPinWorks'
    BY <1>0, <1>1 DEF PinLoad, TransactionPinTypeOK, OneChange, KnownPinWorks, ChangesAreNew, Change, Settled, Flushed
  <2> QED  BY <2>1, <2>2, <2>3, <2>4
<1>2. ASSUME NEW c \in Changes, ChangePin(c)
      PROVE  PinInv'
  <2>1. TransactionPinTypeOK'
    <3>2. change' \in [Changes -> {Settled} \cup Change]
      BY <1>2 DEF ChangePin, TransactionPinTypeOK
    <3>3. change[c] \in Change  BY <1>0, <1>2 DEF ChangePin, Settled
    <3>4. mixed' \in BOOLEAN  BY <1>2 DEF ChangePin, TransactionPinTypeOK
    <3>5. /\ pin' \in 0..pins' /\ known' \in 0..pins' /\ pins' \in 0..MaxPins
          /\ lost' \subseteq 1..pins'
      BY <1>0, <1>2, <3>3 DEF ChangePin, ChangesAreNew, Change, Settled, Flushed
    <3> QED  BY <3>2, <3>4, <3>5 DEF TransactionPinTypeOK
  <2>2. ChangesAreNew'
    BY <1>0, <1>2 DEF ChangePin, TransactionPinTypeOK, ChangesAreNew, Change, Settled
  <2>3. OneChange'
    BY <1>0, <1>2 DEF ChangePin, TransactionPinTypeOK, OneChange, ChangesAreNew, Change, Settled, Flushed
  <2>4. KnownPinWorks'
    BY <1>0, <1>2 DEF ChangePin, TransactionPinTypeOK, OneChange, KnownPinWorks, ChangesAreNew, Change, Settled, Flushed
  <2> QED  BY <2>1, <2>2, <2>3, <2>4
<1>3. ASSUME NEW c \in Changes, ForgotPin(c)
      PROVE  PinInv'
  <2>1. TransactionPinTypeOK'
    <3>1. [change[c] EXCEPT !.op = "mail"] \in Change  BY <1>0, <1>3 DEF ForgotPin, Change, Settled
    <3>2. change' \in [Changes -> {Settled} \cup Change]
      BY <3>1, <1>3 DEF ForgotPin, TransactionPinTypeOK
    <3>3. change[c] \in Change  BY <1>0, <1>3 DEF ForgotPin, Settled
    <3>4. mixed' \in BOOLEAN  BY <1>3 DEF ForgotPin, TransactionPinTypeOK
    <3>5. /\ pin' \in 0..pins' /\ known' \in 0..pins' /\ pins' \in 0..MaxPins
          /\ lost' \subseteq 1..pins'
      BY <1>0, <1>3, <3>3 DEF ForgotPin, ChangesAreNew, Change, Settled, Flushed
    <3> QED  BY <3>2, <3>4, <3>5 DEF TransactionPinTypeOK
  <2>2. ChangesAreNew'
    BY <1>0, <1>3 DEF ForgotPin, TransactionPinTypeOK, ChangesAreNew, Change, Settled
  <2>3. OneChange'
    BY <1>0, <1>3 DEF ForgotPin, TransactionPinTypeOK, OneChange, ChangesAreNew, Change, Settled, Flushed
  <2>4. KnownPinWorks'
    BY <1>0, <1>3 DEF ForgotPin, TransactionPinTypeOK, OneChange, KnownPinWorks, ChangesAreNew, Change, Settled, Flushed
  <2> QED  BY <2>1, <2>2, <2>3, <2>4
<1>4. ASSUME NEW c \in Changes, MailPin(c)
      PROVE  PinInv'
  <2>1. TransactionPinTypeOK'
    <3>2. change' \in [Changes -> {Settled} \cup Change]
      BY <1>4 DEF MailPin, TransactionPinTypeOK
    <3>3. change[c] \in Change  BY <1>0, <1>4 DEF MailPin, Settled
    <3>4. mixed' \in BOOLEAN  BY <1>4 DEF MailPin, TransactionPinTypeOK
    <3>5. /\ pin' \in 0..pins' /\ known' \in 0..pins' /\ pins' \in 0..MaxPins
          /\ lost' \subseteq 1..pins'
      BY <1>0, <1>4, <3>3 DEF MailPin, ChangesAreNew, Change, Settled, Flushed
    <3> QED  BY <3>2, <3>4, <3>5 DEF TransactionPinTypeOK
  <2>2. ChangesAreNew'
    BY <1>0, <1>4 DEF MailPin, TransactionPinTypeOK, ChangesAreNew, Change, Settled
  <2>3. OneChange'
    BY <1>0, <1>4 DEF MailPin, TransactionPinTypeOK, OneChange, ChangesAreNew, Change, Settled, Flushed
  <2>4. KnownPinWorks'
    BY <1>0, <1>4 DEF MailPin, TransactionPinTypeOK, OneChange, KnownPinWorks, ChangesAreNew, Change, Settled, Flushed
  <2> QED  BY <2>1, <2>2, <2>3, <2>4
<1>5. ASSUME NEW c \in Changes, LosePin(c)
      PROVE  PinInv'
  <2>1. TransactionPinTypeOK'
    <3>2. change' \in [Changes -> {Settled} \cup Change]
      BY <1>5 DEF LosePin, TransactionPinTypeOK
    <3>3. change[c] \in Change  BY <1>0, <1>5 DEF LosePin, Settled
    <3>4. mixed' \in BOOLEAN  BY <1>5 DEF LosePin, TransactionPinTypeOK
    <3>1. change[c].new \in 1..pins  BY <1>0, <1>5, <3>3 DEF LosePin, ChangesAreNew, Change
    <3>5. /\ pin' \in 0..pins' /\ known' \in 0..pins' /\ pins' \in 0..MaxPins
          /\ lost' \subseteq 1..pins'
      BY <1>0, <1>5, <3>1 DEF LosePin
    <3> QED  BY <3>2, <3>4, <3>5 DEF TransactionPinTypeOK
  <2>2. ChangesAreNew'
    BY <1>0, <1>5 DEF LosePin, TransactionPinTypeOK, ChangesAreNew, Change, Settled
  <2>3. OneChange'
    BY <1>0, <1>5 DEF LosePin, TransactionPinTypeOK, OneChange, ChangesAreNew, Change, Settled, Flushed
  <2>4. KnownPinWorks'
    BY <1>0, <1>5 DEF LosePin, TransactionPinTypeOK, OneChange, KnownPinWorks, ChangesAreNew, Change, Settled, Flushed
  <2> QED  BY <2>1, <2>2, <2>3, <2>4
<1>6. CASE UNCHANGED transactionPinVars
  BY <1>6 DEF transactionPinVars, TransactionPinTypeOK, ChangesAreNew, OneChange, KnownPinWorks
<1> QED  BY <1>1, <1>2, <1>3, <1>4, <1>5, <1>6 DEF TransactionPinNext

\* The PIN a user knows is the one that authorises his payments, unless its
\* mail is still to come or was lost, or requests overlapped (user.py:302-366).
THEOREM PinsAreKnown == TransactionPinSpec => []KnownPinWorks
<1>1. PinInv => KnownPinWorks  BY DEF PinInv
<1> QED  BY <1>1, PinInvInit, PinInvNext, PTL DEF TransactionPinSpec

-----------------------------------------------------------------------------
(* ResetCodes.                                                             *)

\* A request knows a time that has come and a code that is there.
AsksAreReal ==
    /\ \A i \in DOMAIN codes : codes[i].at <= time
    /\ \A a \in Asks : ask[a].op = "issue" => ask[a].at <= time
    /\ \A a \in Asks : ask[a].op = "reset" => ask[a].code \in DOMAIN codes

\* What a request that issues by itself has counted is still so.
CountsAreCurrent ==
    \A a \in Asks : ask[a].op = "issue" /\ ~ask[a].together =>
        /\ Others(a, "issue") = {}
        /\ IssuedSince(ask[a].at - Cooldown) = {}
        /\ Cardinality(IssuedSince(ask[a].at - Hour)) < HourlyLimit

\* A code that requests have not met on is used when it has set the password,
\* and one request at most is about to use it.
UsesAreCounted ==
    \A i \in (1..MaxCodes) \ shared :
        /\ resets[i] = IF i \in DOMAIN codes /\ codes[i].used THEN 1 ELSE 0
        /\ \A a \in Asks : ask[a].op = "reset" /\ ask[a].code = i =>
               ~codes[i].used /\ \A o \in Others(a, "reset") : ask[o].code # i

\* Codes issued by requests that did not overlap, and those of them within
\* an hour of the i-th.
Calm == DOMAIN codes \ rushed
Window(i) == {j \in Calm : codes[j].at \in codes[i].at..(codes[i].at + Hour)}

\* Calm codes keep the pause and the hourly limit.
CodesAreSpaced ==
    /\ \A i, j \in Calm : i < j => codes[j].at > codes[i].at + Cooldown
    /\ \A i \in Calm : Cardinality(Window(i)) <= HourlyLimit

\* The inductive invariant of the codes.
ResetCodesInv ==
    ResetCodesTypeOK /\ AsksAreReal /\ CountsAreCurrent /\ UsesAreCounted /\ CodesAreSpaced

\* It holds at the start.
LEMMA ResetCodesInvInit == ResetCodesInit => ResetCodesInv
<1> SUFFICES ASSUME ResetCodesInit PROVE ResetCodesInv
  OBVIOUS
<1> USE ResetCodesAreBounded DEF ResetCodesInit
<1>1. codes = <<>> /\ DOMAIN codes = {} /\ \A a \in Asks : ask[a].op = "quiet"
  BY DEF Quiet
<1>2. ResetCodesTypeOK
  <2>1. codes \in Seq(Code) /\ Len(codes) = 0  BY <1>1
  <2>2. ask \in [Asks -> {Quiet} \cup Ask]  OBVIOUS
  <2> QED  BY <2>1, <2>2 DEF ResetCodesTypeOK
<1>3. AsksAreReal /\ CountsAreCurrent /\ CodesAreSpaced
  BY <1>1 DEF AsksAreReal, CountsAreCurrent, CodesAreSpaced, Calm
<1>4. UsesAreCounted  BY <1>1 DEF UsesAreCounted
<1> QED  BY <1>2, <1>3, <1>4 DEF ResetCodesInv

\* What the properties say of the codes stays when no code comes.
LEMMA SpacedStays ==
    ASSUME CodesAreSpaced, UNCHANGED rushed, DOMAIN codes' = DOMAIN codes,
           \A i \in DOMAIN codes : codes'[i].at = codes[i].at
    PROVE  CodesAreSpaced'
<1>1. Calm' = Calm  BY DEF Calm
<1>2. \A i \in Calm : Window(i)' = Window(i)  BY <1>1 DEF Window, Calm
<1> QED  BY <1>1, <1>2 DEF CodesAreSpaced, Calm

\* A code that is issued by a request alone has the pause behind it, and as
\* few codes in its hour as the request has counted.
LEMMA IssueKeeps ==
    ASSUME ResetCodesInv, NEW a \in Asks, IssueCode(a)
    PROVE  ResetCodesInv'
<1> USE DEF ResetCodesInv
<1>0. Cooldown \in Nat /\ Hour \in Nat /\ HourlyLimit \in Nat
      /\ MaxTime \in Nat /\ MaxCodes \in Nat
  BY ResetCodesAreBounded
<1> DEFINE n == Len(codes) + 1
           t == ask[a].at
           new == [at |-> t, used |-> FALSE]
<1>1. /\ ask[a].op = "issue" /\ n \in 1..MaxCodes /\ codes' = Append(codes, new)
      /\ ask' = [ask EXCEPT ![a] = Quiet]
      /\ rushed' = IF ask[a].together THEN rushed \cup {n} ELSE rushed
      /\ UNCHANGED <<time, password, resets, shared>>
  <2>1. Len(codes) \in Nat /\ Len(codes) < MaxCodes
    BY DEF IssueCode, ResetCodesTypeOK
  <2>2. n \in 1..MaxCodes  BY <1>0, <2>1
  <2> QED  BY <2>2 DEF IssueCode
<1>2. ask[a] \in Ask /\ t \in 0..MaxTime /\ ask[a].together \in BOOLEAN
  BY <1>0, <1>1 DEF ResetCodesTypeOK, Quiet, Ask
<1>3. /\ new \in Code /\ codes' \in Seq(Code) /\ Len(codes') = n
      /\ DOMAIN codes = 1..(n - 1) /\ DOMAIN codes' = 1..n
      /\ codes'[n] = new /\ \A i \in DOMAIN codes : codes'[i] = codes[i] /\ codes[i] \in Code
  <2>1. new \in Code  BY <1>2 DEF Code
  <2>2. codes \in Seq(Code) /\ Len(codes) \in Nat  BY DEF ResetCodesTypeOK
  <2> HIDE DEF new
  <2> QED  BY <1>1, <2>1, <2>2
<1>c. IsFiniteSet(DOMAIN codes)
  <2>1. n - 1 \in Int  BY <1>1
  <2>2. IsFiniteSet(1..(n - 1))  BY <2>1, FS_Interval
  <2> QED  BY <1>3, <2>2
<1>4. ask'[a] = Quiet /\ \A o \in Asks \ {a} : ask'[o] = ask[o]
  BY <1>1 DEF ResetCodesTypeOK
<1>5. ResetCodesTypeOK'
  <2>1. ask' \in [Asks -> {Quiet} \cup Ask]  BY <1>1 DEF ResetCodesTypeOK
  <2>2. rushed' \subseteq 1..MaxCodes  BY <1>1 DEF ResetCodesTypeOK
  <2>3. password' \in 0..Len(codes')  BY <1>1, <1>3 DEF ResetCodesTypeOK
  <2> QED  BY <1>1, <1>3, <2>1, <2>2, <2>3 DEF ResetCodesTypeOK
<1>6. AsksAreReal'
  <2>1. \A i \in DOMAIN codes' : codes'[i].at <= time
    BY <1>1, <1>3 DEF AsksAreReal
  <2> QED  BY <1>1, <1>3, <1>4, <2>1 DEF AsksAreReal, Quiet
<1>7. CountsAreCurrent'
  <2> SUFFICES ASSUME NEW o \in Asks, ask'[o].op = "issue", ~ask'[o].together PROVE FALSE
    BY DEF CountsAreCurrent
  <2>1. o # a /\ ask[o] = ask'[o]  BY <1>4 DEF Quiet
  <2>2. a \in Others(o, "issue")  BY <1>1, <2>1 DEF Others
  <2> QED  BY <2>1, <2>2 DEF CountsAreCurrent
<1>8. UsesAreCounted'
  <2> SUFFICES ASSUME NEW i \in (1..MaxCodes) \ shared
               PROVE  /\ resets[i] = IF i \in DOMAIN codes' /\ codes'[i].used THEN 1 ELSE 0
                      /\ \A o \in Asks : ask'[o].op = "reset" /\ ask'[o].code = i =>
                           ~codes'[i].used /\ \A q \in Others(o, "reset")' : ask'[q].code # i
    BY <1>1 DEF UsesAreCounted
  <2>1. resets[i] = IF i \in DOMAIN codes' /\ codes'[i].used THEN 1 ELSE 0
    BY <1>3 DEF UsesAreCounted
  <2>2. ASSUME NEW o \in Asks, ask'[o].op = "reset", ask'[o].code = i
        PROVE  ~codes'[i].used /\ \A q \in Others(o, "reset")' : ask'[q].code # i
    <3>1. ask'[o] = ask[o] /\ i \in DOMAIN codes  BY <1>4, <2>2 DEF Quiet, AsksAreReal
    <3>2. \A q \in Others(o, "reset")' : q \in Others(o, "reset") /\ ask'[q] = ask[q]
      BY <1>4 DEF Others, Quiet
    <3> QED  BY <1>3, <2>2, <3>1, <3>2 DEF UsesAreCounted
  <2> QED  BY <2>1, <2>2
<1>9. CodesAreSpaced'
  <2>1. CASE ask[a].together
    <3>1. Calm' = Calm /\ Calm \subseteq DOMAIN codes  BY <1>1, <1>3, <2>1 DEF Calm
    <3>2. \A i \in Calm : Window(i)' = Window(i)  BY <1>3, <3>1 DEF Window
    <3> QED  BY <1>3, <3>1, <3>2 DEF CodesAreSpaced
  <2>2. CASE ~ask[a].together
    <3>1. /\ IssuedSince(t - Cooldown) = {}
          /\ IsFiniteSet(IssuedSince(t - Hour))
          /\ Cardinality(IssuedSince(t - Hour)) < HourlyLimit
      <4>1. IsFiniteSet(DOMAIN codes)  BY <1>c
      <4>2. IssuedSince(t - Hour) \subseteq DOMAIN codes  BY DEF IssuedSince
      <4> QED  BY <1>1, <2>2, <4>1, <4>2, FS_Subset DEF CountsAreCurrent
    <3>2. Cardinality(IssuedSince(t - Hour)) \in Nat  BY <3>1, FS_CardinalityType
    <3>3. \A i \in DOMAIN codes : codes[i].at \in Nat /\ codes[i].at < t - Cooldown
      BY <1>0, <1>2, <1>3, <3>1 DEF IssuedSince, Code
    <3>4. /\ Calm' \subseteq Calm \cup {n} /\ Calm \subseteq DOMAIN codes
          /\ Calm' \cap DOMAIN codes = Calm
      BY <1>1, <1>3, <2>2 DEF Calm
    <3>5. \A i, j \in Calm' : i < j => codes'[j].at > codes'[i].at + Cooldown
      <4> SUFFICES ASSUME NEW i \in Calm', NEW j \in Calm', i < j
                   PROVE  codes'[j].at > codes'[i].at + Cooldown
        OBVIOUS
      <4>1. i \in Calm /\ codes'[i] = codes[i]  BY <1>3, <3>4
      <4>2. CASE j = n  BY <1>0, <1>2, <1>3, <3>3, <3>4, <4>1, <4>2
      <4>3. CASE j # n
        <5>1. j \in Calm /\ codes'[j] = codes[j]  BY <1>3, <3>4, <4>3
        <5> QED  BY <4>1, <5>1 DEF CodesAreSpaced
      <4> QED  BY <4>2, <4>3
    <3>6. ASSUME NEW i \in Calm' PROVE Cardinality(Window(i)') <= HourlyLimit
      <4>1. CASE i = n
        <5>1. Window(i)' = {n}
          BY <1>0, <1>2, <1>3, <3>3, <3>4, <3>6, <4>1 DEF Window
        <5>2. Cardinality({n}) = 1  BY FS_Singleton
        <5>3. Cardinality(Window(i)') = 1  BY <5>1, <5>2
        <5> QED  BY <1>0, <3>1, <3>2, <5>3
      <4>2. CASE i # n
        <5>1. i \in Calm /\ codes'[i] = codes[i] /\ IsFiniteSet(Window(i))
          <6>1. IsFiniteSet(DOMAIN codes)  BY <1>c
          <6>2. Window(i) \subseteq DOMAIN codes  BY DEF Window, Calm
          <6> QED  BY <1>3, <3>4, <4>2, <6>1, <6>2, FS_Subset
        <5>2. Window(i)' \cap DOMAIN codes = Window(i)
          BY <1>3, <3>4, <5>1 DEF Window
        <5>3. CASE n \notin Window(i)'
          <6>1. Window(i)' = Window(i)  BY <3>4, <5>2, <5>3 DEF Window
          <6> QED  BY <5>1, <6>1 DEF CodesAreSpaced
        <5>4. CASE n \in Window(i)'
          <6>1. t <= codes[i].at + Hour  BY <1>0, <1>3, <5>1, <5>4 DEF Window
          <6>2. Window(i) \subseteq IssuedSince(t - Hour)
            <7> SUFFICES ASSUME NEW j \in Window(i) PROVE j \in IssuedSince(t - Hour)
              OBVIOUS
            <7>1. /\ j \in DOMAIN codes /\ i \in DOMAIN codes
                  /\ codes[j].at \in codes[i].at..(codes[i].at + Hour)
              BY <5>1 DEF Window, Calm
            <7>2. codes[i].at \in Nat /\ codes[j].at \in Nat  BY <3>3, <7>1
            <7>3. t \in Nat  BY <1>0, <1>2
            <7>4. codes[j].at >= t - Hour  BY <1>0, <6>1, <7>1, <7>2, <7>3
            <7> QED  BY <7>1, <7>4 DEF IssuedSince
          <6>3. Cardinality(Window(i)) < HourlyLimit
            <7>1. Cardinality(Window(i)) <= Cardinality(IssuedSince(t - Hour))
              BY <3>1, <6>2, FS_Subset
            <7>2. Cardinality(Window(i)) \in Nat  BY <5>1, FS_CardinalityType
            <7> QED  BY <1>0, <3>1, <3>2, <7>1, <7>2
          <6>4. Window(i)' = Window(i) \cup {n}
            BY <3>4, <5>2, <5>4 DEF Window
          <6>5. n \notin Window(i)  BY <1>3, <5>2 DEF Window, Calm
          <6>6. Cardinality(Window(i) \cup {n}) = Cardinality(Window(i)) + 1
            BY <5>1, <6>5, FS_AddElement
          <6>7. Cardinality(Window(i)) \in Nat  BY <5>1, FS_CardinalityType
          <6>8. Cardinality(Window(i)') = Cardinality(Window(i)) + 1  BY <6>4, <6>6
          <6> QED  BY <1>0, <6>3, <6>7, <6>8
        <5> QED  BY <5>3, <5>4
      <4> QED  BY <4>1, <4>2
    <3> QED  BY <3>5, <3>6 DEF CodesAreSpaced
  <2> QED  BY <2>1, <2>2
<1> QED  BY <1>5, <1>6, <1>7, <1>8, <1>9

\* A request that counts notices the others that are about to issue.
LEMMA IssueLoadKeeps ==
    ASSUME ResetCodesInv, NEW a \in Asks, IssueLoad(a)
    PROVE  ResetCodesInv'
<1> USE DEF ResetCodesInv
<1>1. /\ ask[a] = Quiet /\ CanIssue
      /\ UNCHANGED <<time, codes, password, rushed, resets, shared>>
      /\ ask' = [o \in Asks |->
                   IF o = a THEN [op |-> "issue", at |-> time,
                                  together |-> Others(a, "issue") # {}]
                   ELSE IF ask[o].op = "issue" THEN [ask[o] EXCEPT !.together = TRUE]
                   ELSE ask[o]]
  BY DEF IssueLoad
<1>2. time \in 0..MaxTime  BY DEF ResetCodesTypeOK
<1>3. ask'[a] = [op |-> "issue", at |-> time, together |-> Others(a, "issue") # {}]
      /\ ask'[a] \in Ask
  BY <1>1, <1>2 DEF Ask
<1>4. ASSUME NEW o \in Asks \ {a}, ask[o].op = "issue"
      PROVE  ask'[o].op = "issue" /\ ask'[o].at = ask[o].at /\ ask'[o].together
             /\ ask'[o] \in Ask
  <2>1. ask[o] \in [op : {"issue"}, at : 0..MaxTime, together : BOOLEAN]
    BY <1>4 DEF ResetCodesTypeOK, Ask, Quiet
  <2>2. ask'[o] = [ask[o] EXCEPT !.together = TRUE]  BY <1>1, <1>4
  <2> QED  BY <2>1, <2>2 DEF Ask
<1>5. \A o \in Asks \ {a} : ask[o].op # "issue" => ask'[o] = ask[o]
  BY <1>1
<1>6. ResetCodesTypeOK'
  <2>1. \A o \in Asks : ask'[o] \in {Quiet} \cup Ask
    BY <1>3, <1>4, <1>5 DEF ResetCodesTypeOK
  <2>2. ask' \in [Asks -> {Quiet} \cup Ask]  BY <1>1, <2>1
  <2> QED  BY <1>1, <2>2 DEF ResetCodesTypeOK
<1>7. AsksAreReal'
  BY <1>1, <1>2, <1>3, <1>4, <1>5 DEF AsksAreReal
<1>8. CountsAreCurrent'
  <2> SUFFICES ASSUME NEW o \in Asks, ask'[o].op = "issue", ~ask'[o].together
               PROVE  /\ Others(o, "issue")' = {}
                      /\ IssuedSince(ask[o].at - Cooldown)' = {}
                      /\ Cardinality(IssuedSince(ask[o].at - Hour))' < HourlyLimit
    BY DEF CountsAreCurrent
  <2>0. ask'[o].op = "issue" /\ ~ask'[o].together  OBVIOUS
  <2>1. o = a
    <3>1. CASE ask[o].op = "issue"  BY <1>4, <2>0, <3>1
    <3>2. CASE ask[o].op # "issue"  BY <1>5, <2>0, <3>2
    <3> QED  BY <3>1, <3>2
  <2>2. Others(a, "issue") = {}
    <3>1. ask'[a].together = (Others(a, "issue") # {})  BY <1>3
    <3> QED  BY <2>0, <2>1, <3>1
  <2>3. Others(a, "issue")' = {}  BY <1>5, <2>2 DEF Others
  <2>4. ask'[a].at = time  BY <1>3
  <2>5. /\ {i \in DOMAIN codes' : codes'[i].at >= ask'[a].at - Cooldown}
             = IssuedSince(time - Cooldown)
        /\ {i \in DOMAIN codes' : codes'[i].at >= ask'[a].at - Hour}
             = IssuedSince(time - Hour)
    BY <1>1, <2>4 DEF IssuedSince
  <2> QED  BY <1>1, <2>1, <2>3, <2>5 DEF CanIssue, IssuedSince
<1>9. UsesAreCounted'
  <2>1. \A o \in Asks : ask'[o].op = "reset" => o # a /\ ask'[o] = ask[o]
    BY <1>3, <1>4, <1>5
  <2> QED  BY <1>1, <2>1 DEF UsesAreCounted, Others
<1>10. CodesAreSpaced'  BY <1>1, SpacedStays
<1> QED  BY <1>6, <1>7, <1>8, <1>9, <1>10

\* A request that finds a code good notices the others that have.
LEMMA ResetLoadKeeps ==
    ASSUME ResetCodesInv, NEW a \in Asks, NEW i \in DOMAIN codes, ResetLoad(a, i)
    PROVE  ResetCodesInv'
<1> USE DEF ResetCodesInv
<1>1. /\ ask[a] = Quiet /\ ~codes[i].used
      /\ ask' = [ask EXCEPT ![a] = [op |-> "reset", code |-> i]]
      /\ shared' = IF \E o \in Others(a, "reset") : ask[o].code = i
                   THEN shared \cup {i} ELSE shared
      /\ UNCHANGED <<time, codes, password, rushed, resets>>
  BY DEF ResetLoad, Good
<1>2. i \in 1..MaxCodes
  BY ResetCodesAreBounded DEF ResetCodesTypeOK
<1>3. ask'[a] = [op |-> "reset", code |-> i] /\ ask'[a] \in Ask
      /\ \A o \in Asks \ {a} : ask'[o] = ask[o]
  BY <1>1, <1>2 DEF ResetCodesTypeOK, Ask
<1>4. ResetCodesTypeOK'
  <2>1. ask' \in [Asks -> {Quiet} \cup Ask]  BY <1>1, <1>3 DEF ResetCodesTypeOK
  <2> QED  BY <1>1, <1>2, <2>1 DEF ResetCodesTypeOK
<1>5. AsksAreReal'  BY <1>1, <1>3 DEF AsksAreReal
<1>6. CountsAreCurrent'
  <2>1. \A o \in Asks : ask'[o].op = "issue" => o # a /\ ask'[o] = ask[o]  BY <1>3
  <2>2. \A o \in Asks : Others(o, "issue")' = Others(o, "issue")
    BY <1>1, <1>3 DEF Others, Quiet
  <2> QED  BY <1>1, <2>1, <2>2 DEF CountsAreCurrent, IssuedSince
<1>7. UsesAreCounted'
  <2> SUFFICES ASSUME NEW j \in (1..MaxCodes) \ shared', NEW o \in Asks,
                      ask'[o].op = "reset", ask'[o].code = j
               PROVE  ~codes[j].used /\ \A q \in Others(o, "reset")' : ask'[q].code # j
    BY <1>1 DEF UsesAreCounted
  <2>1. j \notin shared /\ (j = i => \A q \in Others(a, "reset") : ask[q].code # i)
    BY <1>1
  <2> QED  BY <1>1, <1>3, <2>1 DEF UsesAreCounted, Others
<1>8. CodesAreSpaced'  BY <1>1, SpacedStays
<1> QED  BY <1>4, <1>5, <1>6, <1>7, <1>8

\* A code that is used is used for good.
LEMMA ResetKeeps ==
    ASSUME ResetCodesInv, NEW a \in Asks, Reset(a)
    PROVE  ResetCodesInv'
<1> USE DEF ResetCodesInv
<1> DEFINE i == ask[a].code
<1>1. /\ ask[a].op = "reset" /\ password' = i
      /\ codes' = [codes EXCEPT ![i].used = Flushed(@, FALSE, TRUE)]
      /\ resets' = [resets EXCEPT ![i] = @ + 1]
      /\ ask' = [ask EXCEPT ![a] = Quiet]
      /\ UNCHANGED <<time, rushed, shared>>
  BY DEF Reset
<1>2. i \in DOMAIN codes /\ DOMAIN codes = 1..Len(codes) /\ i \in 1..MaxCodes
      /\ \A j \in DOMAIN codes : codes[j] \in Code
  BY <1>1, ResetCodesAreBounded DEF AsksAreReal, ResetCodesTypeOK
<1>3. /\ codes'[i] = [codes[i] EXCEPT !.used = TRUE]
      /\ codes'[i].at = codes[i].at /\ codes'[i].used /\ codes'[i] \in Code
      /\ \A j \in DOMAIN codes \ {i} : codes'[j] = codes[j]
      /\ DOMAIN codes' = DOMAIN codes
  BY <1>1, <1>2 DEF Flushed, Code
<1>4. codes' \in Seq(Code) /\ Len(codes') = Len(codes)
  <2>1. codes' = [j \in 1..Len(codes) |-> codes'[j]]  BY <1>1, <1>2
  <2>2. \A j \in 1..Len(codes) : codes'[j] \in Code  BY <1>2, <1>3
  <2>3. Len(codes) \in Nat  BY DEF ResetCodesTypeOK
  <2> QED  BY <2>1, <2>2, <2>3
<1>5. ask'[a] = Quiet /\ \A o \in Asks \ {a} : ask'[o] = ask[o]
  BY <1>1 DEF ResetCodesTypeOK
<1>6. ResetCodesTypeOK'
  <2>1. ask' \in [Asks -> {Quiet} \cup Ask]  BY <1>1 DEF ResetCodesTypeOK
  <2>2. resets' \in [1..MaxCodes -> Nat]  BY <1>1, <1>2 DEF ResetCodesTypeOK
  <2>3. password' \in 0..Len(codes')
    <3>1. i \in 1..Len(codes) /\ Len(codes) \in Nat  BY <1>2 DEF ResetCodesTypeOK
    <3>2. password' = i /\ Len(codes') = Len(codes)  BY <1>1, <1>4
    <3> HIDE DEF i
    <3> QED  BY <3>1, <3>2
  <2> QED  BY <1>1, <1>4, <2>1, <2>2, <2>3 DEF ResetCodesTypeOK
<1>7. AsksAreReal'  BY <1>1, <1>2, <1>3, <1>5 DEF AsksAreReal, Quiet
<1>8. CountsAreCurrent'
  <2>1. \A o \in Asks : ask'[o].op = "issue" => ask'[o] = ask[o]  BY <1>5 DEF Quiet
  <2>2. \A o \in Asks : Others(o, "issue")' \subseteq Others(o, "issue")
    BY <1>5 DEF Others, Quiet
  <2>3. \A d : IssuedSince(d)' = IssuedSince(d)
    <3>1. DOMAIN codes' = DOMAIN codes  BY <1>3
    <3>2. \A j \in DOMAIN codes : codes'[j].at = codes[j].at  BY <1>3
    <3> HIDE DEF i
    <3> QED  BY <3>1, <3>2 DEF IssuedSince
  <2> QED  BY <2>1, <2>2, <2>3 DEF CountsAreCurrent
<1>9. UsesAreCounted'
  <2> SUFFICES ASSUME NEW j \in (1..MaxCodes) \ shared
               PROVE  /\ resets'[j] = IF j \in DOMAIN codes' /\ codes'[j].used THEN 1 ELSE 0
                      /\ \A o \in Asks : ask'[o].op = "reset" /\ ask'[o].code = j =>
                           ~codes'[j].used /\ \A q \in Others(o, "reset")' : ask'[q].code # j
    BY <1>1 DEF UsesAreCounted
  <2>1. resets'[j] = IF j \in DOMAIN codes' /\ codes'[j].used THEN 1 ELSE 0
    <3>2. CASE j = i
      <4>1. resets[i] = 0
        BY <1>1, <1>2, <3>2 DEF UsesAreCounted
      <4>2. resets'[i] = 1  BY <1>1, <1>2, <4>1 DEF ResetCodesTypeOK
      <4> QED  BY <1>2, <1>3, <3>2, <4>2
    <3>3. CASE j # i
      <4>1. resets'[j] = resets[j]  BY <1>1, <3>3 DEF ResetCodesTypeOK
      <4> QED  BY <1>3, <3>3, <4>1 DEF UsesAreCounted
    <3> QED  BY <3>2, <3>3
  <2>2. ASSUME NEW o \in Asks, ask'[o].op = "reset", ask'[o].code = j
        PROVE  ~codes'[j].used /\ \A q \in Others(o, "reset")' : ask'[q].code # j
    <3>1. o # a /\ ask'[o] = ask[o]  BY <1>5, <2>2 DEF Quiet
    <3>2. j # i /\ j \in DOMAIN codes
      BY <1>1, <2>2, <3>1 DEF UsesAreCounted, Others, AsksAreReal
    <3>3. \A q \in Others(o, "reset")' : q \in Others(o, "reset") /\ ask'[q] = ask[q]
      BY <1>5 DEF Others, Quiet
    <3> QED  BY <1>3, <2>2, <3>1, <3>2, <3>3 DEF UsesAreCounted
  <2> QED  BY <2>1, <2>2
<1>10. CodesAreSpaced'
  <2>1. \A j \in DOMAIN codes : codes'[j].at = codes[j].at  BY <1>3
  <2> QED  BY <1>1, <1>3, <2>1, SpacedStays
<1> QED  BY <1>6, <1>7, <1>8, <1>9, <1>10

\* Every step keeps the invariant.
LEMMA ResetCodesInvNext == ResetCodesInv /\ [ResetCodesNext]_resetCodesVars => ResetCodesInv'
<1> SUFFICES ASSUME ResetCodesInv, [ResetCodesNext]_resetCodesVars PROVE ResetCodesInv'
  OBVIOUS
<1>1. CASE TimePasses
  <2>0. time \in 0..MaxTime /\ MaxTime \in Nat
    BY ResetCodesAreBounded DEF ResetCodesInv, ResetCodesTypeOK
  <2>1. time' \in 0..MaxTime /\ time <= time'  BY <1>1, <2>0 DEF TimePasses
  <2>2. UNCHANGED <<codes, password, ask, rushed, resets, shared>>
    BY <1>1 DEF TimePasses
  <2>3. ResetCodesTypeOK'  BY <2>1, <2>2 DEF ResetCodesInv, ResetCodesTypeOK
  <2>4. AsksAreReal'
    <3>1. ASSUME NEW i \in DOMAIN codes PROVE codes[i].at \in 0..MaxTime
      <4>1. codes[i] \in Code  BY DEF ResetCodesInv, ResetCodesTypeOK
      <4> QED  BY <4>1 DEF Code
    <3>2. \A a \in Asks : ask[a].op = "issue" => ask[a].at \in 0..MaxTime
      BY DEF ResetCodesInv, ResetCodesTypeOK, Ask, Quiet
    <3>3. time \in 0..MaxTime /\ MaxTime \in Nat
      BY ResetCodesAreBounded DEF ResetCodesInv, ResetCodesTypeOK
    <3>4. \A i \in DOMAIN codes : codes[i].at <= time'
      <4> SUFFICES ASSUME NEW i \in DOMAIN codes PROVE codes[i].at <= time'
        OBVIOUS
      <4>1. codes[i].at <= time  BY DEF ResetCodesInv, AsksAreReal
      <4> QED  BY <2>1, <3>1, <3>3, <4>1
    <3>5. \A a \in Asks : ask[a].op = "issue" => ask[a].at <= time'
      <4> SUFFICES ASSUME NEW a \in Asks, ask[a].op = "issue" PROVE ask[a].at <= time'
        OBVIOUS
      <4>1. ask[a].at <= time  BY DEF ResetCodesInv, AsksAreReal
      <4> QED  BY <2>1, <3>2, <3>3, <4>1
    <3> QED  BY <2>2, <3>4, <3>5 DEF ResetCodesInv, AsksAreReal
  <2>5. CountsAreCurrent' /\ UsesAreCounted'
    BY <2>2 DEF ResetCodesInv, CountsAreCurrent, UsesAreCounted, Others, IssuedSince
  <2> QED  BY <2>2, <2>3, <2>4, <2>5, SpacedStays DEF ResetCodesInv
<1>2. ASSUME NEW a \in Asks, Fail(a) PROVE ResetCodesInv'
  <2>1. /\ ask' = [ask EXCEPT ![a] = Quiet]
        /\ UNCHANGED <<time, codes, password, rushed, resets, shared>>
    BY <1>2 DEF Fail
  <2>2. ask'[a] = Quiet /\ \A o \in Asks \ {a} : ask'[o] = ask[o]
    BY <2>1 DEF ResetCodesInv, ResetCodesTypeOK
  <2>3. ResetCodesTypeOK'  BY <2>1 DEF ResetCodesInv, ResetCodesTypeOK
  <2>4. AsksAreReal'  BY <2>1, <2>2 DEF ResetCodesInv, AsksAreReal, Quiet
  <2>5. CountsAreCurrent'
    <3>1. \A o \in Asks : ask'[o].op = "issue" => ask'[o] = ask[o]  BY <2>2 DEF Quiet
    <3>2. \A o \in Asks : Others(o, "issue")' \subseteq Others(o, "issue")
      BY <2>2 DEF Others, Quiet
    <3>3. \A d : IssuedSince(d)' = IssuedSince(d)  BY <2>1 DEF IssuedSince
    <3> QED  BY <3>1, <3>2, <3>3 DEF ResetCodesInv, CountsAreCurrent
  <2>6. UsesAreCounted'
    BY <2>1, <2>2 DEF ResetCodesInv, UsesAreCounted, Others, Quiet
  <2> QED  BY <2>1, <2>3, <2>4, <2>5, <2>6, SpacedStays DEF ResetCodesInv
<1>3. CASE UNCHANGED resetCodesVars
  <2>1. UNCHANGED <<time, codes, password, ask, rushed, resets, shared>>
    BY <1>3 DEF resetCodesVars
  <2> QED  BY <2>1, SpacedStays DEF ResetCodesInv, ResetCodesTypeOK, AsksAreReal,
             CountsAreCurrent, UsesAreCounted, Others, IssuedSince
<1> QED  BY <1>1, <1>2, <1>3, IssueLoadKeeps, IssueKeeps, ResetLoadKeeps, ResetKeeps
         DEF ResetCodesNext

\* Codes issued by requests that did not overlap keep the pause and the hourly
\* limit, and a code no two requests found good at once sets the password once
\* at most (otp_hardening.py, auth.py reset_password).
THEOREM CodesStayLimited == ResetCodesSpec => []CodesAreLimited
<1>1. ResetCodesInv => CodesAreLimited
  <2> SUFFICES ASSUME ResetCodesInv PROVE CodesAreLimited
    OBVIOUS
  <2>1. \A i \in DOMAIN codes \ shared : resets[i] <= 1
    <3>1. DOMAIN codes \subseteq 1..MaxCodes
      BY ResetCodesAreBounded DEF ResetCodesInv, ResetCodesTypeOK
    <3> QED  BY <3>1 DEF ResetCodesInv, UsesAreCounted
  <2> QED  BY <2>1 DEF ResetCodesInv, CodesAreSpaced, Calm, Window, CodesAreLimited
<1> QED  BY ResetCodesInvNext, <1>1, ResetCodesInvInit, PTL DEF ResetCodesSpec

-----------------------------------------------------------------------------
(* Accounts.                                                               *)

\* Requests under way.
Busy == {r \in Requests : req[r].op # "idle"}

\* A login is one of a device and an account, and whoever holds its tokens, is
\* about to commit it or has registered for it, is that device and account.
LoginsAreKnown ==
    /\ \A d \in Devices : held[d] # 0 =>
          /\ held[d] \in DOMAIN born /\ born[held[d]].device = d
          /\ born[held[d]].user \in registered
    /\ \A r \in Busy :
          /\ req[r].login \in DOMAIN born
          /\ born[req[r].login] = [device |-> req[r].device, user |-> req[r].user]
          /\ req[r].op # "signup" => req[r].user \in registered
          /\ req[r].op \in {"register", "logout"} => req[r].active \in {0, req[r].login}
    /\ \A t \in tokens : t.login # 0 =>
          /\ t.login \in DOMAIN born
          /\ born[t.login] = [device |-> t.device, user |-> t.user]

\* Requests that share a device or an account have raced.
MeetingsAreRaces ==
    \A q, r \in Busy : q # r =>
        /\ req[q].device = req[r].device => req[r].device \in raced
        /\ req[q].user = req[r].user => req[r].user \in raced

\* What a request has cleared stays clear until it ends, unless it raced.
ClearedIsClear ==
    \A r \in Busy : req[r].cleared => \A t \in tokens :
        /\ t.device = req[r].device /\ t.device \notin raced => t \in req[r].doomed
        /\ t.user = req[r].user /\ t.user \notin raced => t \in req[r].doomed

\* A request knows the current login of its account, unless it raced.
ActiveIsFresh ==
    \A r \in Busy : req[r].user \notin raced => req[r].active = active[req[r].user]

\* The inductive invariant of the accounts.
AccountsInv ==
    /\ AccountsTypeOK /\ LoginsAreKnown /\ MeetingsAreRaces /\ ClearedIsClear
    /\ ActiveIsFresh /\ OneRegistration /\ LoginIsLatest

\* It holds at the start.
LEMMA AccountsInvInit == AccountsInit => AccountsInv
<1> SUFFICES ASSUME AccountsInit PROVE AccountsInv
  OBVIOUS
<1> USE AccountsAreBounded DEF AccountsInit, Idle
<1>1. AccountsTypeOK  BY DEF AccountsTypeOK
<1>2. Busy = {}  BY DEF Busy
<1>3. LoginsAreKnown  BY <1>2 DEF LoginsAreKnown
<1>4. MeetingsAreRaces /\ ClearedIsClear /\ ActiveIsFresh
  BY <1>2 DEF MeetingsAreRaces, ClearedIsClear, ActiveIsFresh
<1>5. OneRegistration /\ LoginIsLatest  BY DEF OneRegistration, LoginIsLatest
<1> QED  BY <1>1, <1>3, <1>4, <1>5 DEF AccountsInv

\* A request under way is a record of its kind.
LEMMA BusyRequests ==
    AccountsTypeOK => \A r \in Requests :
        (r \in Busy <=> req[r] # Idle) /\ (r \in Busy => req[r] \in Request)
  BY DEF AccountsTypeOK, Busy, Idle, Request

\* A request begins: it is about an account and a device that belong together,
\* and whoever is busy with either of them meets it.
LEMMA StartKeeps ==
    ASSUME AccountsInv,
           NEW r \in Requests, NEW op \in {"signup", "login", "register", "logout", "delete"},
           NEW d \in Devices, NEW u \in Users, NEW login \in Logins, NEW push \in BOOLEAN,
           Start(r, op, d, u, login, push),
           born' \in Seq([device : Devices, user : Users]), Len(born') <= MaxLogins,
           \A l \in DOMAIN born : l \in DOMAIN born' /\ born'[l] = born[l],
           login \in DOMAIN born', born'[login] = [device |-> d, user |-> u],
           op # "signup" => u \in registered,
           op \in {"register", "logout"} => active[u] \in {0, login}
    PROVE  AccountsInv'
<1> USE DEF AccountsInv
<1> DEFINE new == [op |-> op, device |-> d, user |-> u, login |-> login,
                   active |-> active[u], leaving |-> u \in leaving,
                   push |-> push, cleared |-> FALSE, doomed |-> {}]
<1>1. /\ req[r] = Idle /\ req' = [req EXCEPT ![r] = new]
      /\ raced' = raced \cup Overlap(r, d, u)
      /\ UNCHANGED <<registered, active, leaving, tokens, held, latest, signedOut>>
  BY BusyRequests DEF Start, account, Busy
<1>2. new \in Request
  <2>1. active[u] \in 0..MaxLogins /\ (u \in leaving) \in BOOLEAN  BY DEF AccountsTypeOK
  <2> QED  BY <2>1 DEF Request
<1>3. /\ Busy' = Busy \cup {r} /\ r \notin Busy
      /\ req'[r] = new /\ \A q \in Busy : req'[q] = req[q]
  BY <1>1 DEF Busy, AccountsTypeOK, Idle
<1>4. /\ raced \subseteq raced' /\ raced' \subseteq Users \cup Devices
      /\ \A q \in Busy : /\ req[q].device = d => d \in raced'
                         /\ req[q].user = u => u \in raced'
  <2>1. Overlap(r, d, u) \subseteq Users \cup Devices  BY DEF Overlap
  <2>2. ASSUME NEW q \in Busy
        PROVE  {d, u} \cap {req[q].device, req[q].user} \subseteq Overlap(r, d, u)
    <3>1. q \in {p \in Requests \ {r} : req[p].op # "idle"}  BY <1>3 DEF Busy
    <3> QED  BY <3>1 DEF Overlap
  <2> QED  BY <1>1, <2>1, <2>2 DEF AccountsTypeOK
<1>5. AccountsTypeOK'
  BY <1>1, <1>2, <1>4 DEF AccountsTypeOK
<1>6. LoginsAreKnown'
  BY <1>1, <1>3 DEF LoginsAreKnown
<1>7. MeetingsAreRaces'
  BY <1>3, <1>4 DEF MeetingsAreRaces
<1>8. ClearedIsClear'
  BY <1>1, <1>3, <1>4 DEF ClearedIsClear
<1>9. ActiveIsFresh'
  BY <1>1, <1>3, <1>4 DEF ActiveIsFresh
<1>10. OneRegistration' /\ LoginIsLatest'
  BY <1>1, <1>4 DEF OneRegistration, LoginIsLatest
<1> QED  BY <1>5, <1>6, <1>7, <1>8, <1>9, <1>10

\* A request ends: what is left is what the others know.
LEMMA FinishKeeps ==
    ASSUME AccountsInv, NEW r \in Busy, Finish(r), UNCHANGED <<born, raced>>,
           registered \subseteq registered'
    PROVE  /\ req' \in [Requests -> {Idle} \cup Request]
           /\ Busy' = Busy \ {r} /\ \A q \in Busy \ {r} : req'[q] = req[q]
           /\ MeetingsAreRaces'
           /\ \A q \in Busy' :
                 /\ req'[q].login \in DOMAIN born
                 /\ born[req'[q].login] = [device |-> req'[q].device, user |-> req'[q].user]
                 /\ req'[q].op # "signup" => req'[q].user \in registered'
                 /\ req'[q].op \in {"register", "logout"} => req'[q].active \in {0, req'[q].login}
<1> USE DEF AccountsInv
<1>1. req' = [req EXCEPT ![r] = Idle] /\ r \in Requests  BY DEF Finish, Busy
<1>2. req' \in [Requests -> {Idle} \cup Request]  BY <1>1 DEF AccountsTypeOK
<1>3. Busy' = Busy \ {r} /\ \A q \in Busy \ {r} : req'[q] = req[q]
  BY <1>1 DEF Busy, AccountsTypeOK, Idle
<1>4. MeetingsAreRaces'  BY <1>3 DEF MeetingsAreRaces
<1>5. \A q \in Busy' :
          /\ req'[q].login \in DOMAIN born
          /\ born[req'[q].login] = [device |-> req'[q].device, user |-> req'[q].user]
          /\ req'[q].op # "signup" => req'[q].user \in registered'
          /\ req'[q].op \in {"register", "logout"} => req'[q].active \in {0, req'[q].login}
  BY <1>3 DEF LoginsAreKnown
<1> QED  BY <1>2, <1>3, <1>4, <1>5

\* The tokens of a request that has its answer go to the device that sent it.
LEMMA EnterKeeps ==
    ASSUME AccountsInv, NEW r \in Busy, Enter(r), registered \subseteq registered',
           req[r].user \in registered'
    PROVE  /\ active' \in [Users -> 0..MaxLogins] /\ latest' \in [Users -> 0..MaxLogins]
           /\ held' \in [Devices -> 0..MaxLogins]
           /\ \A d \in Devices : held'[d] # 0 =>
                 /\ held'[d] \in DOMAIN born /\ born[held'[d]].device = d
                 /\ born[held'[d]].user \in registered'
           /\ ActiveIsFresh' /\ LoginIsLatest'
<1> USE DEF AccountsInv
<1>1. r \in Requests /\ req[r] \in Request  BY BusyRequests DEF Busy
<1>2. /\ req[r].user \in Users /\ req[r].device \in Devices /\ req[r].login \in 0..MaxLogins
  BY <1>1, AccountsAreBounded DEF Request, Logins
<1>3. /\ active' = [active EXCEPT ![req[r].user] = req[r].login]
      /\ latest' = [latest EXCEPT ![req[r].user] = req[r].login]
      /\ held' \in {held, [held EXCEPT ![req[r].device] = req[r].login]}
      /\ Finish(r) /\ UNCHANGED <<born, signedOut, raced>>
  BY DEF Enter, Answer
<1>4. Busy' = Busy \ {r} /\ \A q \in Busy \ {r} : req'[q] = req[q]
  BY <1>3, FinishKeeps
<1>5. /\ active' \in [Users -> 0..MaxLogins] /\ latest' \in [Users -> 0..MaxLogins]
      /\ held' \in [Devices -> 0..MaxLogins]
  BY <1>2, <1>3 DEF AccountsTypeOK
<1>6. \A d \in Devices : held'[d] # 0 =>
          /\ held'[d] \in DOMAIN born /\ born[held'[d]].device = d
          /\ born[held'[d]].user \in registered'
  <2> SUFFICES ASSUME NEW d \in Devices, held'[d] # 0
               PROVE  /\ held'[d] \in DOMAIN born /\ born[held'[d]].device = d
                      /\ born[held'[d]].user \in registered'
    OBVIOUS
  <2>1. CASE held'[d] = held[d]  BY <2>1 DEF LoginsAreKnown
  <2>2. CASE d = req[r].device /\ held'[d] = req[r].login
    <3>1. /\ req[r].login \in DOMAIN born
          /\ born[req[r].login] = [device |-> req[r].device, user |-> req[r].user]
      BY DEF LoginsAreKnown
    <3> QED  BY <2>2, <3>1
  <2>3. held'[d] = held[d] \/ (d = req[r].device /\ held'[d] = req[r].login)
    BY <1>2, <1>3 DEF AccountsTypeOK
  <2> QED  BY <2>1, <2>2, <2>3
<1>7. ActiveIsFresh'
  <2> SUFFICES ASSUME NEW q \in Busy', req'[q].user \notin raced
               PROVE  req'[q].active = active'[req'[q].user]
    BY <1>3 DEF ActiveIsFresh
  <2>1. q \in Busy /\ q # r /\ req'[q] = req[q]  BY <1>4
  <2>2. req[q].user # req[r].user  BY <2>1 DEF MeetingsAreRaces
  <2>3. req[q].active = active[req[q].user] /\ req[q].user \in Users
    BY <2>1, BusyRequests DEF ActiveIsFresh, Request, Busy
  <2> QED  BY <1>3, <2>1, <2>2, <2>3 DEF AccountsTypeOK
<1>8. LoginIsLatest'
  BY <1>2, <1>3 DEF LoginIsLatest, AccountsTypeOK
<1> QED  BY <1>5, <1>6, <1>7, <1>8

\* A registration that replaces those that were cleared is the only one of its
\* device and account.
LEMMA RegisterKeeps ==
    ASSUME AccountsInv, NEW r \in Busy, req[r].cleared, Finish(r), UNCHANGED <<born, raced>>,
           NEW login \in {0, req[r].login},
           tokens' = (tokens \ req[r].doomed) \cup {Registered(r, login)}
    PROVE  /\ tokens' \subseteq Registration
           /\ \A t \in tokens' : t.login # 0 =>
                 /\ t.login \in DOMAIN born
                 /\ born[t.login] = [device |-> t.device, user |-> t.user]
           /\ ClearedIsClear' /\ OneRegistration'
<1> USE DEF AccountsInv
<1> DEFINE new == Registered(r, login)
<1>1. r \in Requests /\ req[r] \in Request  BY BusyRequests DEF Busy
<1>2. new \in Registration
  BY <1>1, AccountsAreBounded DEF Registered, Registration, Request, Logins
<1>3. new.device = req[r].device /\ new.user = req[r].user /\ new.login = login
  BY DEF Registered
<1>4. tokens' \subseteq Registration  BY <1>2 DEF AccountsTypeOK
<1>5. \A t \in tokens' : t.login # 0 =>
          /\ t.login \in DOMAIN born
          /\ born[t.login] = [device |-> t.device, user |-> t.user]
  BY <1>3 DEF LoginsAreKnown
<1>6. Busy' = Busy \ {r} /\ \A q \in Busy \ {r} : req'[q] = req[q]
  <2>1. req' = [req EXCEPT ![r] = Idle]  BY DEF Finish
  <2> QED  BY <1>1, <2>1 DEF Busy, AccountsTypeOK, Idle
<1>7. ClearedIsClear'
  BY <1>3, <1>6 DEF ClearedIsClear, MeetingsAreRaces
<1>8. OneRegistration'
  BY <1>3 DEF OneRegistration, ClearedIsClear
<1> QED  BY <1>4, <1>5, <1>7, <1>8

\* Every step keeps the invariant.
LEMMA AccountsInvNext == AccountsInv /\ [AccountsNext]_accountsVars => AccountsInv'
<1> SUFFICES ASSUME AccountsInv, [AccountsNext]_accountsVars
             PROVE  AccountsInv'
  OBVIOUS
<1> USE AccountsAreBounded DEF AccountsInv
<1> USE DEF Busy
<1>1. ASSUME NEW r \in Requests, NEW d \in Devices, NEW u \in Users,
             SignupLoad(r, d, u) \/ LoginLoad(r, d, u)
      PROVE  AccountsInv'
  <2> DEFINE e == [device |-> d, user |-> u]
  <2>1. NewLogin = Len(born) + 1 /\ NewLogin <= MaxLogins /\ born' = Append(born, e)
    BY <1>1 DEF SignupLoad, LoginLoad, Issue, NewLogin
  <2>2. born \in Seq([device : Devices, user : Users])  BY DEF AccountsTypeOK
  <2>3. /\ born' \in Seq([device : Devices, user : Users]) /\ Len(born') <= MaxLogins
        /\ \A l \in DOMAIN born : l \in DOMAIN born' /\ born'[l] = born[l]
        /\ NewLogin \in DOMAIN born' /\ born'[NewLogin] = e /\ NewLogin \in Logins
    BY <2>1, <2>2 DEF Logins
  <2>4. \/ u \notin registered /\ Start(r, "signup", d, u, NewLogin, FALSE)
        \/ /\ u \in registered
           /\ \E push \in BOOLEAN : Start(r, "login", d, u, NewLogin, push)
    BY <1>1 DEF SignupLoad, LoginLoad
  <2>5. CASE Start(r, "signup", d, u, NewLogin, FALSE)  BY <2>3, <2>5, StartKeeps
  <2>6. ASSUME u \in registered, NEW push \in BOOLEAN, Start(r, "login", d, u, NewLogin, push)
        PROVE  AccountsInv'
    BY <2>3, <2>6, StartKeeps
  <2> QED  BY <2>4, <2>5, <2>6
<1>2. ASSUME NEW r \in Requests, NEW d \in Devices,
             NEW op \in {"register", "logout", "delete"}, AuthorizedLoad(r, d, op)
      PROVE  AccountsInv'
  <2> DEFINE u == born[held[d]].user
  <2>1. /\ held[d] # 0 /\ active[u] \in {0, held[d]} /\ born' = born
        /\ Start(r, op, d, u, held[d], op = "register")
    BY <1>2 DEF AuthorizedLoad, Accepted
  <2>2. /\ held[d] \in DOMAIN born /\ born[held[d]].device = d /\ u \in registered
    BY <2>1 DEF LoginsAreKnown
  <2>3. born \in Seq([device : Devices, user : Users]) /\ Len(born) <= MaxLogins
    BY DEF AccountsTypeOK
  <2>4. DOMAIN born = 1..Len(born) /\ Len(born) \in Nat  BY <2>3
  <2>5. held[d] \in Logins  BY <2>2, <2>3, <2>4 DEF Logins
  <2>6. born[held[d]] \in [device : Devices, user : Users]
    <3> DEFINE Row == [device : Devices, user : Users]
    <3>1. born \in Seq(Row)  BY <2>3
    <3> HIDE DEF Row
    <3>2. \A l \in 1..Len(born) : born[l] \in Row  BY <3>1
    <3> QED  BY <2>2, <2>4, <3>2 DEF Row
  <2>7. born[held[d]] = [device |-> d, user |-> u] /\ u \in Users  BY <2>2, <2>6
  <2>8. /\ (op = "register") \in BOOLEAN /\ op # "signup"
        /\ op \in {"signup", "login", "register", "logout", "delete"}
    OBVIOUS
  <2>9. /\ born' \in Seq([device : Devices, user : Users]) /\ Len(born') <= MaxLogins
        /\ \A l \in DOMAIN born : l \in DOMAIN born' /\ born'[l] = born[l]
        /\ held[d] \in DOMAIN born' /\ born'[held[d]] = [device |-> d, user |-> u]
    BY <2>1, <2>2, <2>3, <2>7
  <2> HIDE DEF u
  <2> QED  BY <2>1, <2>2, <2>5, <2>7, <2>8, <2>9, StartKeeps
<1>3. ASSUME NEW r \in Requests, Signup(r)
      PROVE  AccountsInv'
  <2>1. /\ r \in Busy /\ Enter(r) /\ registered' = registered \cup {req[r].user}
        /\ UNCHANGED <<leaving, tokens>>
    BY <1>3 DEF Signup
  <2>2. Finish(r) /\ UNCHANGED <<born, signedOut, raced>>  BY <2>1 DEF Enter
  <2>3. req[r].user \in Users  BY <2>1, BusyRequests DEF Request
  <2>4. AccountsTypeOK'  BY <2>1, <2>2, <2>3, EnterKeeps, FinishKeeps DEF AccountsTypeOK
  <2>5. LoginsAreKnown'
    BY <2>1, <2>2, EnterKeeps, FinishKeeps DEF LoginsAreKnown
  <2>6. ClearedIsClear' /\ OneRegistration'
    BY <2>1, <2>2, FinishKeeps DEF ClearedIsClear, OneRegistration
  <2> QED  BY <2>1, <2>2, <2>4, <2>5, <2>6, EnterKeeps, FinishKeeps
<1>4. ASSUME NEW r \in Requests, Login(r)
      PROVE  AccountsInv'
  <2>1. /\ r \in Busy /\ Enter(r) /\ UNCHANGED <<registered, leaving>>
        /\ req[r].user \in registered
    BY <1>4 DEF Login, LoginsAreKnown
  <2>2. Finish(r) /\ UNCHANGED <<born, signedOut, raced>>  BY <2>1 DEF Enter
  <2>3. /\ tokens' \subseteq Registration
        /\ \A t \in tokens' : t.login # 0 =>
              /\ t.login \in DOMAIN born
              /\ born[t.login] = [device |-> t.device, user |-> t.user]
        /\ ClearedIsClear' /\ OneRegistration'
    <3>1. CASE req[r].push
      <4>1. req[r].cleared /\ tokens' = (tokens \ req[r].doomed) \cup {Registered(r, req[r].login)}
        BY <1>4, <3>1 DEF Login
      <4> QED  BY <2>1, <2>2, <4>1, RegisterKeeps
    <3>2. CASE ~req[r].push
      <4>1. tokens' = tokens /\ UNCHANGED <<born, raced>>  BY <1>4, <2>2, <3>2 DEF Login
      <4>2. Busy' \subseteq Busy /\ \A q \in Busy' : req'[q] = req[q]
        BY <2>1, <2>2, FinishKeeps
      <4>3. ClearedIsClear'  BY <4>1, <4>2 DEF ClearedIsClear
      <4>4. OneRegistration'  BY <4>1 DEF OneRegistration
      <4>5. /\ tokens \subseteq Registration
            /\ \A t \in tokens : t.login # 0 =>
                  /\ t.login \in DOMAIN born
                  /\ born[t.login] = [device |-> t.device, user |-> t.user]
        BY DEF AccountsTypeOK, LoginsAreKnown
      <4> QED  BY <4>1, <4>3, <4>4, <4>5
    <3> QED  BY <3>1, <3>2
  <2>4. AccountsTypeOK'  BY <2>1, <2>2, <2>3, EnterKeeps, FinishKeeps DEF AccountsTypeOK
  <2>5. LoginsAreKnown'
    BY <2>1, <2>2, <2>3, EnterKeeps, FinishKeeps DEF LoginsAreKnown
  <2> QED  BY <2>1, <2>2, <2>3, <2>4, <2>5, EnterKeeps, FinishKeeps
<1>5. ASSUME NEW r \in Requests, CancelDeletion(r) \/ Clear(r)
      PROVE  AccountsInv'
  <2>1. /\ r \in Busy /\ req[r] \in Request
        /\ \/ req' = [req EXCEPT ![r].leaving = FALSE]
           \/ req' = [req EXCEPT ![r].doomed = Replaced(req[r].device, req[r].user),
                                 ![r].cleared = TRUE]
        /\ leaving' \subseteq leaving
        /\ UNCHANGED <<registered, active, tokens, held, history, raced>>
    BY <1>5, BusyRequests DEF CancelDeletion, Clear, account
  <2>2. Replaced(req[r].device, req[r].user) \subseteq Registration
    BY DEF Replaced, AccountsTypeOK
  <2>3. req'[r] \in Request /\ req' = [req EXCEPT ![r] = req'[r]]
    <3>1. CASE req' = [req EXCEPT ![r].leaving = FALSE]
      <4>1. req'[r] = [req[r] EXCEPT !.leaving = FALSE]
            /\ req' = [req EXCEPT ![r] = [req[r] EXCEPT !.leaving = FALSE]]
        BY <3>1 DEF AccountsTypeOK
      <4>2. [req[r] EXCEPT !.leaving = FALSE] \in Request  BY <2>1 DEF Request
      <4> QED  BY <4>1, <4>2
    <3>2. CASE req' = [req EXCEPT ![r].doomed = Replaced(req[r].device, req[r].user),
                                  ![r].cleared = TRUE]
      <4> DEFINE new == [req[r] EXCEPT !.doomed = Replaced(req[r].device, req[r].user),
                                       !.cleared = TRUE]
      <4>1. req'[r] = new /\ req' = [req EXCEPT ![r] = new]
        BY <3>2 DEF AccountsTypeOK
      <4>2. new \in Request  BY <2>1, <2>2 DEF Request
      <4> QED  BY <4>1, <4>2
    <3> QED  BY <2>1, <3>1, <3>2
  <2>4. Busy' = Busy /\ \A q \in Busy : /\ q # r => req'[q] = req[q]
                                       /\ req'[q].op = req[q].op /\ req'[q].device = req[q].device
                                       /\ req'[q].user = req[q].user
                                       /\ req'[q].login = req[q].login
                                       /\ req'[q].active = req[q].active
    <3>1. \A q \in Requests \ {r} : req'[q] = req[q]  BY <2>3 DEF AccountsTypeOK
    <3>2. /\ req'[r].op = req[r].op /\ req'[r].device = req[r].device
          /\ req'[r].user = req[r].user /\ req'[r].login = req[r].login
          /\ req'[r].active = req[r].active
      BY <2>1 DEF AccountsTypeOK, Request
    <3> QED  BY <3>1, <3>2
  <2>5. AccountsTypeOK'  BY <2>1, <2>3 DEF AccountsTypeOK, history
  <2>6. LoginsAreKnown' /\ MeetingsAreRaces' /\ ActiveIsFresh'
    BY <2>1, <2>4 DEF LoginsAreKnown, MeetingsAreRaces, ActiveIsFresh, history
  <2>7. ClearedIsClear'
    <3> SUFFICES ASSUME NEW q \in Busy', req'[q].cleared, NEW t \in tokens
                 PROVE  /\ t.device = req'[q].device /\ t.device \notin raced => t \in req'[q].doomed
                        /\ t.user = req'[q].user /\ t.user \notin raced => t \in req'[q].doomed
      BY <2>1 DEF ClearedIsClear
    <3>1. CASE q # r \/ (q = r /\ req' = [req EXCEPT ![r].leaving = FALSE])
      <4>1. q \in Busy  BY <2>4
      <4>2. req'[q].cleared = req[q].cleared /\ req'[q].doomed = req[q].doomed
        <5>1. CASE q # r  BY <2>4, <4>1, <5>1
        <5>2. CASE q = r /\ req' = [req EXCEPT ![r].leaving = FALSE]
          <6>1. req'[r] = [req[r] EXCEPT !.leaving = FALSE]  BY <5>2 DEF AccountsTypeOK
          <6>2. /\ [req[r] EXCEPT !.leaving = FALSE].cleared = req[r].cleared
                /\ [req[r] EXCEPT !.leaving = FALSE].doomed = req[r].doomed
            BY <2>1 DEF Request
          <6> QED  BY <5>2, <6>1, <6>2
        <5> QED  BY <3>1, <5>1, <5>2
      <4>3. req'[q].device = req[q].device /\ req'[q].user = req[q].user  BY <2>4, <4>1
      <4>4. /\ t.device = req[q].device /\ t.device \notin raced => t \in req[q].doomed
            /\ t.user = req[q].user /\ t.user \notin raced => t \in req[q].doomed
        BY <4>1, <4>2 DEF ClearedIsClear
      <4> QED  BY <4>2, <4>3, <4>4
    <3>2. CASE q = r /\ req' = [req EXCEPT ![r].doomed = Replaced(req[r].device, req[r].user),
                                           ![r].cleared = TRUE]
      <4>1. req'[q].doomed = Replaced(req[r].device, req[r].user)
        <5> DEFINE new == [req[r] EXCEPT !.doomed = Replaced(req[r].device, req[r].user),
                                         !.cleared = TRUE]
        <5>1. req'[r] = new  BY <3>2 DEF AccountsTypeOK
        <5>2. new.doomed = Replaced(req[r].device, req[r].user)  BY <2>1 DEF Request
        <5> QED  BY <3>2, <5>1, <5>2
      <4>2. req'[q].device = req[r].device /\ req'[q].user = req[r].user
        <5>1. q = r /\ r \in Busy  BY <2>1, <3>2
        <5> QED  BY <2>4, <5>1
      <4> QED  BY <4>1, <4>2 DEF Replaced
    <3> QED  BY <2>1, <3>1, <3>2
  <2>8. OneRegistration' /\ LoginIsLatest'
    BY <2>1 DEF OneRegistration, LoginIsLatest, history
  <2> QED  BY <2>5, <2>6, <2>7, <2>8
<1>6. ASSUME NEW r \in Requests, RegisterDevice(r)
      PROVE  AccountsInv'
  <2>1. /\ r \in Busy /\ req[r].cleared /\ Finish(r)
        /\ tokens' = (tokens \ req[r].doomed) \cup {Registered(r, req[r].active)}
        /\ UNCHANGED <<registered, active, leaving, held, history, raced>>
    BY <1>6 DEF RegisterDevice, RegisteredLogin
  <2>2. UNCHANGED <<born, latest, signedOut>>  BY <2>1 DEF history
  <2>3. req[r].active \in {0, req[r].login}  BY <1>6 DEF RegisterDevice, LoginsAreKnown
  <2>4. /\ tokens' \subseteq Registration
        /\ \A t \in tokens' : t.login # 0 =>
              /\ t.login \in DOMAIN born
              /\ born[t.login] = [device |-> t.device, user |-> t.user]
        /\ ClearedIsClear' /\ OneRegistration'
    BY <2>1, <2>2, <2>3, RegisterKeeps
  <2>5. AccountsTypeOK'  BY <2>1, <2>2, <2>4, FinishKeeps DEF AccountsTypeOK
  <2>6. LoginsAreKnown'  BY <2>1, <2>2, <2>4, FinishKeeps DEF LoginsAreKnown
  <2>7. MeetingsAreRaces' /\ ActiveIsFresh' /\ LoginIsLatest'
    BY <2>1, <2>2, FinishKeeps DEF ActiveIsFresh, LoginIsLatest
  <2> QED  BY <2>4, <2>5, <2>6, <2>7
<1>7. ASSUME NEW r \in Requests, Logout(r)
      PROVE  AccountsInv'
  <2> DEFINE u == req[r].user
  <2>1. /\ r \in Busy /\ Finish(r) /\ req[r].active \in {0, req[r].login}
        /\ active' = [active EXCEPT ![u] = Flushed(@, req[r].active, 0)]
        /\ signedOut' = signedOut \cup {req[r].login}
        /\ held' \in {held, [held EXCEPT ![req[r].device] = 0]}
        /\ UNCHANGED <<registered, leaving, tokens, born, latest, raced>>
    BY <1>7 DEF Logout, LoginsAreKnown
  <2>2. u \in Users /\ req[r].device \in Devices /\ req[r].login \in Logins
    BY <2>1, BusyRequests DEF Request
  <2>3. active' \in [Users -> 0..MaxLogins] /\ \A v \in Users \ {u} : active'[v] = active[v]
    BY <2>1, <2>2 DEF AccountsTypeOK, Flushed
  <2>4. held' \in [Devices -> 0..MaxLogins] /\ \A d \in Devices : held'[d] \in {0, held[d]}
    BY <2>1, <2>2 DEF AccountsTypeOK
  <2>5. AccountsTypeOK'  BY <2>1, <2>2, <2>3, <2>4, FinishKeeps DEF AccountsTypeOK
  <2>6. LoginsAreKnown'  BY <2>1, <2>4, FinishKeeps DEF LoginsAreKnown
  <2>7. ClearedIsClear' /\ OneRegistration' /\ MeetingsAreRaces'
    BY <2>1, FinishKeeps DEF ClearedIsClear, OneRegistration
  <2>8. ActiveIsFresh'
    <3> SUFFICES ASSUME NEW q \in Busy', req'[q].user \notin raced
                 PROVE  req'[q].active = active'[req'[q].user]
      BY <2>1 DEF ActiveIsFresh
    <3>1. q \in Busy /\ q # r /\ req'[q] = req[q]  BY <2>1, FinishKeeps
    <3>2. req[q].user # u  BY <2>1, <3>1 DEF MeetingsAreRaces
    <3>3. req[q].active = active[req[q].user] /\ req[q].user \in Users
      BY <3>1, BusyRequests DEF ActiveIsFresh, Request
    <3> QED  BY <2>3, <3>1, <3>2, <3>3
  <2>9. LoginIsLatest'
    <3> SUFFICES ASSUME NEW v \in Users, v \notin raced, active'[v] # latest[v]
                 PROVE  active'[v] = 0 /\ latest[v] \in signedOut'
      BY <2>1 DEF LoginIsLatest
    <3>1. CASE v # u  BY <2>1, <2>3, <3>1 DEF LoginIsLatest
    <3>2. CASE v = u
      <4>1. req[r].active = active[u]  BY <2>1, <3>2 DEF ActiveIsFresh
      <4>2. active'[u] = 0  BY <2>1, <2>2, <4>1 DEF AccountsTypeOK, Flushed
      <4> QED  BY <2>1, <3>2, <4>1, <4>2 DEF LoginIsLatest
    <3> QED  BY <3>1, <3>2
  <2> QED  BY <2>5, <2>6, <2>7, <2>8, <2>9
<1>8. ASSUME NEW r \in Requests, RequestDeletion(r) \/ GiveUp(r)
      PROVE  AccountsInv'
  <2>1. /\ r \in Busy /\ Finish(r)
        /\ leaving' \subseteq registered
        /\ UNCHANGED <<registered, active, tokens, held, born, latest, signedOut, raced>>
    <3>1. CASE RequestDeletion(r)
      <4>1. req[r].op = "delete" /\ leaving' = leaving \cup {req[r].user}  BY <3>1 DEF RequestDeletion
      <4>2. r \in Busy /\ req[r].user \in registered  BY <4>1 DEF LoginsAreKnown
      <4> QED  BY <3>1, <4>1, <4>2 DEF RequestDeletion, history, AccountsTypeOK
    <3>2. CASE GiveUp(r)
      BY <3>2 DEF GiveUp, account, history, AccountsTypeOK
    <3> QED  BY <1>8, <3>1, <3>2
  <2>2. AccountsTypeOK' /\ LoginsAreKnown'
    BY <2>1, FinishKeeps DEF AccountsTypeOK, LoginsAreKnown
  <2>3. /\ MeetingsAreRaces' /\ ClearedIsClear' /\ ActiveIsFresh' /\ OneRegistration'
        /\ LoginIsLatest'
    BY <2>1, FinishKeeps DEF ClearedIsClear, ActiveIsFresh, OneRegistration, LoginIsLatest
  <2> QED  BY <2>2, <2>3
<1>9. ASSUME NEW u \in Users, Unregister(u)
      PROVE  AccountsInv'
  BY <1>9 DEF Unregister, history, AccountsTypeOK, LoginsAreKnown, MeetingsAreRaces,
     ClearedIsClear, ActiveIsFresh, OneRegistration, LoginIsLatest
<1>10. ASSUME NEW d \in Devices, Expire(d)
       PROVE  AccountsInv'
  BY <1>10 DEF Expire, account, history, AccountsTypeOK, LoginsAreKnown, MeetingsAreRaces,
     ClearedIsClear, ActiveIsFresh, OneRegistration, LoginIsLatest
<1>11. CASE UNCHANGED accountsVars
  BY <1>11 DEF accountsVars, account, history, AccountsTypeOK, LoginsAreKnown, MeetingsAreRaces,
     ClearedIsClear, ActiveIsFresh, OneRegistration, LoginIsLatest
<1> QED
  BY <1>1, <1>2, <1>3, <1>4, <1>5, <1>6, <1>7, <1>8, <1>9, <1>10, <1>11 DEF AccountsNext

\* A push message reaches only the device of the current login, and devices and
\* accounts are registered once unless requests raced (push.py:148,
\* device_tokens.py:38-51, auth.py:318-333).
THEOREM PushesFollowLogins == AccountsSpec => []PushFollowsLogin
<1>1. AccountsInv => PushFollowsLogin
  <2> SUFFICES ASSUME AccountsInv, NEW u \in Users, NEW t \in PushTargets(u)
               PROVE  t.device = born[active[u]].device /\ born[active[u]].user = u
    BY DEF AccountsInv, PushFollowsLogin
  <2>1. t \in tokens /\ t.user = u /\ t.login = active[u] /\ t.login # 0
    BY DEF PushTargets
  <2>2. born[t.login] = [device |-> t.device, user |-> t.user]
    BY <2>1 DEF AccountsInv, LoginsAreKnown
  <2> QED  BY <2>1, <2>2
<1> QED  BY <1>1, AccountsInvInit, AccountsInvNext, PTL DEF AccountsSpec

\* The current login of an account that no requests raced for is the last one
\* committed, and only its own logout ends it (auth.py:460, deps.py:36).
THEOREM LastLoginIsCurrent == AccountsSpec => []LoginIsLatest
<1>1. AccountsInv => LoginIsLatest  BY DEF AccountsInv
<1> QED  BY <1>1, AccountsInvInit, AccountsInvNext, PTL DEF AccountsSpec

-----------------------------------------------------------------------------
(* Membership.                                                             *)

\* Rows are of somebody who has an account, and an id is used once.
RowsAreOwned ==
    /\ \A i \in Links : link[i] # NoLink => link[i].user \in people
    /\ \A i \in fresh : link[i] = NoLink /\ i \notin joined

\* A call deletes and inserts rows of its own user.
CallsKeepToTheirUser ==
    \A c \in Calls : call[c] # Ready =>
        /\ \A i \in call[c].drop : i \notin fresh /\ (link[i] # NoLink => link[i].user = call[c].user)
        /\ \A l \in call[c].add : l.user = call[c].user
        /\ call[c].op # "create" => call[c].user \in people

\* Calls about the same user are noticed.
TanglesAreNoticed ==
    \A c, o \in Calls :
        c # o /\ call[c] # Ready /\ call[o] # Ready /\ call[c].user = call[o].user
            => call[c].user \in tangled

\* What a call has loaded of a user nobody else has worked on since.
Knows(c) ==
    LET u == call[c].user IN
    /\ call[c].seen = estate[u]
    /\ call[c].op = "join" =>
          /\ call[c].new \in Estates /\ estate[u] \in {NoEstate, call[c].new}
          /\ \A l \in call[c].add : /\ LinksTo(u, l.unit) = {} /\ EstateOf[l.unit] = call[c].new
                                    /\ l.primary => LinksOf(u) = {}
    /\ call[c].op = "leave" => call[c].drop = LinksOf(u) /\ call[c].add = {}
    /\ call[c].op = "login" => estate[u] = NoEstate /\ call[c].add = {}
    /\ call[c].op \in {"add", "remove"} => call[c].new = estate[u]
    /\ call[c].op = "add" => \A l \in call[c].add : LinksTo(u, l.unit) = {} /\ ~ l.primary
    /\ call[c].op = "remove" => call[c].add = {}

\* A call whose user no other worked on knows what is true of him.
CallsKnow == \A c \in Calls : call[c] # Ready /\ call[c].user \notin tangled => Knows(c)

\* The links of one user.
Sound(u) ==
    /\ \A i, j \in LinksOf(u) :
          i = j \/ (link[i].unit # link[j].unit /\ ~ (link[i].primary /\ link[j].primary))
    /\ \A i \in LinksOf(u) \cap joined : estate[u] = EstateOf[link[i].unit]

\* The inductive invariant of the links.
MembershipInv ==
    /\ MembershipTypeOK /\ RowsAreOwned /\ CallsKeepToTheirUser /\ TanglesAreNoticed
    /\ CallsKnow /\ \A u \in people \ tangled : Sound(u)

\* It holds at the start.
LEMMA MembershipInvInit == MembershipInit => MembershipInv
<1> SUFFICES ASSUME MembershipInit PROVE MembershipInv
  OBVIOUS
<1> USE MembershipIsWellFormed DEF MembershipInit
<1>1. MembershipTypeOK  BY DEF MembershipTypeOK
<1>2. RowsAreOwned  BY DEF RowsAreOwned
<1>3. CallsKeepToTheirUser /\ TanglesAreNoticed /\ CallsKnow
  BY DEF CallsKeepToTheirUser, TanglesAreNoticed, CallsKnow
<1>4. ASSUME NEW u \in people PROVE Sound(u)
  <2>1. LinksOf(u) = {}  BY DEF LinksOf, NoLink
  <2> QED  BY <2>1 DEF Sound
<1> QED  BY <1>1, <1>2, <1>3, <1>4 DEF MembershipInv

\* What a call finds, by what it does.
Loaded(op, u, new, drop, add) ==
    /\ op # "create" => u \in people
    /\ drop \subseteq LinksOf(u) /\ add \subseteq Link /\ \A l \in add : l.user = u
    /\ op = "join" =>
          /\ new \in Estates /\ estate[u] \in {NoEstate, new}
          /\ \A l \in add : /\ LinksTo(u, l.unit) = {} /\ EstateOf[l.unit] = new
                            /\ l.primary => LinksOf(u) = {}
    /\ op = "leave" => drop = LinksOf(u) /\ add = {}
    /\ op = "login" => estate[u] = NoEstate /\ add = {}
    /\ op \in {"add", "remove"} => new = estate[u]
    /\ op = "add" => \A l \in add : LinksTo(u, l.unit) = {} /\ ~ l.primary
    /\ op = "remove" => add = {}

\* A call begins: it has loaded what is stored, unless somebody works on the
\* same user.
LEMMA OpenKeeps ==
    ASSUME MembershipInv, NEW c \in Calls, NEW u \in People, NEW drop, NEW add,
           NEW op \in {"join", "leave", "add", "create", "remove", "login"},
           NEW new \in Estates \cup {NoEstate},
           Open(c, op, u, new, drop, add),
           Loaded(op, u, new, drop, add)
    PROVE  MembershipInv'
<1> USE DEF MembershipInv
<1> DEFINE it == [op |-> op, user |-> u, seen |-> estate[u], new |-> new,
                  drop |-> drop, add |-> add]
<1>1. /\ call[c] = Ready /\ call' = [call EXCEPT ![c] = it]
      /\ UNCHANGED <<people, estate, link, fresh, joined>>
      /\ tangled' = IF \E o \in Calls \ {c} : call[o] # Ready /\ call[o].user = u
                    THEN tangled \cup {u} ELSE tangled
  BY DEF Open
<1>2. it \in Call /\ it # Ready
  <2>1. estate[u] \in Estates \cup {NoEstate}  BY DEF MembershipTypeOK
  <2>2. drop \subseteq Links /\ add \subseteq Link  BY DEF Loaded, LinksOf
  <2> QED  BY <2>1, <2>2 DEF Call, Ready
<1>3. call'[c] = it /\ \A o \in Calls \ {c} : call'[o] = call[o]
  BY <1>1 DEF MembershipTypeOK
<1>4. tangled \subseteq tangled' /\ tangled' \subseteq People
      /\ \A o \in Calls \ {c} : call[o] # Ready /\ call[o].user = u => u \in tangled'
  BY <1>1 DEF MembershipTypeOK
<1>5. MembershipTypeOK'  BY <1>1, <1>2, <1>4 DEF MembershipTypeOK
<1>6. RowsAreOwned'  BY <1>1 DEF RowsAreOwned
<1>7. CallsKeepToTheirUser'
  <2>1. \A i \in drop : link[i].user = u /\ i \notin fresh
    BY MembershipIsWellFormed DEF LinksOf, RowsAreOwned, NoLink, Loaded
  <2> QED  BY <1>1, <1>3, <2>1 DEF CallsKeepToTheirUser, Loaded
<1>8. TanglesAreNoticed'  BY <1>3, <1>4 DEF TanglesAreNoticed
<1>9. CallsKnow'
  <2> SUFFICES ASSUME NEW o \in Calls, call'[o] # Ready, call'[o].user \notin tangled'
               PROVE  Knows(o)'
    BY DEF CallsKnow
  <2>1. CASE o = c
    BY <1>1, <1>3, <2>1 DEF Knows, LinksOf, LinksTo, Loaded
  <2>2. CASE o # c
    <3>1. Knows(o)  BY <1>3, <1>4, <2>2 DEF CallsKnow
    <3> QED  BY <1>1, <1>3, <2>2, <3>1 DEF Knows, LinksOf, LinksTo
  <2> QED  BY <2>1, <2>2
<1>10. \A v \in people' \ tangled' : Sound(v)'
  BY <1>1, <1>4 DEF Sound, LinksOf
<1> QED  BY <1>5, <1>6, <1>7, <1>8, <1>9, <1>10

\* A call ends without a commit.
LEMMA DropKeeps ==
    ASSUME MembershipInv, NEW c \in Calls, Drop(c)
    PROVE  MembershipInv'
<1> USE DEF MembershipInv
<1>1. /\ call' = [call EXCEPT ![c] = Ready]
      /\ UNCHANGED <<people, estate, link, fresh, joined, tangled>>
  BY DEF Drop
<1>2. call'[c] = Ready /\ \A o \in Calls \ {c} : call'[o] = call[o]
  BY <1>1 DEF MembershipTypeOK
<1>3. MembershipTypeOK'  BY <1>1 DEF MembershipTypeOK
<1>4. RowsAreOwned' /\ CallsKeepToTheirUser' /\ TanglesAreNoticed'
  BY <1>1, <1>2 DEF RowsAreOwned, CallsKeepToTheirUser, TanglesAreNoticed
<1>5. CallsKnow'
  BY <1>1, <1>2 DEF CallsKnow, Knows, LinksOf, LinksTo
<1>6. \A v \in people' \ tangled' : Sound(v)'
  BY <1>1 DEF Sound, LinksOf
<1> QED  BY <1>3, <1>4, <1>5, <1>6

\* The rows of others stay when a call commits.
LEMMA CommitRows ==
    ASSUME MembershipInv, NEW c \in Calls, Commit(c)
    PROVE  LET u == call[c].user IN
           /\ call[c] \in Call /\ u \in People /\ call' = [call EXCEPT ![c] = Ready]
           /\ people' = people \cup {u} /\ tangled' = tangled
           /\ estate' = [estate EXCEPT ![u] = EstateAfter(c)]
           /\ link' \in [Links -> {NoLink} \cup Link]
           /\ fresh' \subseteq fresh /\ joined' \subseteq Links
           /\ \A i \in fresh' : link'[i] = link[i]
           /\ \A i \in Links : i \notin joined /\ i \in joined' =>
                  i \in fresh /\ i \notin fresh' /\ call[c].op = "join"
           /\ joined \subseteq joined'
           /\ \A i \in Links :
                 \/ /\ i \in fresh /\ i \notin fresh' /\ call[c].add # {}
                    /\ link'[i] \in call[c].add
                    /\ i \in joined' => call[c].op = "join"
                    /\ \A j \in Links : j \in fresh /\ j \notin fresh' => i = j
                 \/ /\ i \in call[c].drop /\ link'[i] = NoLink
                 \/ /\ i \notin call[c].drop /\ link'[i] = link[i]
                    /\ i \in fresh => i \in fresh'
                    /\ i \in joined' => i \in joined
<1> USE DEF MembershipInv
<1> DEFINE u == call[c].user
<1>1. call[c] # Ready /\ call[c] \in Call /\ u \in People
  BY DEF Commit, MembershipTypeOK, Call
<1>2. PICK id \in SUBSET fresh :
         /\ call[c].add # {} => \E i \in fresh : id = {i}
         /\ call[c].add = {} => id = {}
         /\ link' = Relinked(call[c].drop, call[c].add, id)
         /\ fresh' = fresh \ id
         /\ joined' = IF call[c].op = "join" THEN joined \cup id ELSE joined
  BY DEF Commit
<1>3. call[c].add \subseteq Link /\ id \subseteq Links  BY <1>1 DEF Call, MembershipTypeOK
<1>4. call[c].add # {} => (CHOOSE l \in call[c].add : TRUE) \in call[c].add
  OBVIOUS
<1>5. link' \in [Links -> {NoLink} \cup Link]
  BY <1>2, <1>3, <1>4 DEF Relinked, MembershipTypeOK
<1>6. ASSUME NEW i \in Links
      PROVE  \/ /\ i \in fresh /\ i \notin fresh' /\ call[c].add # {}
                /\ link'[i] \in call[c].add
                /\ i \in joined' => call[c].op = "join"
                /\ \A j \in Links : j \in fresh /\ j \notin fresh' => i = j
             \/ /\ i \in call[c].drop /\ link'[i] = NoLink
             \/ /\ i \notin call[c].drop /\ link'[i] = link[i]
                /\ i \in fresh => i \in fresh'
                /\ i \in joined' => i \in joined
  <2>1. CASE i \in id
    <3>1. call[c].add # {} /\ id = {i}  BY <1>2, <2>1
    <3>2. link'[i] \in call[c].add  BY <1>2, <1>4, <2>1, <3>1 DEF Relinked
    <3>3. i \notin joined  BY <1>2, <2>1 DEF RowsAreOwned
    <3> QED  BY <1>2, <2>1, <3>1, <3>2, <3>3
  <2>2. CASE i \notin id /\ i \in call[c].drop
    BY <1>2, <2>2 DEF Relinked
  <2>3. CASE i \notin id /\ i \notin call[c].drop
    BY <1>2, <2>3 DEF Relinked
  <2> QED  BY <2>1, <2>2, <2>3
<1>7. \A i \in fresh' : link'[i] = link[i]
  <2>1. \A i \in fresh' : i \notin id /\ i \notin call[c].drop /\ i \in Links
    BY <1>1, <1>2 DEF CallsKeepToTheirUser, MembershipTypeOK
  <2> QED  BY <1>2, <2>1 DEF Relinked
<1>8. /\ call' = [call EXCEPT ![c] = Ready] /\ people' = people \cup {u}
      /\ tangled' = tangled /\ estate' = [estate EXCEPT ![u] = EstateAfter(c)]
  BY DEF Commit
<1>9. /\ fresh' \subseteq fresh /\ joined' \subseteq Links /\ joined \subseteq joined'
      /\ \A i \in Links : i \notin joined /\ i \in joined' =>
             i \in fresh /\ i \notin fresh' /\ call[c].op = "join"
  BY <1>2, <1>3 DEF MembershipTypeOK
<1> QED  BY <1>1, <1>5, <1>6, <1>7, <1>8, <1>9

\* The links and the estate of anybody else stay when a call commits.
LEMMA CommitKeepsOthers ==
    ASSUME MembershipInv, NEW c \in Calls, Commit(c), NEW v \in People, v # call[c].user
    PROVE  /\ estate'[v] = estate[v] /\ LinksOf(v)' = LinksOf(v)
           /\ \A i \in LinksOf(v) : link'[i] = link[i] /\ (i \in joined' => i \in joined)
<1> USE DEF MembershipInv
<1> DEFINE u == call[c].user
<1>1. estate'[v] = estate[v]  BY CommitRows DEF MembershipTypeOK
<1>2. call[c] # Ready  BY DEF Commit
<1>3. \A i \in call[c].drop : i \notin fresh /\ (link[i] # NoLink => link[i].user = u)
  BY <1>2 DEF CallsKeepToTheirUser
<1>4. \A l \in call[c].add : l.user = u  BY <1>2 DEF CallsKeepToTheirUser
<1>5. NoLink.user # v  BY MembershipIsWellFormed DEF NoLink
<1>6. \A i \in LinksOf(v) : link[i] # NoLink /\ i \notin fresh /\ i \notin call[c].drop
  BY <1>3, <1>5 DEF LinksOf, RowsAreOwned
<1>7. \A i \in LinksOf(v) : link'[i] = link[i] /\ (i \in joined' => i \in joined)
  BY <1>6, CommitRows DEF LinksOf
<1>8. ASSUME NEW i \in Links, link'[i].user = v PROVE link[i].user = v
  BY <1>4, <1>5, <1>8, CommitRows
<1>9. LinksOf(v)' = LinksOf(v)  BY <1>7, <1>8 DEF LinksOf
<1> QED  BY <1>1, <1>7, <1>9

\* The links of a user after the commit of the only call about him.
LEMMA CommitKeepsSound ==
    ASSUME MembershipInv, NEW c \in Calls, Commit(c), NEW u \in People,
           u = call[c].user, u \notin tangled
    PROVE  Sound(u)'
<1> USE DEF MembershipInv
<1> DEFINE Old(i) == i \in LinksOf(u) /\ link'[i] = link[i] /\ i \notin call[c].drop
                     /\ (i \in joined' => i \in joined)
           New(i) == link'[i] \in call[c].add /\ (i \in joined' => call[c].op = "join")
                     /\ i \in fresh /\ i \notin fresh'
<1>1. call[c] # Ready /\ call[c] \in Call
  BY CommitRows DEF Commit
<1>2. Knows(c)  BY <1>1 DEF CallsKnow
<1>3. NoLink.user # u  BY <1>1, MembershipIsWellFormed DEF NoLink
<1>4. \A i \in LinksOf(u)' : Old(i) \/ New(i)
  BY <1>3, CommitRows DEF LinksOf
<1>5. \A i, j \in Links : New(i) /\ New(j) => i = j
  <2>1. \A i \in Links : i \in fresh /\ i \notin fresh' =>
            \A j \in Links : j \in fresh /\ j \notin fresh' => i = j
    <3>1. \A i \in call[c].drop : i \notin fresh  BY <1>1 DEF CallsKeepToTheirUser
    <3> QED  BY <3>1, CommitRows
  <2> QED  BY <2>1
<1>6. estate'[u] = call[c].new
  BY <1>1, <1>2, CommitRows DEF Knows, EstateAfter, Flushed, MembershipTypeOK
<1>7. CASE call[c].op = "create"
  <2>1. u \notin people  BY <1>7 DEF Commit
  <2>2. LinksOf(u) = {}  BY <2>1, <1>3 DEF LinksOf, RowsAreOwned
  <2>3. \A i \in LinksOf(u)' : i \in Links /\ New(i)
    <3>1. LinksOf(u)' \subseteq Links  BY DEF LinksOf
    <3> QED  BY <1>4, <2>2, <3>1
  <2> HIDE DEF Old
  <2>4. \A i, j \in LinksOf(u)' : i = j  BY <1>5, <2>3
  <2>5. \A i \in LinksOf(u)' : i \notin joined'  BY <1>7, <2>3
  <2> QED  BY <2>4, <2>5 DEF Sound
<1>8. CASE call[c].op # "create"
  <2>1. u \in people /\ Sound(u)  BY <1>1, <1>8 DEF CallsKeepToTheirUser
  <2>2. \A i \in LinksOf(u) : EstateOf[link[i].unit] \in Estates
    <3> SUFFICES ASSUME NEW i \in LinksOf(u) PROVE EstateOf[link[i].unit] \in Estates
      OBVIOUS
    <3>1. link[i] \in Link  BY <1>3 DEF LinksOf, MembershipTypeOK
    <3> QED  BY <3>1, MembershipIsWellFormed DEF Link
  <2>3. \A i, j \in LinksOf(u)' : Old(i) /\ New(j) =>
            /\ link'[i].unit # link'[j].unit /\ ~ (link'[i].primary /\ link'[j].primary)
    <3> SUFFICES ASSUME NEW i, NEW j, Old(i), New(j)
                 PROVE  link'[i].unit # link'[j].unit /\ ~ (link'[i].primary /\ link'[j].primary)
      OBVIOUS
    <3>1. call[c].op \in {"join", "add"}
      BY <1>1, <1>2, <1>8 DEF Knows, Call
    <3>2. LinksTo(u, link'[j].unit) = {}  BY <1>2, <3>1 DEF Knows
    <3>3. ~ link'[j].primary  BY <1>2, <3>1 DEF Knows
    <3> QED  BY <3>2, <3>3 DEF LinksTo, LinksOf
  <2>4. \A i, j \in LinksOf(u)' :
            i = j \/ (link'[i].unit # link'[j].unit /\ ~ (link'[i].primary /\ link'[j].primary))
    BY <1>4, <1>5, <2>1, <2>3 DEF Sound, LinksOf
  <2>5. ASSUME NEW i \in LinksOf(u)', i \in joined' PROVE estate'[u] = EstateOf[link'[i].unit]
    <3>1. CASE New(i)
      BY <1>2, <1>6, <2>5, <3>1 DEF Knows
    <3>2. CASE Old(i)
      <4>1. estate[u] = EstateOf[link[i].unit] /\ estate[u] # NoEstate /\ link'[i] = link[i]
        BY <2>1, <2>2, <2>5, <3>2, MembershipIsWellFormed DEF Sound
      <4>2. call[c].op # "leave"  BY <1>2, <3>2 DEF Knows
      <4>3. call[c].op # "login"  BY <1>2, <4>1 DEF Knows
      <4>4. call[c].op \in {"join", "add", "remove"}  BY <1>1, <1>8, <4>2, <4>3 DEF Call
      <4>5. call[c].new = estate[u]  BY <1>2, <4>1, <4>4 DEF Knows
      <4> QED  BY <1>6, <4>1, <4>5
    <3> QED  BY <1>4, <3>1, <3>2
  <2> QED  BY <2>4, <2>5 DEF Sound
<1> QED  BY <1>7, <1>8

\* A commit keeps the invariant.
LEMMA CommitKeeps ==
    ASSUME MembershipInv, NEW c \in Calls, Commit(c)
    PROVE  MembershipInv'
<1> USE DEF MembershipInv
<1> DEFINE u == call[c].user
<1>1. /\ call[c] # Ready /\ call[c] \in Call /\ u \in People
      /\ call'[c] = Ready /\ \A o \in Calls \ {c} : call'[o] = call[o]
      /\ people' = people \cup {u} /\ tangled' = tangled /\ fresh' \subseteq fresh
  BY CommitRows DEF Commit, MembershipTypeOK
<1>2. MembershipTypeOK'
  <2>1. EstateAfter(c) \in Estates \cup {NoEstate}
    BY <1>1 DEF EstateAfter, Flushed, Call, MembershipTypeOK
  <2>2. people' \subseteq People /\ tangled' \subseteq People /\ fresh' \subseteq Links
    BY <1>1 DEF MembershipTypeOK
  <2>3. call' \in [Calls -> {Ready} \cup Call]
    BY CommitRows DEF MembershipTypeOK
  <2>4. estate' \in [People -> Estates \cup {NoEstate}]
    BY <2>1, CommitRows DEF MembershipTypeOK
  <2>5. link' \in [Links -> {NoLink} \cup Link] /\ joined' \subseteq Links
    BY CommitRows
  <2> QED  BY <2>2, <2>3, <2>4, <2>5 DEF MembershipTypeOK
<1>3. RowsAreOwned'
  <2>1. \A l \in call[c].add : l.user = u  BY <1>1 DEF CallsKeepToTheirUser
  <2>2. \A i \in Links : link'[i] # NoLink => link'[i].user \in people'
    BY <1>1, <2>1, CommitRows DEF RowsAreOwned
  <2>3. \A i \in fresh' : link'[i] = NoLink /\ i \notin joined'
    BY CommitRows DEF RowsAreOwned, MembershipTypeOK
  <2> QED  BY <2>2, <2>3 DEF RowsAreOwned
<1>4. CallsKeepToTheirUser'
  <2> SUFFICES ASSUME NEW o \in Calls, call'[o] # Ready
               PROVE  /\ \A i \in call'[o].drop :
                            i \notin fresh' /\ (link'[i] # NoLink => link'[i].user = call'[o].user)
                      /\ \A l \in call'[o].add : l.user = call'[o].user
                      /\ call'[o].op # "create" => call'[o].user \in people'
    BY DEF CallsKeepToTheirUser
  <2>1. call'[o] = call[o] /\ call[o] # Ready /\ call[o] \in Call
    BY <1>1 DEF MembershipTypeOK
  <2>2. \A i \in call[o].drop : i \in Links /\ i \notin fresh
            /\ (link[i] # NoLink => link[i].user = call[o].user)
    BY <2>1 DEF CallsKeepToTheirUser, Call
  <2>3. \A i \in call[o].drop : link'[i] = NoLink \/ link'[i] = link[i]
    BY <2>2, CommitRows
  <2> QED  BY <1>1, <2>1, <2>2, <2>3 DEF CallsKeepToTheirUser
<1>5. TanglesAreNoticed'
  BY <1>1 DEF TanglesAreNoticed
<1>6. CallsKnow'
  <2> SUFFICES ASSUME NEW o \in Calls, call'[o] # Ready, call'[o].user \notin tangled'
               PROVE  Knows(o)'
    BY DEF CallsKnow
  <2>1. o # c /\ call'[o] = call[o] /\ call[o].user # u /\ call[o].user \in People
    BY <1>1 DEF TanglesAreNoticed, MembershipTypeOK, Call
  <2>2. Knows(o)  BY <1>1, <2>1 DEF CallsKnow
  <2> PICK v \in People : v = call[o].user  BY <2>1
  <2>3. /\ estate'[v] = estate[v] /\ LinksOf(v)' = LinksOf(v)
        /\ \A i \in LinksOf(v) : link'[i] = link[i]
    BY <2>1, CommitKeepsOthers
  <2>4. \A t : LinksTo(v, t)' = LinksTo(v, t)
    BY <2>3 DEF LinksTo
  <2> QED  BY <2>1, <2>2, <2>3, <2>4 DEF Knows, LinksOf, LinksTo
<1>7. ASSUME NEW v \in people' \ tangled' PROVE Sound(v)'
  <2>1. CASE v = u
    BY <1>1, <1>7, <2>1, CommitKeepsSound
  <2>2. CASE v # u
    <3>1. v \in people /\ v \in People /\ Sound(v)
      BY <1>1, <1>7, <2>2 DEF MembershipTypeOK
    <3> QED  BY <2>2, <3>1, CommitKeepsOthers DEF Sound
  <2> QED  BY <2>1, <2>2
<1> QED  BY <1>2, <1>3, <1>4, <1>5, <1>6, <1>7

\* Every way a call begins.
LEMMA LoadKeeps ==
    ASSUME MembershipInv, NEW c \in Calls, NEW u \in People,
           \/ LeaveLoad(c, u) \/ ContextLoad(c, u)
           \/ \E t \in Units :
                 \/ JoinLoad(c, u, t)
                 \/ \E admin \in People :
                       \/ RemoveLoad(c, admin, t, u)
                       \/ \E role \in Roles : AddLoad(c, admin, t, u, role)
                                              \/ CreateLoad(c, admin, t, u, role)
    PROVE  MembershipInv'
<1> USE DEF MembershipInv
<1>1. estate \in [People -> Estates \cup {NoEstate}]  BY DEF MembershipTypeOK
<1>2. \A t \in Units : EstateOf[t] \in Estates  BY MembershipIsWellFormed
<1>3. LinksOf(u) \subseteq Links  BY DEF LinksOf
<1>4. CASE LeaveLoad(c, u)
  <2>1. Loaded("leave", u, NoEstate, LinksOf(u), {})  BY <1>4 DEF LeaveLoad, Loaded
  <2>2. Open(c, "leave", u, NoEstate, LinksOf(u), {})  BY <1>4 DEF LeaveLoad
  <2> QED  BY <2>1, <2>2, OpenKeeps
<1>5. CASE ContextLoad(c, u)
  <2>1. PICK t \in ContextUnits(u) : Open(c, "login", u, EstateOf[t], {}, {})
    BY <1>5 DEF ContextLoad
  <2>2. PICK i \in LinksOf(u) : t = link[i].unit  BY DEF ContextUnits
  <2>3. link[i] \in Link
    <3>1. link[i].user = u /\ link[i] \in {NoLink} \cup Link
      BY DEF LinksOf, MembershipTypeOK
    <3> QED  BY <3>1, MembershipIsWellFormed DEF NoLink
  <2>4. EstateOf[t] \in Estates  BY <1>2, <2>2, <2>3 DEF Link
  <2>5. Loaded("login", u, EstateOf[t], {}, {})  BY <1>5 DEF ContextLoad, Loaded
  <2> QED  BY <2>1, <2>4, <2>5, OpenKeeps
<1>6. ASSUME NEW t \in Units, JoinLoad(c, u, t) PROVE MembershipInv'
  <2> DEFINE add == IF LinksTo(u, t) = {} THEN {JoinLink(u, t)} ELSE {}
  <2>1. \A l \in add : /\ l = JoinLink(u, t) /\ LinksTo(u, t) = {}
                       /\ l.user = u /\ l.unit = t /\ l.primary = JoinedPrimary(u)
    BY DEF JoinLink
  <2>2. JoinLink(u, t) \in Link  BY DEF JoinLink, Link, Roles, JoinedPrimary
  <2>3. add \in SUBSET Link  BY <2>2
  <2>4. \A l \in add : /\ LinksTo(u, l.unit) = {} /\ EstateOf[l.unit] = EstateOf[t]
                       /\ l.primary => LinksOf(u) = {}
    BY <2>1 DEF JoinedPrimary
  <2>5. /\ u \in people /\ estate[u] \in {NoEstate, EstateOf[t]}
        /\ Open(c, "join", u, EstateOf[t], {}, add)
    BY <1>6 DEF JoinLoad
  <2> HIDE DEF add
  <2>6. Loaded("join", u, EstateOf[t], {}, add)
    BY <1>2, <2>1, <2>3, <2>4, <2>5 DEF Loaded
  <2> QED  BY <1>2, <2>5, <2>6, OpenKeeps
<1>7. ASSUME NEW t \in Units, NEW admin \in People, RemoveLoad(c, admin, t, u)
      PROVE  MembershipInv'
  <2>1. PICK target \in LinksTo(u, t) : Open(c, "remove", u, estate[u], {target}, {})
    BY <1>7 DEF RemoveLoad
  <2>2. target \in LinksOf(u)  BY DEF LinksTo
  <2>3. u \in people
    BY <2>2, MembershipIsWellFormed DEF LinksOf, RowsAreOwned, NoLink
  <2>4. Loaded("remove", u, estate[u], {target}, {})  BY <2>2, <2>3 DEF Loaded
  <2> QED  BY <1>1, <2>1, <2>4, OpenKeeps
<1>8. ASSUME NEW t \in Units, NEW admin \in People, NEW role \in Roles,
             AddLoad(c, admin, t, u, role)
      PROVE  MembershipInv'
  <2> DEFINE l == [user |-> u, unit |-> t, primary |-> FALSE, role |-> role]
  <2>1. l \in Link  BY DEF Link
  <2>2. Loaded("add", u, estate[u], {}, {l})  BY <1>8, <2>1 DEF AddLoad, Loaded
  <2>3. Open(c, "add", u, estate[u], {}, {l})  BY <1>8 DEF AddLoad
  <2> HIDE DEF l
  <2> QED  BY <1>1, <2>2, <2>3, OpenKeeps
<1>9. ASSUME NEW t \in Units, NEW admin \in People, NEW role \in Roles,
             CreateLoad(c, admin, t, u, role)
      PROVE  MembershipInv'
  <2> DEFINE l == [user |-> u, unit |-> t, primary |-> TRUE, role |-> role]
  <2>1. l \in Link  BY DEF Link
  <2>2. Loaded("create", u, estate[admin], {}, {l})  BY <1>9, <2>1 DEF CreateLoad, Loaded
  <2>3. Open(c, "create", u, estate[admin], {}, {l})  BY <1>9 DEF CreateLoad
  <2> HIDE DEF l
  <2> QED  BY <1>1, <2>2, <2>3, OpenKeeps
<1> QED  BY <1>4, <1>5, <1>6, <1>7, <1>8, <1>9

\* Every step keeps the invariant.
LEMMA MembershipInvNext == MembershipInv /\ [MembershipNext]_membershipVars => MembershipInv'
<1> SUFFICES ASSUME MembershipInv, [MembershipNext]_membershipVars PROVE MembershipInv'
  OBVIOUS
<1>1. ASSUME NEW c \in Calls, Commit(c) PROVE MembershipInv'
  BY <1>1, CommitKeeps
<1>2. ASSUME NEW c \in Calls, Drop(c) PROVE MembershipInv'
  BY <1>2, DropKeeps
<1>3. CASE UNCHANGED membershipVars
  BY <1>3 DEF membershipVars, MembershipInv, MembershipTypeOK, RowsAreOwned,
              CallsKeepToTheirUser, TanglesAreNoticed, CallsKnow, Knows, Sound,
              LinksOf, LinksTo
<1> QED  BY <1>1, <1>2, <1>3, LoadKeeps DEF MembershipNext

\* No two requests about a user that did not overlap leave him with two links
\* to a unit, two primary units, or an estate other than that of a unit he
\* joined (auth.py join_estate and leave_estate, household.py, and the estate
\* a login restores).
THEOREM MembersAreSound == MembershipSpec => []LinksAreSound
<1>1. MembershipInv => LinksAreSound
  BY DEF MembershipInv, Sound, LinksAreSound, MembershipTypeOK
<1> QED  BY <1>1, MembershipInvInit, MembershipInvNext, PTL DEF MembershipSpec
=============================================================================
