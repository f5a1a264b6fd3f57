------------------------- MODULE KeyAgreement_proofs -------------------------
(***************************************************************************)
(* KeyAgreement: proofs, for any number of owners, any sizes, and any      *)
(* excess of the sizes that openssl asks for.                              *)
(***************************************************************************)
EXTENDS KeyAgreement, TLAPS

-----------------------------------------------------------------------------
(* The inductive invariant: what is in which buffer at which place.        *)

\* The material that encapsulate makes.
SentMaterial ==
    [ciphertext |-> IF scheme = "hybrid" THEN [to |-> recipient.mlKem, changed |-> FALSE]
                                         ELSE None,
     ephemeral |-> [point |-> "ephemeral", encoding |-> 1],
     length |-> KeyMaterialSize]

\* The material and the keys that the role at work uses.
Used == IF role = "sender" THEN SentMaterial ELSE material
Keyring == IF role = "sender" THEN recipient ELSE holder

\* The data key of material m and keys k: each secret at its size, no byte more.
PointsOf(m, k) == {m.ephemeral.point, k.x25519}
KemOf(m, k) == <<KemSecret(m.ciphertext, k.mlKem), SecretSize>>
AgreedOf(m, k) == <<AgreedSecret(PointsOf(m, k)), SecretSize>>
InputOf(m, k) ==
    <<[of |-> "input", secrets |-> <<KemOf(m, k), AgreedOf(m, k)>>], SecretSize + SecretSize>>
Derived(m, k) ==
    [salt |-> scheme,
     secret |-> IF scheme = "hybrid" THEN InputOf(m, k) ELSE AgreedOf(m, k),
     info |-> [material |-> m, public |-> PublicKeys(k)]]

\* What the role at work is to hold.
KemNow == KemOf(Used, Keyring)
AgreedNow == AgreedOf(Used, Keyring)
InputNow == InputOf(Used, Keyring)
PointsNow == PointsOf(Used, Keyring)

\* What each role is to derive.
SentKey == Derived(SentMaterial, recipient)
SentPoints == PointsOf(SentMaterial, recipient)
ReceivedKey == Derived(material, holder)

IsBuffer(b) ==
    /\ b = [value |-> b.value, length |-> b.length, capacity |-> b.capacity, wiping |-> b.wiping]
    /\ b.length \in Nat /\ b.capacity \in Nat
    /\ b.length <= b.capacity

\* Every secret is in a buffer, one of the hybrid scheme in one that wipes itself.
BuffersWipe ==
    /\ secret = [s \in Secret |-> secret[s]]
    /\ \A s \in Secret : secret[s] # None =>
          IsBuffer(secret[s]) /\ (scheme = "hybrid" => secret[s].wiping = TRUE)

\* The place is one of the route, and a call that has returned holds nothing.
Places ==
    /\ pc \in Range(Route(scheme, role)) \cup Terminal
    /\ pc \in Terminal => secret = [s \in Secret |-> None]

KemHeld ==
    /\ pc = "kemRun" =>
          /\ IsBuffer(secret["kem"]) /\ secret["kem"].wiping = TRUE
          /\ secret["kem"].capacity >= SecretSize
          /\ role = "sender" => IsBuffer(ciphertext) /\ ciphertext.capacity >= CiphertextSize
    /\ scheme = "hybrid" /\ pc \in {"generate", "derive", "encode", "publics", "hkdf"} =>
          /\ Contents(secret["kem"]) = KemNow
          /\ role = "sender" => /\ ciphertext.value = SentMaterial.ciphertext
                                /\ ciphertext.length = CiphertextSize

AgreedHeld ==
    pc = "hkdf" \/ (scheme = "hybrid" /\ pc \in {"encode", "publics"}) =>
        /\ Contents(secret["x25519"]) = AgreedNow
        /\ LowOrder \notin PointsNow

InputHeld ==
    scheme = "hybrid" /\ pc = "hkdf" => Contents(secret["input"]) = InputNow

MaterialIs ==
    /\ role = "sender" => material \in {None, SentMaterial}
    /\ role = "sender" /\ (pc \in {"publics", "hkdf", "ok"} \/ (scheme = "x25519" /\ pc = "derive"))
          => material = SentMaterial
    /\ role = "receiver" => material \in Material

\* What is derived, and from what.
DerivedFrom ==
    /\ dataKey = [r \in Role |-> dataKey[r]]
    /\ role = "sender" /\ pc # "ok" => dataKey["sender"] = None /\ sent = None
    /\ role = "receiver" \/ pc = "ok" =>
          /\ sent = SentMaterial
          /\ dataKey["sender"] = SentKey
          /\ LowOrder \notin SentPoints
    /\ role = "sender" \/ pc # "ok" => dataKey["receiver"] = None
    /\ role = "receiver" /\ pc = "ok" =>
          dataKey["receiver"] = ReceivedKey /\ material.ephemeral.point # LowOrder

ErrorsFit ==
    /\ error \in Error
    /\ pc # "err" => error = "none"
    /\ role = "receiver" /\ material = sent /\ Matches => error \in {"none", "Crypto"}

Parties == scheme \in {"x25519", "hybrid"} /\ recipient \in Keys /\ holder \in Keys /\ role \in Role

IInv ==
    /\ Parties
    /\ Places
    /\ BuffersWipe
    /\ KemHeld
    /\ AgreedHeld
    /\ InputHeld
    /\ MaterialIs
    /\ DerivedFrom
    /\ ErrorsFit
    /\ SecretsWiped

-----------------------------------------------------------------------------
(* The routes, and what comes next on them.                                *)

After(route, place) == route[1 + CHOOSE i \in DOMAIN route : route[i] = place]

LEMMA RouteOfX25519Sender ==
    LET route == Route("x25519", "sender") IN
    /\ Range(route) = {"generate", "encode", "publics", "derive", "hkdf"}
    /\ After(route, "generate") = "encode"
    /\ After(route, "encode") = "publics"
    /\ After(route, "publics") = "derive"
    /\ After(route, "derive") = "hkdf"
<1> DEFINE route == <<"generate", "encode", "publics", "derive", "hkdf">>
<1>1. Route("x25519", "sender") = route
  BY DEF Route
<1>2. Range(route) = {"generate", "encode", "publics", "derive", "hkdf"}
  BY DEF Range
<1>3. /\ (CHOOSE i \in DOMAIN route : route[i] = "generate") = 1
      /\ (CHOOSE i \in DOMAIN route : route[i] = "encode") = 2
      /\ (CHOOSE i \in DOMAIN route : route[i] = "publics") = 3
      /\ (CHOOSE i \in DOMAIN route : route[i] = "derive") = 4
  OBVIOUS
<1>4. QED BY <1>1, <1>2, <1>3 DEF After

LEMMA RouteOfX25519Receiver ==
    LET route == Route("x25519", "receiver") IN
    /\ Range(route) = {"import", "publics", "derive", "hkdf"}
    /\ After(route, "import") = "publics"
    /\ After(route, "publics") = "derive"
    /\ After(route, "derive") = "hkdf"
<1> DEFINE route == <<"import", "publics", "derive", "hkdf">>
<1>1. Route("x25519", "receiver") = route
  BY DEF Route
<1>2. Range(route) = {"import", "publics", "derive", "hkdf"}
  BY DEF Range
<1>3. /\ (CHOOSE i \in DOMAIN route : route[i] = "import") = 1
      /\ (CHOOSE i \in DOMAIN route : route[i] = "publics") = 2
      /\ (CHOOSE i \in DOMAIN route : route[i] = "derive") = 3
  OBVIOUS
<1>4. QED BY <1>1, <1>2, <1>3 DEF After

LEMMA RouteOfHybridSender ==
    LET route == Route("hybrid", "sender") IN
    /\ Range(route) = {"kemInit", "kemSize", "kemRun", "generate", "derive", "encode",
                        "publics", "hkdf"}
    /\ After(route, "kemInit") = "kemSize"
    /\ After(route, "kemSize") = "kemRun"
    /\ After(route, "kemRun") = "generate"
    /\ After(route, "generate") = "derive"
    /\ After(route, "derive") = "encode"
    /\ After(route, "encode") = "publics"
    /\ After(route, "publics") = "hkdf"
<1> DEFINE route == <<"kemInit", "kemSize", "kemRun", "generate", "derive", "encode",
                       "publics", "hkdf">>
<1>1. Route("hybrid", "sender") = route
  BY DEF Route
<1>2. Range(route) = {"kemInit", "kemSize", "kemRun", "generate", "derive", "encode",
                       "publics", "hkdf"}
  BY DEF Range
<1>3. /\ (CHOOSE i \in DOMAIN route : route[i] = "kemInit") = 1
      /\ (CHOOSE i \in DOMAIN route : route[i] = "kemSize") = 2
      /\ (CHOOSE i \in DOMAIN route : route[i] = "kemRun") = 3
      /\ (CHOOSE i \in DOMAIN route : route[i] = "generate") = 4
      /\ (CHOOSE i \in DOMAIN route : route[i] = "derive") = 5
      /\ (CHOOSE i \in DOMAIN route : route[i] = "encode") = 6
      /\ (CHOOSE i \in DOMAIN route : route[i] = "publics") = 7
  OBVIOUS
<1>4. QED BY <1>1, <1>2, <1>3 DEF After

LEMMA RouteOfHybridReceiver ==
    LET route == Route("hybrid", "receiver") IN
    /\ Range(route) = {"check", "import", "kemInit", "kemSize", "kemRun", "derive",
                        "publics", "hkdf"}
    /\ After(route, "check") = "import"
    /\ After(route, "import") = "kemInit"
    /\ After(route, "kemInit") = "kemSize"
    /\ After(route, "kemSize") = "kemRun"
    /\ After(route, "kemRun") = "derive"
    /\ After(route, "derive") = "publics"
    /\ After(route, "publics") = "hkdf"
<1> DEFINE route == <<"check", "import", "kemInit", "kemSize", "kemRun", "derive",
                       "publics", "hkdf">>
<1>1. Route("hybrid", "receiver") = route
  BY DEF Route
<1>2. Range(route) = {"check", "import", "kemInit", "kemSize", "kemRun", "derive",
                       "publics", "hkdf"}
  BY DEF Range
<1>3. /\ (CHOOSE i \in DOMAIN route : route[i] = "check") = 1
      /\ (CHOOSE i \in DOMAIN route : route[i] = "import") = 2
      /\ (CHOOSE i \in DOMAIN route : route[i] = "kemInit") = 3
      /\ (CHOOSE i \in DOMAIN route : route[i] = "kemSize") = 4
      /\ (CHOOSE i \in DOMAIN route : route[i] = "kemRun") = 5
      /\ (CHOOSE i \in DOMAIN route : route[i] = "derive") = 6
      /\ (CHOOSE i \in DOMAIN route : route[i] = "publics") = 7
  OBVIOUS
<1>4. QED BY <1>1, <1>2, <1>3 DEF After

\* Where Proceed leads.
Leads(a, b) == pc = a => pc' = b
Goes ==
    /\ scheme = "x25519" /\ role = "sender" =>
          /\ Leads("generate", "encode") /\ Leads("encode", "publics")
          /\ Leads("publics", "derive") /\ Leads("derive", "hkdf")
    /\ scheme = "x25519" /\ role = "receiver" =>
          /\ Leads("import", "publics") /\ Leads("publics", "derive") /\ Leads("derive", "hkdf")
    /\ scheme = "hybrid" /\ role = "sender" =>
          /\ Leads("kemInit", "kemSize") /\ Leads("kemSize", "kemRun")
          /\ Leads("kemRun", "generate") /\ Leads("generate", "derive")
          /\ Leads("derive", "encode") /\ Leads("encode", "publics") /\ Leads("publics", "hkdf")
    /\ scheme = "hybrid" /\ role = "receiver" =>
          /\ Leads("check", "import") /\ Leads("import", "kemInit") /\ Leads("kemInit", "kemSize")
          /\ Leads("kemSize", "kemRun") /\ Leads("kemRun", "derive")
          /\ Leads("derive", "publics") /\ Leads("publics", "hkdf")
    /\ UNCHANGED <<scheme, recipient, holder, role, residue, error>>

LEMMA ProceedGoes == Proceed => Goes
<1> SUFFICES ASSUME Proceed PROVE Goes
  OBVIOUS
<1>6. /\ pc' = After(Route(scheme, role), pc)
      /\ UNCHANGED <<scheme, recipient, holder, role, residue, error>>
  BY DEF Proceed, After
<1>1. CASE scheme = "x25519" /\ role = "sender"
  BY <1>1, <1>6, RouteOfX25519Sender DEF Goes, Leads
<1>2. CASE scheme = "x25519" /\ role = "receiver"
  BY <1>2, <1>6, RouteOfX25519Receiver DEF Goes, Leads
<1>3. CASE scheme = "hybrid" /\ role = "sender"
  BY <1>3, <1>6, RouteOfHybridSender DEF Goes, Leads
<1>4. CASE scheme = "hybrid" /\ role = "receiver"
  BY <1>4, <1>6, RouteOfHybridReceiver DEF Goes, Leads
<1>5. CASE ~(scheme \in {"x25519", "hybrid"} /\ role \in {"sender", "receiver"})
  BY <1>5, <1>6 DEF Goes
<1>7. QED BY <1>1, <1>2, <1>3, <1>4, <1>5

\* Where a call can be.
Located ==
    /\ scheme \in {"x25519", "hybrid"} /\ role \in {"sender", "receiver"}
    /\ pc \in {"generate", "encode"} => role = "sender"
    /\ pc \in {"check", "import"} => role = "receiver"
    /\ pc \in {"check", "kemInit", "kemSize", "kemRun"} => scheme = "hybrid"
    /\ pc \in {"check", "import", "kemInit", "kemSize", "kemRun", "generate", "derive",
               "encode", "publics", "hkdf", "ok", "err"}

LEMMA PlacesLocated == Parties /\ Places => Located
<1> SUFFICES ASSUME Parties, Places PROVE Located
  OBVIOUS
<1>1. CASE scheme = "x25519" /\ role = "sender"
  BY <1>1, RouteOfX25519Sender DEF Places, Located, Terminal
<1>2. CASE scheme = "x25519" /\ role = "receiver"
  BY <1>2, RouteOfX25519Receiver DEF Places, Located, Terminal
<1>3. CASE scheme = "hybrid" /\ role = "sender"
  BY <1>3, RouteOfHybridSender DEF Places, Located, Terminal
<1>4. CASE scheme = "hybrid" /\ role = "receiver"
  BY <1>4, RouteOfHybridReceiver DEF Places, Located, Terminal
<1>5. QED BY <1>1, <1>2, <1>3, <1>4 DEF Parties, Role

LEMMA RoutesStart == \A s \in {"x25519", "hybrid"}, r \in Role :
    /\ Head(Route(s, r)) \in Range(Route(s, r))
    /\ Head(Route(s, r)) = IF r = "sender" THEN IF s = "hybrid" THEN "kemInit" ELSE "generate"
                                           ELSE IF s = "hybrid" THEN "check" ELSE "import"
<1> SUFFICES ASSUME NEW s \in {"x25519", "hybrid"}, NEW r \in Role
             PROVE  /\ Head(Route(s, r)) \in Range(Route(s, r))
                    /\ Head(Route(s, r)) = IF r = "sender" THEN IF s = "hybrid" THEN "kemInit" ELSE "generate"
                                           ELSE IF s = "hybrid" THEN "check" ELSE "import"
  OBVIOUS
<1>1. Head(Route(s, r)) = IF r = "sender" THEN IF s = "hybrid" THEN "kemInit" ELSE "generate"
                                           ELSE IF s = "hybrid" THEN "check" ELSE "import"
  BY DEF Route, Role
<1>2. QED BY <1>1, RouteOfX25519Sender, RouteOfX25519Receiver, RouteOfHybridSender, RouteOfHybridReceiver DEF Role

\* Proceed stays on the route.
LEMMA GoesOnRoute ==
    Parties /\ pc \in Range(Route(scheme, role)) \ {"hkdf"} /\ Goes
      => pc' \in Range(Route(scheme', role')) \ Terminal
<1> SUFFICES ASSUME Parties, pc \in Range(Route(scheme, role)) \ {"hkdf"}, Goes
             PROVE  pc' \in Range(Route(scheme', role')) \ Terminal
  OBVIOUS
<1> USE DEF Goes, Leads, Terminal
<1>1. CASE scheme = "x25519" /\ role = "sender"
  BY <1>1, RouteOfX25519Sender
<1>2. CASE scheme = "x25519" /\ role = "receiver"
  BY <1>2, RouteOfX25519Receiver
<1>3. CASE scheme = "hybrid" /\ role = "sender"
  BY <1>3, RouteOfHybridSender
<1>4. CASE scheme = "hybrid" /\ role = "receiver"
  BY <1>4, RouteOfHybridReceiver
<1>5. QED BY <1>1, <1>2, <1>3, <1>4 DEF Parties, Role

\* A call that is on the route has not returned.
LEMMA RouteNotEnded == Parties => Range(Route(scheme, role)) \cap Terminal = {}
  BY RouteOfX25519Sender, RouteOfX25519Receiver, RouteOfHybridSender, RouteOfHybridReceiver
  DEF Parties, Role, Terminal

-----------------------------------------------------------------------------
(* Buffers.                                                                *)

LEMMA Sizes == {CiphertextSize, PublicKeySize, SecretSize} \subseteq Nat /\ MaxExcess \in Nat
  BY AgreementAssumption

\* A new buffer is as long as it was asked to be.
LEMMA BufferIs ==
    ASSUME NEW value, NEW length \in Nat, NEW wiping
    PROVE  LET b == Buffer(value, length, wiping) IN
           /\ IsBuffer(b) /\ b.capacity = length /\ b.wiping = wiping
           /\ Contents(b) = <<value, length>>
  BY DEF Buffer, IsBuffer, Contents

\* A buffer that was filled and cut holds what was put there, and keeps its capacity.
LEMMA FilledIs ==
    ASSUME NEW b, IsBuffer(b), NEW value, NEW length \in Nat, length <= b.capacity
    PROVE  LET f == Filled(b, value, length) IN
           /\ IsBuffer(f) /\ f.capacity = b.capacity /\ f.wiping = b.wiping
           /\ Contents(f) = <<value, length>> /\ f.value = value /\ f.length = length
<1> DEFINE c == [value |-> value, length |-> length, capacity |-> b.capacity, wiping |-> b.wiping]
<1>1. [b EXCEPT !.value = value]
        = [value |-> value, length |-> b.length, capacity |-> b.capacity, wiping |-> b.wiping]
  BY DEF IsBuffer
<1> DEFINE e == [value |-> value, length |-> b.length, capacity |-> b.capacity,
                 wiping |-> b.wiping]
<1>2. [e EXCEPT !.length = length] = c
  OBVIOUS
<1>3. Filled(b, value, length) = c
  <2>1. Filled(b, value, length) = Truncated(e, length)
    BY <1>1 DEF Filled
  <2>2. QED BY <2>1, <1>2 DEF Truncated
<1>4. QED BY <1>3 DEF IsBuffer, Contents

\* A secret put into a buffer leaves the other ones where they are.
LEMMA SecretPut ==
    ASSUME BuffersWipe, NEW s \in Secret, NEW b, secret' = [secret EXCEPT ![s] = b],
           IsBuffer(b), scheme = "hybrid" => b.wiping = TRUE, scheme' = scheme
    PROVE  /\ BuffersWipe'
           /\ secret'[s] = b
           /\ \A t \in Secret \ {s} : secret'[t] = secret[t]
<1>1. secret' = [t \in Secret |-> IF t = s THEN b ELSE secret[t]]
  BY DEF BuffersWipe
<1>2. /\ secret'[s] = b
      /\ \A t \in Secret \ {s} : secret'[t] = secret[t]
  BY <1>1
<1>3. secret' = [t \in Secret |-> secret'[t]]
  BY <1>1
<1>4. ASSUME NEW t \in Secret, secret'[t] # None
      PROVE  IsBuffer(secret'[t]) /\ (scheme' = "hybrid" => secret'[t].wiping = TRUE)
  BY <1>2, <1>4 DEF BuffersWipe
<1>5. BuffersWipe'
  BY <1>3, <1>4 DEF BuffersWipe, IsBuffer
<1>6. QED BY <1>2, <1>5


-----------------------------------------------------------------------------
(* The material and the keys in use.                                       *)

\* They stay the same in a call; encapsulate does not read the material it makes.
Kept == UNCHANGED <<SentMaterial, Used, Keyring, KemNow, AgreedNow, InputNow, PointsNow>>

LEMMA UsesKept ==
    UNCHANGED <<scheme, recipient, holder, role>> /\ (role = "sender" \/ UNCHANGED material)
      => Kept
<1> SUFFICES ASSUME UNCHANGED <<scheme, recipient, holder, role>>,
                    role = "sender" \/ UNCHANGED material
             PROVE  Kept
  OBVIOUS
<1>1. UNCHANGED <<SentMaterial, Used, Keyring>>
  BY DEF SentMaterial, KeyMaterialSize, Used, Keyring
<1>2. UNCHANGED <<KemNow, AgreedNow, PointsNow>>
  BY <1>1 DEF KemNow, AgreedNow, PointsNow, KemOf, AgreedOf, PointsOf, KemSecret, AgreedSecret
<1>3. UNCHANGED InputNow
  BY <1>1 DEF InputNow, InputOf, KemOf, AgreedOf, PointsOf, KemSecret, AgreedSecret
<1>4. QED BY <1>1, <1>2, <1>3 DEF Kept

LEMMA SentTyped == Parties => SentMaterial \in Material
<1> SUFFICES ASSUME Parties PROVE SentMaterial \in Material
  OBVIOUS
<1>1. SentMaterial.length \in Nat /\ KeyMaterialSize \in Nat
  BY Sizes DEF SentMaterial, KeyMaterialSize
<1>2. recipient.mlKem \in Owner
  BY DEF Parties, Keys
<1>3. QED BY <1>1, <1>2 DEF SentMaterial, Material

\* Where a header goes through, it stays a header.
LEMMA StoredTyped ==
    ASSUME Parties, material = SentMaterial
    PROVE  Stored \subseteq Material
<1> SUFFICES ASSUME NEW m \in Stored PROVE m \in Material
  OBVIOUS
<1>1. material \in Material /\ material.length >= 1
  BY SentTyped, AgreementAssumption DEF SentMaterial, KeyMaterialSize
<1>2. CASE m = material
  BY <1>1, <1>2
<1>3. ASSUME NEW point \in {"ephemeral", "other", LowOrder}, NEW encoding \in 1 .. 2,
             m = [material EXCEPT !.ephemeral = [point |-> point, encoding |-> encoding]]
      PROVE  m \in Material
  BY <1>1, <1>3 DEF Material
<1>4. ASSUME NEW length \in {material.length - 1, material.length + 1},
             m = [material EXCEPT !.length = length]
      PROVE  m \in Material
  <2>1. length \in Nat
    BY <1>1 DEF Material
  <2>2. QED BY <1>1, <1>4, <2>1 DEF Material
<1>5. CASE scheme = "hybrid" /\ m = [material EXCEPT !.ciphertext.changed = TRUE]
  <2>1. material.ciphertext = [to |-> recipient.mlKem, changed |-> FALSE]
    BY <1>5 DEF SentMaterial
  <2>2. \A c \in [to: Owner, changed: BOOLEAN] :
           [c EXCEPT !.changed = TRUE] \in [to: Owner, changed: BOOLEAN]
    OBVIOUS
  <2>3. material.ciphertext \in [to: Owner, changed: BOOLEAN]
    BY <2>1 DEF Parties, Keys
  <2>4. m = [material EXCEPT !.ciphertext = [@ EXCEPT !.changed = TRUE]]
    BY <1>5
  <2>5. QED BY <1>1, <2>2, <2>3, <2>4 DEF Material
<1>6. QED BY <1>2, <1>3, <1>4, <1>5 DEF Stored

LEMMA PointsAre == Points = PointsNow
  BY DEF Points, PointsNow, PointsOf, Used, Keyring, SentMaterial

LEMMA ProceedKeeps ==
    Parties /\ Places /\ Proceed /\ (pc = "encode" \/ UNCHANGED material)
      => Goes /\ Located /\ Kept
<1> SUFFICES ASSUME Parties, Places, Proceed, pc = "encode" \/ UNCHANGED material
             PROVE  Goes /\ Located /\ Kept
  OBVIOUS
<1>1. Goes /\ Located
  BY ProceedGoes, PlacesLocated
<1>2. QED BY <1>1, UsesKept DEF Goes, Located

LEMMA KeysKept ==
    UNCHANGED <<scheme, recipient>>
      => /\ UNCHANGED <<SentMaterial, SentKey, SentPoints>>
         /\ UNCHANGED <<material, holder>> => UNCHANGED ReceivedKey
<1> SUFFICES ASSUME UNCHANGED <<scheme, recipient>>
             PROVE  /\ UNCHANGED <<SentMaterial, SentKey, SentPoints>>
                    /\ UNCHANGED <<material, holder>> => UNCHANGED ReceivedKey
  OBVIOUS
<1> USE DEF Derived, InputOf, KemOf, AgreedOf, PointsOf, KemSecret, AgreedSecret, PublicKeys
<1>1. UNCHANGED SentMaterial
  BY DEF SentMaterial, KeyMaterialSize
<1>2. UNCHANGED <<SentKey, SentPoints>>
  BY <1>1 DEF SentKey, SentPoints
<1>3. UNCHANGED <<material, holder>> => UNCHANGED ReceivedKey
  BY DEF ReceivedKey
<1>4. QED BY <1>1, <1>2, <1>3

\* At the end of its call, a role has derived what it is to derive.
LEMMA HkdfDerives ==
    ASSUME Parties, Places, AgreedHeld, InputHeld, MaterialIs, DerivedFrom, Hkdf
    PROVE  /\ dataKey'[role] = IF role = "sender" THEN SentKey ELSE ReceivedKey
           /\ dataKey' = [r \in Role |-> dataKey'[r]]
           /\ \A r \in Role \ {role} : dataKey'[r] = dataKey[r]
           /\ role = "sender" => sent' = SentMaterial /\ LowOrder \notin SentPoints
           /\ role = "receiver" => material.ephemeral.point # LowOrder
<1> DEFINE s == Contents(secret[IF scheme = "hybrid" THEN "input" ELSE "x25519"])
<1>1. s = IF scheme = "hybrid" THEN InputNow ELSE AgreedNow
  BY DEF Hkdf, InputHeld, AgreedHeld
<1>2. s = IF scheme = "hybrid" THEN InputOf(Used, Keyring) ELSE AgreedOf(Used, Keyring)
  BY <1>1 DEF InputNow, AgreedNow
<1>3. material = Used
  BY DEF Hkdf, MaterialIs, Used
<1> HIDE DEF s
<1>4. [salt |-> scheme, secret |-> s, info |-> Info(PublicKeys(Keyring))] = Derived(Used, Keyring)
  BY <1>2, <1>3 DEF Derived, Info
<1>5. Derived(Used, Keyring) = IF role = "sender" THEN SentKey ELSE ReceivedKey
  BY DEF Used, Keyring, SentKey, ReceivedKey
<1>6. dataKey' = [dataKey EXCEPT ![role] = Derived(Used, Keyring)]
  BY <1>4 DEF Hkdf, Keyring, s
<1>7. dataKey' = [r \in Role |-> IF r = role THEN Derived(Used, Keyring) ELSE dataKey[r]]
  BY <1>6 DEF DerivedFrom
<1>8. role = "sender" => sent' = SentMaterial /\ LowOrder \notin SentPoints
  BY <1>3 DEF Hkdf, AgreedHeld, Used, Keyring, PointsNow, SentPoints
<1>9. role = "receiver" => material.ephemeral.point # LowOrder
  BY DEF Hkdf, AgreedHeld, Used, PointsNow, PointsOf
<1>10. QED BY <1>5, <1>7, <1>8, <1>9 DEF Parties

\* The sender's material has the size that both schemes ask for, and the points in it
\* and in the recipient's keys do not agree on zeros.
LEMMA SentAccepted ==
    ASSUME Parties, DerivedFrom, role = "receiver", material = sent, Matches
    PROVE  material.length = KeyMaterialSize /\ AgreedSecret(Points) # Zeros
<1>1. material = SentMaterial /\ LowOrder \notin SentPoints
  BY DEF DerivedFrom
<1>2. material.length = KeyMaterialSize
  BY <1>1 DEF SentMaterial
<1>3. Points = SentPoints
  BY <1>1 DEF Points, SentPoints, PointsOf, Matches
<1>4. AgreedSecret(Points) # Zeros
  BY <1>1, <1>3 DEF AgreedSecret, Zeros
<1>5. QED BY <1>2, <1>4

\* What a return of the hybrid scheme drops is overwritten.
LEMMA ReturnWipes ==
    ASSUME BuffersWipe, scheme = "hybrid", NEW result, NEW kind, Return(result, kind)
    PROVE  residue' = residue /\ scheme' = scheme
<1>1. ASSUME NEW s \in Secret, secret[s] # None
      PROVE  secret[s].wiping /\ Overwritten(secret[s]) = 1 .. secret[s].capacity
  BY <1>1 DEF BuffersWipe, Overwritten
<1>2. QED BY <1>1 DEF Return

\* Who takes part changes only when the material is delivered.
LEMMA PartiesStep == Parties /\ [Next]_vars => Parties'
<1> SUFFICES ASSUME Parties, [Next]_vars
             PROVE  Parties'
  OBVIOUS
<1> USE DEF Parties, Role
<1>1. CASE Generate
  BY <1>1, ProceedGoes DEF Generate, Goes, Leads
<1>2. CASE Encode
  BY <1>2, ProceedGoes DEF Encode, Goes, Leads
<1>3. CASE Deliver
  BY <1>3 DEF Deliver
<1>4. CASE Check
  BY <1>4, ProceedGoes DEF Check, Goes, Leads, Fail, Return
<1>5. CASE Import
  BY <1>5, ProceedGoes DEF Import, Goes, Leads, Fail, Return
<1>6. CASE KemInit
  BY <1>6, ProceedGoes DEF KemInit, Goes, Leads
<1>7. CASE KemSize
  BY <1>7, ProceedGoes DEF KemSize, Goes, Leads
<1>8. CASE KemRun
  BY <1>8, ProceedGoes DEF KemRun, Goes, Leads
<1>9. CASE Derive
  BY <1>9, ProceedGoes DEF Derive, Goes, Leads, Fail, Return
<1>10. CASE Publics
  BY <1>10, ProceedGoes DEF Publics, Goes, Leads
<1>11. CASE Hkdf
  BY <1>11 DEF Hkdf, Return
<1>12. CASE Fails
  BY <1>12 DEF Fails, Fail, Return
<1>13. CASE UNCHANGED vars
  BY <1>13 DEF vars
<1>14. QED BY <1>1, <1>2, <1>3, <1>4, <1>5, <1>6, <1>7, <1>8, <1>9, <1>10, <1>11, <1>12,
  <1>13
  DEF Next, Encapsulate, Decapsulate, Ended

\* Every call is on the route, or has returned and dropped its secrets.
LEMMA PlacesStep == Parties /\ Places /\ [Next]_vars => Places'
<1> SUFFICES ASSUME Parties, Places, [Next]_vars
             PROVE  Places'
  OBVIOUS
<1>1. CASE Generate
  BY <1>1, PlacesLocated, ProceedGoes, GoesOnRoute DEF Generate, Located, Places, Terminal
<1>2. CASE Encode
  BY <1>2, PlacesLocated, ProceedGoes, GoesOnRoute DEF Encode, Located, Places, Terminal
<1>3. CASE Deliver
  BY <1>3, RoutesStart DEF Deliver, Places, Terminal, Parties, Role
<1>4. CASE Check
  BY <1>4, PlacesLocated, ProceedGoes, GoesOnRoute
  DEF Check, Located, Places, Terminal, Fail, Return
<1>5. CASE Import
  BY <1>5, PlacesLocated, ProceedGoes, GoesOnRoute
  DEF Import, Located, Places, Terminal, Fail, Return
<1>6. CASE KemInit
  BY <1>6, PlacesLocated, ProceedGoes, GoesOnRoute DEF KemInit, Located, Places, Terminal
<1>7. CASE KemSize
  BY <1>7, PlacesLocated, ProceedGoes, GoesOnRoute DEF KemSize, Located, Places, Terminal
<1>8. CASE KemRun
  BY <1>8, PlacesLocated, ProceedGoes, GoesOnRoute DEF KemRun, Located, Places, Terminal
<1>9. CASE Derive
  BY <1>9, PlacesLocated, ProceedGoes, GoesOnRoute
  DEF Derive, Located, Places, Terminal, Fail, Return
<1>10. CASE Publics
  BY <1>10, PlacesLocated, ProceedGoes, GoesOnRoute DEF Publics, Located, Places, Terminal
<1>11. CASE Hkdf
  BY <1>11 DEF Hkdf, Return, Places, Terminal
<1>12. CASE Fails
  BY <1>12 DEF Fails, Fail, Return, Places, Terminal
<1>13. CASE UNCHANGED vars
  BY <1>13 DEF vars, Places
<1>14. QED BY <1>1, <1>2, <1>3, <1>4, <1>5, <1>6, <1>7, <1>8, <1>9, <1>10, <1>11, <1>12,
  <1>13
  DEF Next, Encapsulate, Decapsulate, Ended

\* A buffer of the hybrid scheme keeps wiping itself, whatever is done with it.
LEMMA BuffersWipeStep ==
    Parties /\ Places /\ BuffersWipe /\ KemHeld /\ AgreedHeld /\ [Next]_vars
      => BuffersWipe'
<1> SUFFICES ASSUME Parties, Places, BuffersWipe, KemHeld, AgreedHeld, [Next]_vars
             PROVE  BuffersWipe'
  OBVIOUS
<1> USE DEF Secret
<1>1. CASE Generate
  BY <1>1, ProceedGoes DEF Generate, Goes, BuffersWipe
<1>2. CASE Encode
  BY <1>2, ProceedGoes DEF Encode, Goes, BuffersWipe
<1>3. CASE Deliver
  BY <1>3 DEF Deliver, BuffersWipe
<1>4. CASE Check
  BY <1>4, ProceedGoes DEF Check, Goes, BuffersWipe, Fail, Return
<1>5. CASE Import
  BY <1>5, ProceedGoes DEF Import, Goes, BuffersWipe, Fail, Return
<1>6. CASE KemInit
  BY <1>6, ProceedGoes DEF KemInit, Goes, BuffersWipe
<1>7. CASE KemSize
  <2>1. PICK excess \in 0 .. MaxExcess :
          secret' = [secret EXCEPT !["kem"] = Buffer(Zeros, SecretSize + excess, TRUE)]
    BY <1>7 DEF KemSize
  <2> DEFINE b == Buffer(Zeros, SecretSize + excess, TRUE)
  <2>2. IsBuffer(b) /\ b.wiping = TRUE
    <3>1. SecretSize + excess \in Nat
      BY Sizes
    <3>2. QED BY <3>1, BufferIs
  <2>3. scheme' = scheme
    BY <1>7, ProceedGoes DEF KemSize, Goes
  <2> HIDE DEF b
  <2>4. QED BY <2>1, <2>2, <2>3, SecretPut DEF b
<1>8. CASE KemRun
  <2>1. PICK v : secret' = [secret EXCEPT !["kem"] = Filled(@, v, SecretSize)]
    BY <1>8 DEF KemRun
  <2> DEFINE b == Filled(secret["kem"], v, SecretSize)
  <2>2. IsBuffer(b) /\ b.wiping = TRUE
    BY <1>8, FilledIs, Sizes DEF KemRun, KemHeld
  <2>3. scheme' = scheme /\ secret' = [secret EXCEPT !["kem"] = b]
    BY <1>8, <2>1, ProceedGoes DEF KemRun, Goes
  <2> HIDE DEF b
  <2>4. QED BY <2>2, <2>3, SecretPut
<1>9. CASE Derive
  <2>1. CASE AgreedSecret(Points) = Zeros
    BY <1>9, <2>1 DEF Derive, Fail, Return, BuffersWipe
  <2>2. CASE AgreedSecret(Points) # Zeros
    <3> DEFINE b == Buffer(AgreedSecret(Points), SecretSize, scheme = "hybrid")
    <3>1. IsBuffer(b) /\ (scheme = "hybrid" => b.wiping = TRUE)
      <4>1. SecretSize \in Nat
        BY Sizes
      <4>2. IsBuffer(b) /\ b.wiping = (scheme = "hybrid")
        BY <4>1, BufferIs
      <4> HIDE DEF b
      <4>3. QED BY <4>2
    <3>2. scheme' = scheme /\ secret' = [secret EXCEPT !["x25519"] = b]
      BY <1>9, <2>2, ProceedGoes DEF Derive, Goes
    <3> HIDE DEF b
    <3>3. QED BY <3>1, <3>2, SecretPut
  <2>3. QED BY <2>1, <2>2
<1>10. CASE Publics
  <2>1. CASE scheme = "hybrid"
    <3>1. PICK v : secret' = [secret EXCEPT !["input"] =
                                Buffer(v, secret["kem"].length + secret["x25519"].length, TRUE)]
      BY <1>10, <2>1 DEF Publics
    <3> DEFINE n == secret["kem"].length + secret["x25519"].length
               b == Buffer(v, n, TRUE)
    <3>2. n \in Nat
      BY <1>10, <2>1, Sizes DEF Publics, KemHeld, AgreedHeld, Contents, KemNow, AgreedNow, KemOf, AgreedOf
    <3>3. IsBuffer(b) /\ b.wiping = TRUE
      BY <3>2, BufferIs
    <3>4. scheme' = scheme /\ secret' = [secret EXCEPT !["input"] = b]
      BY <1>10, <3>1, ProceedGoes DEF Publics, Goes
    <3> HIDE DEF b
    <3>5. QED BY <3>3, <3>4, SecretPut
  <2>2. CASE scheme # "hybrid"
    BY <1>10, <2>2, ProceedGoes DEF Publics, Goes, BuffersWipe
  <2>3. QED BY <2>1, <2>2
<1>11. CASE Hkdf
  BY <1>11 DEF Hkdf, Return, BuffersWipe
<1>12. CASE Fails
  BY <1>12 DEF Fails, Fail, Return, BuffersWipe
<1>13. CASE UNCHANGED vars
  BY <1>13 DEF vars, BuffersWipe
<1>14. QED BY <1>1, <1>2, <1>3, <1>4, <1>5, <1>6, <1>7, <1>8, <1>9, <1>10, <1>11, <1>12,
  <1>13
  DEF Next, Encapsulate, Decapsulate, Ended

\* The sender's material is made of what the KEM gave it.
LEMMA MaterialIsStep ==
    Parties /\ Places /\ KemHeld /\ MaterialIs /\ [Next]_vars => MaterialIs'
<1> SUFFICES ASSUME Parties, Places, KemHeld, MaterialIs, [Next]_vars
             PROVE  MaterialIs'
  OBVIOUS
<1> USE DEF MaterialIs
<1>1. CASE Generate
  BY <1>1, ProceedKeeps DEF Generate, Goes, Leads, Located, Kept
<1>2. CASE Encode
  <2>1. Goes /\ Located /\ Kept
    BY <1>2, ProceedKeeps DEF Encode
  <2>2. scheme = "hybrid" =>
          ciphertext.value = SentMaterial.ciphertext /\ ciphertext.length = CiphertextSize
    BY <1>2, <2>1 DEF Encode, KemHeld, Located
  <2>3. material' = SentMaterial
    <3>1. CASE scheme = "hybrid"
      <4>1. ciphertext.value = SentMaterial.ciphertext /\ ciphertext.length = CiphertextSize
        BY <2>2, <3>1
      <4>2. material' = [ciphertext |-> SentMaterial.ciphertext,
                         ephemeral |-> [point |-> "ephemeral", encoding |-> 1],
                         length |-> PublicKeySize + CiphertextSize]
        BY <1>2, <3>1, <4>1 DEF Encode
      <4>3. KeyMaterialSize = PublicKeySize + CiphertextSize
        BY <3>1, Sizes DEF KeyMaterialSize
      <4>4. QED BY <4>2, <4>3 DEF SentMaterial
    <3>2. CASE scheme = "x25519"
      BY <1>2, <3>2, Sizes DEF Encode, SentMaterial, KeyMaterialSize
    <3>3. QED BY <2>1, <3>1, <3>2 DEF Located
  <2>4. QED BY <1>2, <2>1, <2>3 DEF Encode, Located, Goes, Kept
<1>3. CASE Deliver
  BY <1>3, StoredTyped DEF Deliver, Role
<1>4. CASE Check
  BY <1>4, ProceedKeeps, UsesKept DEF Check, Goes, Leads, Located, Kept, Fail, Return
<1>5. CASE Import
  BY <1>5, ProceedKeeps, UsesKept DEF Import, Goes, Leads, Located, Kept, Fail, Return
<1>6. CASE KemInit
  BY <1>6, ProceedKeeps DEF KemInit, Goes, Leads, Located, Kept
<1>7. CASE KemSize
  BY <1>7, ProceedKeeps DEF KemSize, Goes, Leads, Located, Kept
<1>8. CASE KemRun
  BY <1>8, ProceedKeeps DEF KemRun, Goes, Leads, Located, Kept
<1>9. CASE Derive
  BY <1>9, ProceedKeeps, UsesKept DEF Derive, Goes, Leads, Located, Kept, Fail, Return
<1>10. CASE Publics
  BY <1>10, ProceedKeeps DEF Publics, Goes, Leads, Located, Kept
<1>11. CASE Hkdf
  BY <1>11, UsesKept DEF Hkdf, Return, Kept
<1>12. CASE Fails
  BY <1>12, UsesKept DEF Fails, Fail, Return, Kept
<1>13. CASE UNCHANGED vars
  BY <1>13 DEF vars, SentMaterial, KeyMaterialSize
<1>14. QED BY <1>1, <1>2, <1>3, <1>4, <1>5, <1>6, <1>7, <1>8, <1>9, <1>10, <1>11, <1>12,
  <1>13
  DEF Next, Encapsulate, Decapsulate, Ended

\* What the KEM filled stays as it is until the data key is derived.
LEMMA KemHeldStep ==
    Parties /\ Places /\ BuffersWipe /\ KemHeld /\ MaterialIs /\ [Next]_vars => KemHeld'
<1> SUFFICES ASSUME Parties, Places, BuffersWipe, KemHeld, MaterialIs, [Next]_vars
             PROVE  KemHeld'
  OBVIOUS
<1> USE DEF KemHeld, Contents
<1>1. CASE Generate
  BY <1>1, ProceedKeeps DEF Generate, Goes, Leads, Located, Kept
<1>2. CASE Encode
  BY <1>2, ProceedKeeps DEF Encode, Goes, Leads, Located, Kept
<1>3. CASE Deliver
  BY <1>3, RoutesStart DEF Deliver, Parties, Role
<1>4. CASE Check
  BY <1>4, ProceedKeeps DEF Check, Goes, Leads, Located, Kept, Fail, Return
<1>5. CASE Import
  BY <1>5, ProceedKeeps DEF Import, Goes, Leads, Located, Kept, Fail, Return
<1>6. CASE KemInit
  BY <1>6, ProceedKeeps DEF KemInit, Goes, Leads, Located, Kept
<1>7. CASE KemSize
  <2>1. Goes /\ Located /\ Kept
    BY <1>7, ProceedKeeps DEF KemSize
  <2>2. pc' = "kemRun" /\ scheme' = scheme /\ role' = role
    BY <1>7, <2>1 DEF KemSize, Goes, Leads, Located
  <2>3. PICK excess \in 0 .. MaxExcess :
          secret' = [secret EXCEPT !["kem"] = Buffer(Zeros, SecretSize + excess, TRUE)]
    BY <1>7 DEF KemSize
  <2> DEFINE b == Buffer(Zeros, SecretSize + excess, TRUE)
  <2>4. IsBuffer(b) /\ b.wiping = TRUE /\ b.capacity >= SecretSize
    <3> DEFINE n == SecretSize + excess
    <3>1. n \in Nat /\ n >= SecretSize
      BY Sizes
    <3> HIDE DEF n
    <3>2. IsBuffer(Buffer(Zeros, n, TRUE))
      BY <3>1, BufferIs
    <3>3. Buffer(Zeros, n, TRUE).wiping = TRUE /\ Buffer(Zeros, n, TRUE).capacity = n
      BY DEF Buffer
    <3>4. QED BY <3>1, <3>2, <3>3 DEF n
  <2>5. secret'["kem"] = b
    BY <2>3 DEF BuffersWipe, Secret
  <2>6. role = "sender" => IsBuffer(ciphertext') /\ ciphertext'.capacity >= CiphertextSize
    <3>1. SUFFICES ASSUME role = "sender", NEW more \in 0 .. MaxExcess,
                          ciphertext' = Buffer(Zeros, CiphertextSize + more, FALSE)
                   PROVE  IsBuffer(ciphertext') /\ ciphertext'.capacity >= CiphertextSize
      BY <1>7 DEF KemSize
    <3> DEFINE n == CiphertextSize + more
    <3>2. n \in Nat /\ n >= CiphertextSize
      BY Sizes
    <3> HIDE DEF n
    <3>3. IsBuffer(Buffer(Zeros, n, FALSE))
      BY <3>2, BufferIs
    <3>4. Buffer(Zeros, n, FALSE).capacity = n
      BY DEF Buffer
    <3>5. QED BY <3>1, <3>2, <3>3, <3>4 DEF n
  <2> HIDE DEF b
  <2>7. /\ IsBuffer(secret'["kem"]) /\ secret'["kem"].wiping = TRUE
        /\ secret'["kem"].capacity >= SecretSize
    BY <2>4, <2>5
  <2>8. QED BY <2>2, <2>6, <2>7 DEF IsBuffer
<1>8. CASE KemRun
  <2>1. Goes /\ Located /\ Kept
    BY <1>8, ProceedKeeps DEF KemRun
  <2>2. pc' \in {"generate", "derive"} /\ scheme' = scheme /\ role' = role
    BY <1>8, <2>1 DEF KemRun, Goes, Leads, Located
  <2> DEFINE text == IF role = "sender" THEN [to |-> recipient.mlKem, changed |-> FALSE]
                                        ELSE material.ciphertext
             b == Filled(secret["kem"], KemSecret(text, Keyring.mlKem), SecretSize)
  <2>3. scheme = "hybrid" /\ text = Used.ciphertext
    BY <1>8, <2>1 DEF KemRun, Located, Used, SentMaterial
  <2>4. secret'["kem"] = b
    BY <1>8, <2>1 DEF KemRun, Keyring, Located, BuffersWipe, Secret
  <2>5. Contents(b) = <<KemSecret(text, Keyring.mlKem), SecretSize>>
    BY <1>8, FilledIs, Sizes DEF KemRun
  <2>6. Contents(secret["kem"])' = KemNow'
    BY <2>1, <2>3, <2>4, <2>5 DEF Kept, KemNow, KemOf, Contents
  <2>7. role = "sender" => /\ ciphertext'.value = SentMaterial.ciphertext
                           /\ ciphertext'.length = CiphertextSize
    <3>1. SUFFICES ASSUME role = "sender"
                   PROVE  /\ ciphertext'.value = SentMaterial.ciphertext
                          /\ ciphertext'.length = CiphertextSize
      OBVIOUS
    <3>2. ciphertext' = Filled(ciphertext, SentMaterial.ciphertext, CiphertextSize)
      BY <1>8, <2>3, <3>1 DEF KemRun, SentMaterial
    <3>3. QED BY <1>8, <3>1, <3>2, FilledIs, Sizes DEF KemRun
  <2>8. QED BY <2>1, <2>2, <2>6, <2>7 DEF Kept
<1>9. CASE Derive
  <2>1. CASE AgreedSecret(Points) = Zeros
    BY <1>9, <2>1 DEF Derive, Fail, Return
  <2>2. CASE AgreedSecret(Points) # Zeros
    <3>1. Goes /\ Located /\ Kept
      BY <1>9, <2>2, ProceedKeeps DEF Derive
    <3>2. secret'["kem"] = secret["kem"]
      BY <1>9, <2>2 DEF Derive, BuffersWipe, Secret
    <3>3. QED BY <1>9, <2>2, <3>1, <3>2 DEF Derive, Goes, Leads, Located, Kept
  <2>3. QED BY <2>1, <2>2
<1>10. CASE Publics
  <2>1. Goes /\ Located /\ Kept
    BY <1>10, ProceedKeeps DEF Publics
  <2>2. secret'["kem"] = secret["kem"]
    BY <1>10 DEF Publics, BuffersWipe, Secret
  <2>3. QED BY <1>10, <2>1, <2>2 DEF Publics, Goes, Leads, Located, Kept
<1>11. CASE Hkdf
  BY <1>11 DEF Hkdf, Return, Terminal
<1>12. CASE Fails
  BY <1>12 DEF Fails, Fail, Return
<1>13. CASE UNCHANGED vars
  BY <1>13 DEF vars, KemNow, AgreedNow, InputNow, PointsNow, Used, Keyring,
         SentMaterial, KeyMaterialSize
<1>14. QED BY <1>1, <1>2, <1>3, <1>4, <1>5, <1>6, <1>7, <1>8, <1>9, <1>10, <1>11, <1>12,
  <1>13
  DEF Next, Encapsulate, Decapsulate, Ended

\* What was agreed on is not zeros, and stays until the data key is derived.
LEMMA AgreedHeldStep ==
    Parties /\ Places /\ BuffersWipe /\ AgreedHeld /\ MaterialIs /\ [Next]_vars
      => AgreedHeld'
<1> SUFFICES ASSUME Parties, Places, BuffersWipe, AgreedHeld, MaterialIs, [Next]_vars
             PROVE  AgreedHeld'
  OBVIOUS
<1> USE DEF AgreedHeld, Contents
<1>1. CASE Generate
  BY <1>1, ProceedKeeps DEF Generate, Goes, Leads, Located, Kept
<1>2. CASE Encode
  BY <1>2, ProceedKeeps DEF Encode, Goes, Leads, Located, Kept
<1>3. CASE Deliver
  BY <1>3, RoutesStart DEF Deliver, Parties, Role
<1>4. CASE Check
  BY <1>4, ProceedKeeps DEF Check, Goes, Leads, Located, Kept, Fail, Return
<1>5. CASE Import
  BY <1>5, ProceedKeeps DEF Import, Goes, Leads, Located, Kept, Fail, Return
<1>6. CASE KemInit
  BY <1>6, ProceedKeeps DEF KemInit, Goes, Leads, Located, Kept
<1>7. CASE KemSize
  BY <1>7, ProceedKeeps DEF KemSize, Goes, Leads, Located, Kept
<1>8. CASE KemRun
  BY <1>8, ProceedKeeps DEF KemRun, Goes, Leads, Located, Kept
<1>9. CASE Derive
  <2>1. CASE AgreedSecret(Points) = Zeros
    BY <1>9, <2>1 DEF Derive, Fail, Return
  <2>2. CASE AgreedSecret(Points) # Zeros
    <3>1. Goes /\ Located /\ Kept
      BY <1>9, <2>2, ProceedKeeps DEF Derive
    <3>2. AgreedNow = <<AgreedSecret(Points), SecretSize>> /\ LowOrder \notin PointsNow
      BY <2>2, PointsAre DEF AgreedNow, AgreedOf, PointsNow, AgreedSecret
    <3> DEFINE b == Buffer(AgreedSecret(Points), SecretSize, scheme = "hybrid")
    <3>3. secret'["x25519"] = b
      BY <1>9, <2>2 DEF Derive, BuffersWipe, Secret
    <3>4. Contents(b) = <<AgreedSecret(Points), SecretSize>>
      BY BufferIs, Sizes
    <3> HIDE DEF b
    <3>5. Contents(secret["x25519"])' = AgreedNow' /\ (LowOrder \notin PointsNow)'
      BY <3>1, <3>2, <3>3, <3>4 DEF Kept, Contents
    <3>6. QED BY <3>5
  <2>3. QED BY <2>1, <2>2
<1>10. CASE Publics
  <2>1. Goes /\ Located /\ Kept
    BY <1>10, ProceedKeeps DEF Publics
  <2>2. secret'["x25519"] = secret["x25519"]
    BY <1>10 DEF Publics, BuffersWipe, Secret
  <2>3. QED BY <1>10, <2>1, <2>2 DEF Publics, Goes, Leads, Located, Kept
<1>11. CASE Hkdf
  BY <1>11 DEF Hkdf, Return
<1>12. CASE Fails
  BY <1>12 DEF Fails, Fail, Return
<1>13. CASE UNCHANGED vars
  BY <1>13 DEF vars, KemNow, AgreedNow, InputNow, PointsNow, Used, Keyring,
         SentMaterial, KeyMaterialSize
<1>14. QED BY <1>1, <1>2, <1>3, <1>4, <1>5, <1>6, <1>7, <1>8, <1>9, <1>10, <1>11, <1>12,
  <1>13
  DEF Next, Encapsulate, Decapsulate, Ended

\* The input of HKDF is both secrets, at their sizes.
LEMMA InputHeldStep ==
    Parties /\ Places /\ BuffersWipe /\ KemHeld /\ AgreedHeld /\ InputHeld /\ [Next]_vars
      => InputHeld'
<1> SUFFICES ASSUME Parties, Places, BuffersWipe, KemHeld, AgreedHeld, InputHeld,
                   [Next]_vars
             PROVE  InputHeld'
  OBVIOUS
<1> USE DEF InputHeld, Contents
<1>1. CASE Generate
  BY <1>1, ProceedKeeps DEF Generate, Goes, Leads, Located, Kept
<1>2. CASE Encode
  BY <1>2, ProceedKeeps DEF Encode, Goes, Leads, Located, Kept
<1>3. CASE Deliver
  BY <1>3, RoutesStart DEF Deliver, Parties, Role
<1>4. CASE Check
  BY <1>4, ProceedKeeps DEF Check, Goes, Leads, Located, Kept, Fail, Return
<1>5. CASE Import
  BY <1>5, ProceedKeeps DEF Import, Goes, Leads, Located, Kept, Fail, Return
<1>6. CASE KemInit
  BY <1>6, ProceedKeeps DEF KemInit, Goes, Leads, Located, Kept
<1>7. CASE KemSize
  BY <1>7, ProceedKeeps DEF KemSize, Goes, Leads, Located, Kept
<1>8. CASE KemRun
  BY <1>8, ProceedKeeps DEF KemRun, Goes, Leads, Located, Kept
<1>9. CASE Derive
  BY <1>9, ProceedKeeps DEF Derive, Goes, Leads, Located, Kept, Fail, Return
<1>10. CASE Publics
  <2>1. Goes /\ Located /\ Kept
    BY <1>10, ProceedKeeps DEF Publics
  <2>2. CASE scheme = "hybrid"
    <3> DEFINE v == [of |-> "input",
                     secrets |-> <<Contents(secret["kem"]), Contents(secret["x25519"])>>]
               n == secret["kem"].length + secret["x25519"].length
    <3>1. Contents(secret["kem"]) = KemNow /\ Contents(secret["x25519"]) = AgreedNow
      BY <1>10, <2>2 DEF Publics, KemHeld, AgreedHeld
    <3>2. n = SecretSize + SecretSize
      BY <3>1 DEF KemNow, AgreedNow, KemOf, AgreedOf, Contents
    <3>3. InputNow = <<v, n>>
      BY <3>1, <3>2 DEF InputNow, InputOf, KemNow, AgreedNow
    <3>4. secret'["input"] = Buffer(v, n, TRUE)
      BY <1>10, <2>2 DEF Publics, BuffersWipe, Secret
    <3>5. n \in Nat
      BY <3>2, Sizes
    <3> HIDE DEF v, n
    <3>6. Contents(Buffer(v, n, TRUE)) = <<v, n>>
      BY <3>5 DEF Buffer
    <3>7. Contents(secret["input"])' = InputNow'
      BY <2>1, <3>3, <3>4, <3>6 DEF Kept, Contents
    <3>8. QED BY <3>7
  <2>3. CASE scheme # "hybrid"
    BY <1>10, <2>1, <2>3 DEF Publics, Goes
  <2>4. QED BY <2>2, <2>3
<1>11. CASE Hkdf
  BY <1>11 DEF Hkdf, Return
<1>12. CASE Fails
  BY <1>12 DEF Fails, Fail, Return
<1>13. CASE UNCHANGED vars
  BY <1>13 DEF vars, KemNow, AgreedNow, InputNow, PointsNow, Used, Keyring,
         SentMaterial, KeyMaterialSize
<1>14. QED BY <1>1, <1>2, <1>3, <1>4, <1>5, <1>6, <1>7, <1>8, <1>9, <1>10, <1>11, <1>12,
  <1>13
  DEF Next, Encapsulate, Decapsulate, Ended

\* A role's data key is derived from what it uses, at the end of its call.
LEMMA DerivedFromStep ==
    Parties /\ Places /\ BuffersWipe /\ AgreedHeld /\ InputHeld /\ MaterialIs /\ DerivedFrom /\ ErrorsFit /\ [Next]_vars
      => DerivedFrom'
<1> SUFFICES ASSUME Parties, Places, BuffersWipe, AgreedHeld, InputHeld, MaterialIs,
                   DerivedFrom, ErrorsFit, [Next]_vars
             PROVE  DerivedFrom'
  OBVIOUS
<1> USE DEF DerivedFrom
<1>1. CASE Generate
  BY <1>1, KeysKept, ProceedKeeps DEF Generate, Goes, Leads, Located, Kept
<1>2. CASE Encode
  BY <1>2, KeysKept, ProceedKeeps DEF Encode, Goes, Leads, Located, Kept
<1>3. CASE Deliver
  BY <1>3, KeysKept, RoutesStart DEF Deliver, Parties, Role
<1>4. CASE Check
  BY <1>4, KeysKept, ProceedKeeps DEF Check, Goes, Leads, Located, Kept, Fail, Return
<1>5. CASE Import
  BY <1>5, KeysKept, ProceedKeeps DEF Import, Goes, Leads, Located, Kept, Fail, Return
<1>6. CASE KemInit
  BY <1>6, KeysKept, ProceedKeeps DEF KemInit, Goes, Leads, Located, Kept
<1>7. CASE KemSize
  BY <1>7, KeysKept, ProceedKeeps DEF KemSize, Goes, Leads, Located, Kept
<1>8. CASE KemRun
  BY <1>8, KeysKept, ProceedKeeps DEF KemRun, Goes, Leads, Located, Kept
<1>9. CASE Derive
  BY <1>9, KeysKept, ProceedKeeps DEF Derive, Goes, Leads, Located, Kept, Fail, Return
<1>10. CASE Publics
  BY <1>10, KeysKept, ProceedKeeps DEF Publics, Goes, Leads, Located, Kept
<1>11. CASE Hkdf
  BY <1>11, KeysKept, HkdfDerives DEF Hkdf, Return, Role, Parties
<1>12. CASE Fails
  BY <1>12, KeysKept, RouteNotEnded DEF Fails, Fail, Return, Terminal
<1>13. CASE UNCHANGED vars
  BY <1>13, KeysKept DEF vars
<1>14. QED BY <1>1, <1>2, <1>3, <1>4, <1>5, <1>6, <1>7, <1>8, <1>9, <1>10, <1>11, <1>12,
  <1>13
  DEF Next, Encapsulate, Decapsulate, Ended

\* Only a failed call fails on the sender's material, with the matching keys.
LEMMA ErrorsFitStep ==
    Parties /\ Places /\ MaterialIs /\ DerivedFrom /\ ErrorsFit /\ [Next]_vars
      => ErrorsFit'
<1> SUFFICES ASSUME Parties, Places, MaterialIs, DerivedFrom, ErrorsFit, [Next]_vars
             PROVE  ErrorsFit'
  OBVIOUS
<1> USE DEF ErrorsFit, Error
<1>1. CASE Generate
  BY <1>1, ProceedKeeps DEF Generate, Goes, Leads, Located, Kept, Matches
<1>2. CASE Encode
  BY <1>2, ProceedKeeps DEF Encode, Goes, Leads, Located, Kept, Matches
<1>3. CASE Deliver
  BY <1>3 DEF Deliver, Matches
<1>4. CASE Check
  BY <1>4, ProceedKeeps, SentAccepted
  DEF Check, Goes, Leads, Located, Kept, Matches, Fail, Return
<1>5. CASE Import
  BY <1>5, ProceedKeeps, SentAccepted
  DEF Import, Goes, Leads, Located, Kept, Matches, Fail, Return
<1>6. CASE KemInit
  BY <1>6, ProceedKeeps DEF KemInit, Goes, Leads, Located, Kept, Matches
<1>7. CASE KemSize
  BY <1>7, ProceedKeeps DEF KemSize, Goes, Leads, Located, Kept, Matches
<1>8. CASE KemRun
  BY <1>8, ProceedKeeps DEF KemRun, Goes, Leads, Located, Kept, Matches
<1>9. CASE Derive
  BY <1>9, ProceedKeeps, SentAccepted
  DEF Derive, Goes, Leads, Located, Kept, Matches, Fail, Return
<1>10. CASE Publics
  BY <1>10, ProceedKeeps DEF Publics, Goes, Leads, Located, Kept, Matches
<1>11. CASE Hkdf
  BY <1>11 DEF Hkdf, Return
<1>12. CASE Fails
  BY <1>12 DEF Fails, Fail, Return, Matches
<1>13. CASE UNCHANGED vars
  BY <1>13 DEF vars, Matches
<1>14. QED BY <1>1, <1>2, <1>3, <1>4, <1>5, <1>6, <1>7, <1>8, <1>9, <1>10, <1>11, <1>12,
  <1>13
  DEF Next, Encapsulate, Decapsulate, Ended

\* Whatever a call of the hybrid scheme drops is overwritten to its capacity.
LEMMA SecretsWipedStep ==
    Parties /\ BuffersWipe /\ SecretsWiped /\ [Next]_vars => SecretsWiped'
<1> SUFFICES ASSUME Parties, BuffersWipe, SecretsWiped, [Next]_vars
             PROVE  SecretsWiped'
  OBVIOUS
<1> USE DEF SecretsWiped, Parties
<1>1. CASE Generate
  BY <1>1, ProceedGoes DEF Generate, Goes
<1>2. CASE Encode
  BY <1>2, ProceedGoes DEF Encode, Goes
<1>3. CASE Deliver
  BY <1>3 DEF Deliver
<1>4. CASE Check
  BY <1>4, ProceedGoes, ReturnWipes DEF Check, Goes, Fail, Return
<1>5. CASE Import
  BY <1>5, ProceedGoes, ReturnWipes DEF Import, Goes, Fail, Return
<1>6. CASE KemInit
  BY <1>6, ProceedGoes DEF KemInit, Goes
<1>7. CASE KemSize
  BY <1>7, ProceedGoes DEF KemSize, Goes
<1>8. CASE KemRun
  BY <1>8, ProceedGoes DEF KemRun, Goes
<1>9. CASE Derive
  BY <1>9, ProceedGoes, ReturnWipes DEF Derive, Goes, Fail, Return
<1>10. CASE Publics
  BY <1>10, ProceedGoes DEF Publics, Goes
<1>11. CASE Hkdf
  BY <1>11, ReturnWipes DEF Hkdf, Return
<1>12. CASE Fails
  BY <1>12, ReturnWipes DEF Fails, Fail, Return
<1>13. CASE UNCHANGED vars
  BY <1>13 DEF vars
<1>14. QED BY <1>1, <1>2, <1>3, <1>4, <1>5, <1>6, <1>7, <1>8, <1>9, <1>10, <1>11, <1>12,
  <1>13
  DEF Next, Encapsulate, Decapsulate, Ended


-----------------------------------------------------------------------------
(* Theorems.                                                               *)

LEMMA InitInvariant == Init => IInv
<1> SUFFICES ASSUME Init PROVE IInv
  OBVIOUS
<1>1. Parties
  BY DEF Init, Parties, Role
<1>2. pc \in Range(Route(scheme, role)) /\ pc \in {"generate", "kemInit"} /\ pc \notin Terminal
  BY <1>1, RoutesStart, RouteNotEnded DEF Init, Parties
<1>3. Places
  BY <1>2 DEF Places
<1>4. BuffersWipe
  BY DEF Init, BuffersWipe
<1>5. KemHeld /\ AgreedHeld /\ InputHeld
  <2>1. scheme = "hybrid" => pc = "kemInit"
    BY RoutesStart DEF Init, Role
  <2>2. QED BY <1>2, <2>1 DEF KemHeld, AgreedHeld, InputHeld
<1>6. MaterialIs
  BY <1>2 DEF Init, MaterialIs
<1>7. DerivedFrom
  BY <1>2 DEF Init, DerivedFrom, Role
<1>8. ErrorsFit
  BY <1>2 DEF Init, ErrorsFit, Error
<1>9. SecretsWiped
  BY DEF Init, SecretsWiped
<1>10. QED BY <1>1, <1>3, <1>4, <1>5, <1>6, <1>7, <1>8, <1>9 DEF IInv

LEMMA NextInvariant == IInv /\ [Next]_vars => IInv'
<1> SUFFICES ASSUME IInv, [Next]_vars PROVE IInv'
  OBVIOUS
<1>1. /\ Parties /\ Places /\ BuffersWipe /\ KemHeld /\ AgreedHeld /\ InputHeld /\ MaterialIs
      /\ DerivedFrom /\ ErrorsFit /\ SecretsWiped
  BY DEF IInv
<1>2. Parties' /\ Places' /\ BuffersWipe' /\ KemHeld'
  BY <1>1, PartiesStep, PlacesStep, BuffersWipeStep, KemHeldStep
<1>3. AgreedHeld' /\ InputHeld' /\ MaterialIs'
  BY <1>1, AgreedHeldStep, InputHeldStep, MaterialIsStep
<1>4. DerivedFrom' /\ ErrorsFit' /\ SecretsWiped'
  BY <1>1, DerivedFromStep, ErrorsFitStep, SecretsWipedStep
<1>5. QED BY <1>2, <1>3, <1>4 DEF IInv

\* In every reachable state the buffers hold what the place in the code says they do
\* (encapsulate and decapsulate of x25519.rs and x25519_mlkem768.rs).
THEOREM Inductive == Spec => []IInv
  BY InitInvariant, NextInvariant, PTL DEF Spec

\* Types; no secret stays in a buffer behind a return; the sender's material has the
\* size that decapsulate asks for, whatever sizes openssl was asked for (kem.rs,
\* truncate).
THEOREM TypeCorrect == Spec => []TypeOK
<1>1. IInv => TypeOK
  <2> SUFFICES ASSUME IInv PROVE TypeOK
    OBVIOUS
  <2> USE DEF IInv
  <2>1. /\ scheme \in {"x25519", "hybrid"} /\ recipient \in Keys /\ holder \in Keys
        /\ role \in Role
    BY DEF Parties
  <2>2. pc \in Range(Route(scheme, role)) \cup Terminal
    BY DEF Places
  <2>3. \A s \in Secret : secret[s] # None =>
          secret[s].length <= secret[s].capacity /\ pc \notin Terminal
    BY DEF BuffersWipe, Places, IsBuffer
  <2>4. material \in Material \cup {None}
    BY <2>1, SentTyped DEF MaterialIs, Role, Parties
  <2>5. material # None /\ role = "sender" => material.length = KeyMaterialSize
    BY DEF MaterialIs, SentMaterial
  <2>6. IF sent = None THEN dataKey["sender"] = None ELSE dataKey["sender"].info.material = sent
    <3>1. CASE role = "sender" /\ pc # "ok"
      BY <3>1 DEF DerivedFrom
    <3>2. CASE role = "receiver" \/ pc = "ok"
      <4>1. sent = SentMaterial /\ dataKey["sender"].info.material = SentMaterial
        BY <3>2 DEF DerivedFrom, SentKey, Derived
      <4>2. sent # None
        BY <4>1, SentTyped, NoneAssumption
      <4>3. QED BY <4>1, <4>2
    <3>3. QED BY <2>1, <3>1, <3>2 DEF Role
  <2>7. error \in Error
    BY DEF ErrorsFit
  <2>8. QED BY <2>1, <2>2, <2>3, <2>4, <2>5, <2>6, <2>7 DEF TypeOK
<1>2. QED BY <1>1, Inductive, PTL

\* Two roles derive the same data key from nothing but the same material and the same
\* keys: the info of HKDF holds both.
LEMMA DerivedTells ==
    ASSUME Parties
    PROVE  ReceivedKey = SentKey <=> material = SentMaterial /\ Matches
<1>1. ASSUME ReceivedKey = SentKey PROVE material = SentMaterial /\ Matches
  <2>1. material = SentMaterial /\ PublicKeys(holder) = PublicKeys(recipient)
    BY <1>1 DEF ReceivedKey, SentKey, Derived
  <2>2. Matches
    BY <2>1 DEF PublicKeys, Matches
  <2>3. QED BY <2>1, <2>2
<1>2. ASSUME material = SentMaterial, Matches PROVE ReceivedKey = SentKey
  <2>1. CASE scheme = "hybrid"
    <3>1. holder.mlKem = recipient.mlKem /\ holder.x25519 = recipient.x25519
      BY <1>2, <2>1 DEF Matches
    <3>2. InputOf(material, holder) = InputOf(SentMaterial, recipient)
      BY <1>2, <3>1 DEF InputOf, KemOf, AgreedOf, PointsOf
    <3>3. QED BY <1>2, <2>1, <3>1, <3>2 DEF ReceivedKey, SentKey, Derived, PublicKeys
  <2>2. CASE scheme # "hybrid"
    <3>1. holder.x25519 = recipient.x25519
      BY <1>2 DEF Matches
    <3>2. AgreedOf(material, holder) = AgreedOf(SentMaterial, recipient)
      BY <1>2, <3>1 DEF AgreedOf, PointsOf
    <3>3. QED BY <1>2, <2>2, <3>1, <3>2 DEF ReceivedKey, SentKey, Derived, PublicKeys
  <2>3. QED BY <2>1, <2>2
<1>3. QED BY <1>1, <1>2

\* The recipient derives the sender's data key from the sender's material; nobody
\* derives it without all of the recipient's private keys, nor from material that was
\* changed in any way; and neither side derives any data key with a public key of low
\* order (x25519.rs and x25519_mlkem768.rs, derive_shared_secret and the info of
\* derive_data_key).
THEOREM KeysAgree == Spec => []DataKeysAgree
<1>1. IInv => DataKeysAgree
  <2> SUFFICES ASSUME IInv PROVE DataKeysAgree
    OBVIOUS
  <2>1. recipient.x25519 = LowOrder => dataKey["sender"] = None
    BY DEF IInv, Parties, Role, DerivedFrom, SentPoints, PointsOf
  <2>2. ASSUME role = "receiver"
        PROVE  material = sent /\ Matches => error \in {"none", "Crypto"}
    BY <2>2 DEF IInv, ErrorsFit
  <2>3. ASSUME role = "receiver", pc = "ok"
        PROVE  dataKey["receiver"] = dataKey["sender"] <=> material = sent /\ Matches
    BY <2>3, DerivedTells DEF IInv, DerivedFrom
  <2>4. ASSUME role = "receiver", material.ephemeral.point = LowOrder
        PROVE  dataKey["receiver"] = None
    BY <2>4 DEF IInv, DerivedFrom
  <2>5. QED BY <2>1, <2>2, <2>3, <2>4 DEF DataKeysAgree
<1>2. QED BY <1>1, Inductive, PTL

\* Whatever way encapsulate and decapsulate of the hybrid scheme end, no secret is left
\* in memory that was given back (kem.rs, SecretBytes).
THEOREM SecretsAreWiped == Spec => []SecretsWiped
<1>1. IInv => SecretsWiped
  BY DEF IInv
<1>2. QED BY <1>1, Inductive, PTL

=====
