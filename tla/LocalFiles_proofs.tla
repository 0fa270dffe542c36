-------------------------- MODULE LocalFiles_proofs --------------------------
(***************************************************************************)
(* Proofs about the keystore and the configuration, for any number of runs *)
(* and any settings.  Without a lock all rests on one fact: a rewrite that *)
(* met no other was alone from its look at the file to the close, so that  *)
(* what it found is what it changes, and what it writes is what is left.   *)
(***************************************************************************)
EXTENDS LocalFiles, TLAPS

KBusy(p) == kwork[p].at # "away"
CBusy(p) == cwork[p].at # "away"

(* Who is rewriting which file, and what.                                  *)
Stage ==
  \A p \in Procs :
    /\ KBusy(p) => /\ res[p] = "busy" /\ req[p].cmd \in {"create", "import"}
                   /\ kwork[p].text = p
    /\ CBusy(p) => /\ res[p] = "busy" /\ req[p].cmd \in {"set", "delete"}
                   /\ cwork[p].text \in Settings

(* A rewrite that met no other is alone, and writes to an empty file.      *)
KAlone ==
  \A p \in Procs : KBusy(p) /\ ~kwork[p].met =>
    /\ \A q \in Procs \ {p} : ~KBusy(q)
    /\ kwork[p].at = "open" => keystore = Empty

CAlone ==
  \A p \in Procs : CBusy(p) /\ ~cwork[p].met =>
    /\ \A q \in Procs \ {p} : ~CBusy(q)
    /\ cwork[p].at = "open" => config = Empty

(* Once a key is stored there is a file; whoever set out to rewrite it     *)
(* after that was asked to.                                                *)
StoredIsSeen ==
  \A p \in Procs : res[p] = "stored" =>
    /\ keystore # Absent
    /\ ~kwork[p].met => \A q \in Procs : KBusy(q) => req[q].force

(* As long as no rewrites met and none was torn, each rewrite is the saved *)
(* settings with one changed.                                              *)
RevisesSaved ==
  ~ctorn /\ (\A p \in Procs : ~cwork[p].met) =>
    \A p \in Procs : CBusy(p) =>
      cwork[p].text = [saved EXCEPT ![req[p].name] = cwork[p].text[req[p].name]]

KInv == KAlone /\ StoredIsSeen /\ KeystoreReadable /\ KeyLostOnlyInRace
CInv == CAlone /\ RevisesSaved /\ SavedSettingsStay
FilesInv == Stage /\ KInv /\ CInv

USE FilesAssumption

LEMMA InitInv == FilesInit => FilesInv
<1>. SUFFICES ASSUME FilesInit PROVE FilesInv
  OBVIOUS
<1>. USE DEF FilesInit, K!FileInit, C!FileInit
<1>1. \A p \in Procs : ~KBusy(p) /\ ~CBusy(p) /\ res[p] = "none"
  BY DEF KBusy, CBusy
<1>2. NothingSet \in Settings
  BY DEF NothingSet, Settings
<1>3. Loaded = saved
  BY <1>2 DEF Loaded
<1>4. FilesTypeOK
  <2>1. K!FileTypeOK
    BY DEF K!FileTypeOK, K!Work
  <2>2. C!FileTypeOK
    BY DEF C!FileTypeOK, C!Work
  <2>3. resolved \in [Procs -> 0 .. Len(Order)]
    OBVIOUS
  <2>. QED
    BY <1>2, <2>1, <2>2, <2>3 DEF FilesTypeOK
<1>5. keystore \notin K!Unreadable
  BY DEF K!Unreadable
<1>. QED
  BY <1>1, <1>3, <1>4, <1>5 DEF FilesInv, Stage, KInv, CInv, KAlone, CAlone, StoredIsSeen,
       KeystoreReadable, KeyLostOnlyInRace, RevisesSaved, SavedSettingsStay
-----------------------------------------------------------------------------
(* Steps that leave one of the files alone.                                *)

LEMMA ConfigUntouched ==
  CInv /\ UNCHANGED <<configVars, saved, req>> => CInv'
  BY DEF configVars, CInv, CAlone, RevisesSaved, SavedSettingsStay, CBusy, Loaded

LEMMA KeystoreUntouched ==
  ASSUME KInv, FilesTypeOK', NEW p \in Procs, NEW r, r # "stored",
         res[p] \notin {"stored", "killed"},
         res' = [res EXCEPT ![p] = r] \/ UNCHANGED res,
         UNCHANGED <<keystoreVars, req>>
  PROVE  KInv'
<1>. USE DEF keystoreVars, KInv
<1>1. UNCHANGED <<keystore, kwork, ktorn, req>>
  OBVIOUS
<1>a. FilesTypeOK
  BY DEF KeystoreReadable
<1>2. ASSUME NEW q \in Procs PROVE res'[q] = "stored" => res[q] = "stored"
  BY <1>a DEF FilesTypeOK
<1>3. Forced \subseteq Forced'
  BY <1>1, <1>a DEF Forced, FilesTypeOK
<1>4. KAlone'
  BY <1>1 DEF KAlone, KBusy
<1>5. StoredIsSeen'
  BY <1>1, <1>2 DEF StoredIsSeen, KBusy
<1>6. KeystoreReadable'
  BY <1>1 DEF KeystoreReadable, K!Unreadable
<1>7. KeyLostOnlyInRace'
  BY <1>1, <1>2, <1>3 DEF KeyLostOnlyInRace, HoldsKeyOf
<1>. QED
  BY <1>4, <1>5, <1>6, <1>7

LEMMA LoadedIsSettings == FilesTypeOK => Loaded \in Settings
  BY DEF FilesTypeOK, Loaded, NothingSet, Settings

-----------------------------------------------------------------------------
(* The start of a run.                                                     *)

LEMMA ResolveKeeps ==
  ASSUME FilesInv, NEW p \in Procs, Resolve(p) PROVE FilesInv'
<1>. USE DEF FilesInv, Resolve, End
<1>1. PICK r \in {"raised", "bad_setting"} :
        res' = [res EXCEPT ![p] = r] \/ UNCHANGED res
  BY ONLY Resolve(p) DEF Resolve, End
<1>2. FilesTypeOK
  BY DEF KInv, KeystoreReadable
<1>3. UNCHANGED <<keystore, kwork, ktorn, config, cwork, ctorn, req, saved>>
  BY DEF keystoreVars, configVars
<1>4. FilesTypeOK'
  <2>1. K!FileTypeOK' /\ C!FileTypeOK'
    BY <1>2, <1>3 DEF FilesTypeOK, K!FileTypeOK, C!FileTypeOK
  <2>2. resolved' \in [Procs -> 0 .. Len(Order)]
    BY <1>2 DEF FilesTypeOK
  <2>3. res' \in [Procs -> {"none", "busy", "bad_setting", "wallet_exists", "raised",
                           "not_set", "stored", "saved", "killed"}]
    BY <1>1, <1>2 DEF FilesTypeOK
  <2>. QED
    BY <1>2, <1>3, <2>1, <2>2, <2>3 DEF FilesTypeOK
<1>5. Stage'
  BY <1>1, <1>2, <1>3 DEF Stage, KBusy, CBusy, FilesTypeOK
<1>6. KInv'
  BY <1>1, <1>2, <1>3, <1>4, KeystoreUntouched DEF FilesTypeOK, keystoreVars
<1>7. CInv'
  BY <1>3, ConfigUntouched DEF configVars
<1>. QED
  BY <1>5, <1>6, <1>7
-----------------------------------------------------------------------------
(* The keystore: what each of its steps does to it, and to its invariant.  *)

LEMMA CheckKeystoreKeeps ==
  ASSUME FilesInv, NEW p \in Procs, CheckKeystore(p) PROVE FilesInv'
<1>. USE DEF FilesInv
<1>1. FilesTypeOK /\ Stage
  BY DEF KInv, KeystoreReadable
<1>2. res[p] = "none" /\ req[p].cmd \in {"create", "import"}
  BY DEF CheckKeystore, Runs
<1>3. CInv' /\ UNCHANGED <<config, cwork, ctorn, saved, req, resolved>>
  BY ConfigUntouched DEF CheckKeystore, End, configVars
<1>4. CASE ~MayWrite(p)
  <2>1. End(p, "wallet_exists") /\ UNCHANGED <<keystore, kwork, ktorn>>
    BY <1>4 DEF CheckKeystore, keystoreVars
  <2>2. FilesTypeOK'
    BY <1>1, <1>3, <2>1 DEF FilesTypeOK, K!FileTypeOK, C!FileTypeOK, End
  <2>3. Stage'
    BY <1>1, <1>2, <1>3, <2>1 DEF Stage, KBusy, CBusy, FilesTypeOK, End
  <2>4. KInv'
    BY <1>2, <2>1, <2>2, KeystoreUntouched DEF End, keystoreVars
  <2>. QED
    BY <1>3, <2>3, <2>4
<1>5. CASE MayWrite(p)
  <2>1. K!Prepare(p, p) /\ End(p, "busy")
    BY <1>5 DEF CheckKeystore
  <2>2. /\ UNCHANGED <<keystore, ktorn>>
        /\ res' = [res EXCEPT ![p] = "busy"]
        /\ kwork' \in [Procs -> K!Work]
        /\ kwork'[p].at = "preparing" /\ kwork'[p].text = p
        /\ kwork'[p].met <=> kwork[p].met \/ \E q \in Procs : KBusy(q)
    BY <1>1, <2>1 DEF K!Prepare, K!Busy, K!Work, KBusy, End, FilesTypeOK, K!FileTypeOK
  <2>3. ASSUME NEW q \in Procs, q # p
        PROVE  /\ kwork'[q].at = kwork[q].at /\ kwork'[q].text = kwork[q].text
               /\ kwork'[q].met <=> kwork[q].met \/ KBusy(q)
    BY <1>1, <2>1, <2>3 DEF K!Prepare, K!Busy, K!Work, KBusy, FilesTypeOK, K!FileTypeOK
  <2>4. ~KBusy(p)
    BY <2>1 DEF K!Prepare, KBusy
  <2>5. FilesTypeOK'
    BY <1>1, <1>3, <2>2 DEF FilesTypeOK, K!FileTypeOK, C!FileTypeOK
  <2>6. Stage'
    BY <1>1, <1>2, <1>3, <2>2, <2>3 DEF Stage, KBusy, CBusy, FilesTypeOK
  <2>7. KAlone'
    BY <2>2, <2>3 DEF KInv, KAlone, KBusy
  <2>8. StoredIsSeen'
    BY <1>1, <1>3, <1>5, <2>2, <2>3 DEF KInv, StoredIsSeen, MayWrite, KBusy, FilesTypeOK
  <2>9. KeystoreReadable'
    <3>1. ASSUME NEW q \in Procs, kwork[q].met \/ kwork[q].at = "open"
          PROVE  kwork'[q].met \/ kwork'[q].at = "open"
      BY <2>2, <2>3, <2>4, <3>1 DEF KBusy
    <3>. QED
      BY <2>2, <2>5, <3>1 DEF KInv, KeystoreReadable, K!Unreadable
  <2>10. KeyLostOnlyInRace'
    <3>1. Forced \subseteq Forced'
      BY <1>1, <1>2, <1>3, <2>2, <2>3, <2>4 DEF Forced, FilesTypeOK, KBusy
    <3>2. ASSUME NEW q \in Procs, res'[q] = "stored"
          PROVE  res[q] = "stored" /\ (kwork[q].met => kwork'[q].met)
      BY <1>1, <2>2, <2>3, <3>2 DEF FilesTypeOK
    <3>. QED
      BY <2>2, <3>1, <3>2 DEF KInv, KeyLostOnlyInRace, HoldsKeyOf
  <2>. QED
    BY <1>3, <2>6, <2>7, <2>8, <2>9, <2>10 DEF KInv
<1>. QED
  BY <1>4, <1>5

LEMMA ImportRaisesKeeps ==
  ASSUME FilesInv, NEW p \in Procs, ImportRaises(p) PROVE FilesInv'
<1>. USE DEF FilesInv
<1>1. FilesTypeOK /\ Stage
  BY DEF KInv, KeystoreReadable
<1>2. /\ res[p] = "none" /\ res' = [res EXCEPT ![p] = "raised"]
      /\ UNCHANGED <<keystore, kwork, ktorn, config, cwork, ctorn, saved, req, resolved>>
  BY DEF ImportRaises, Runs, End, keystoreVars, configVars
<1>3. FilesTypeOK'
  BY <1>1, <1>2 DEF FilesTypeOK, K!FileTypeOK, C!FileTypeOK
<1>4. Stage'
  BY <1>1, <1>2 DEF Stage, KBusy, CBusy, FilesTypeOK
<1>5. KInv'
  BY <1>2, <1>3, KeystoreUntouched DEF keystoreVars
<1>6. CInv'
  BY <1>2, ConfigUntouched DEF configVars
<1>. QED
  BY <1>4, <1>5, <1>6
LEMMA OpenKeystoreKeeps ==
  ASSUME FilesInv, NEW p \in Procs, OpenKeystore(p) PROVE FilesInv'
<1>. USE DEF FilesInv
<1>1. FilesTypeOK /\ Stage
  BY DEF KInv, KeystoreReadable
<1>2. /\ kwork[p].at = "preparing" /\ kwork' = [kwork EXCEPT ![p].at = "open"]
      /\ keystore' = Empty
      /\ UNCHANGED <<ktorn, config, cwork, ctorn, saved, req, res, resolved>>
  BY DEF OpenKeystore, K!Truncate, configVars
<1>3. /\ kwork' \in [Procs -> K!Work] /\ kwork'[p].at = "open"
      /\ \A q \in Procs : /\ kwork'[q].met = kwork[q].met /\ kwork'[q].text = kwork[q].text
                          /\ q # p => kwork'[q] = kwork[q]
  BY <1>1, <1>2 DEF FilesTypeOK, K!FileTypeOK, K!Work
<1>4. /\ KBusy(p) /\ res[p] = "busy" /\ req[p].cmd \in {"create", "import"}
      /\ \A q \in Procs : KBusy(q)' <=> KBusy(q)
  BY <1>1, <1>2, <1>3 DEF Stage, KBusy
<1>5. FilesTypeOK'
  BY <1>1, <1>2, <1>3 DEF FilesTypeOK, K!FileTypeOK, C!FileTypeOK
<1>6. Stage'
  BY <1>1, <1>2, <1>3, <1>4 DEF Stage, KBusy, CBusy
<1>7. KAlone'
  BY <1>2, <1>3, <1>4 DEF KInv, KAlone, KBusy
<1>8. StoredIsSeen'
  BY <1>2, <1>3, <1>4 DEF KInv, StoredIsSeen
<1>9. KeystoreReadable'
  BY <1>3, <1>5 DEF KeystoreReadable
<1>10. KeyLostOnlyInRace'
  <2>1. ASSUME NEW q \in Procs, res[q] = "stored", ~kwork[q].met
        PROVE  p \in Forced' \ {q}
    BY <1>2, <1>3, <1>4, <2>1 DEF KInv, StoredIsSeen, Forced
  <2>. QED
    BY <1>2, <1>3, <2>1 DEF KeyLostOnlyInRace
<1>11. CInv'
  BY <1>2, ConfigUntouched DEF configVars
<1>. QED
  BY <1>6, <1>7, <1>8, <1>9, <1>10, <1>11 DEF KInv

(* The end of a rewrite, by its close or an interrupt: the run is out of   *)
(* the way, the others are where they were, and a key stored by one that   *)
(* met nobody is given up to it only if it was asked to overwrite.         *)
LEMMA KeystoreEndKeeps ==
  ASSUME FilesInv, NEW p \in Procs, KBusy(p), NEW r \in {"stored", "killed"}, End(p, r),
         kwork' = [kwork EXCEPT ![p].at = "away"],
         keystore' \in Procs \cup {Absent, Empty, Garbled},
         ktorn' \in BOOLEAN, ktorn => ktorn',
         keystore' = Absent => keystore = Absent /\ r = "killed",
         keystore' \in K!Unreadable =>
           kwork[p].met \/ ktorn' \/ (keystore' = keystore /\ kwork[p].at # "open"),
         r = "stored" => keystore' = p \/ kwork[p].met,
         UNCHANGED <<configVars, saved>>
  PROVE  FilesInv'
<1>. USE DEF FilesInv
<1>1. FilesTypeOK /\ Stage
  BY DEF KInv, KeystoreReadable
<1>2. /\ res' = [res EXCEPT ![p] = r]
      /\ UNCHANGED <<config, cwork, ctorn, saved, req, resolved>>
  BY DEF End, configVars
<1>3. /\ kwork' \in [Procs -> K!Work] /\ kwork'[p].at = "away"
      /\ \A q \in Procs : /\ kwork'[q].met = kwork[q].met /\ kwork'[q].text = kwork[q].text
                          /\ q # p => kwork'[q] = kwork[q]
  BY <1>1 DEF FilesTypeOK, K!FileTypeOK, K!Work
<1>4. /\ res[p] = "busy" /\ req[p].cmd \in {"create", "import"} /\ ~CBusy(p)
      /\ \A q \in Procs : KBusy(q)' <=> KBusy(q) /\ q # p
      /\ \A q \in Procs : q # p => res'[q] = res[q]
      /\ res'[p] = r
  <2>1. res[p] = "busy" /\ req[p].cmd \in {"create", "import"} /\ ~CBusy(p)
    BY <1>1 DEF Stage
  <2>2. \A q \in Procs : KBusy(q)' <=> KBusy(q) /\ q # p
    BY <1>3 DEF KBusy
  <2>3. res'[p] = r /\ \A q \in Procs : q # p => res'[q] = res[q]
    BY <1>1, <1>2 DEF FilesTypeOK
  <2>. QED
    BY <2>1, <2>2, <2>3
<1>5. FilesTypeOK'
  BY <1>1, <1>2, <1>3 DEF FilesTypeOK, K!FileTypeOK, C!FileTypeOK
<1>6. Stage'
  BY <1>1, <1>2, <1>3, <1>4 DEF Stage, KBusy, CBusy
<1>7. KAlone'
  BY <1>2, <1>3, <1>4 DEF KInv, KAlone
<1>8. StoredIsSeen'
  <2>1. ASSUME NEW q \in Procs, res'[q] = "stored", q # p
        PROVE  /\ keystore' # Absent
               /\ ~kwork'[q].met => \A z \in Procs : KBusy(z)' => req'[z].force
    BY <1>2, <1>3, <1>4, <2>1 DEF KInv, StoredIsSeen
  <2>2. ASSUME res'[p] = "stored"
        PROVE  /\ keystore' # Absent
               /\ ~kwork'[p].met => \A z \in Procs : KBusy(z)' => req'[z].force
    BY <1>2, <1>3, <1>4, <2>2 DEF KInv, KAlone
  <2>. QED
    BY <2>1, <2>2 DEF StoredIsSeen
<1>9. KeystoreReadable'
  <2>1. CASE keystore' \in K!Unreadable /\ keystore' = keystore /\ kwork[p].at # "open"
    BY <1>3, <1>5, <2>1 DEF KInv, KeystoreReadable, K!Unreadable
  <2>2. CASE keystore' \in K!Unreadable /\ (kwork[p].met \/ ktorn')
    BY <1>3, <1>5, <2>2 DEF KeystoreReadable
  <2>. QED
    BY <1>5, <2>1, <2>2 DEF KeystoreReadable, K!Unreadable
<1>10. KeyLostOnlyInRace'
  <2>1. ASSUME NEW q \in Procs, q # p, res'[q] = "stored", ~kwork'[q].met
        PROVE  p \in Forced' \ {q}
    BY <1>2, <1>3, <1>4, <2>1 DEF KInv, StoredIsSeen, Forced
  <2>. QED
    BY <1>3, <1>4, <2>1 DEF KeyLostOnlyInRace, HoldsKeyOf
<1>11. CInv'
  BY <1>2, ConfigUntouched DEF configVars
<1>. QED
  BY <1>6, <1>7, <1>8, <1>9, <1>10, <1>11 DEF KInv

LEMMA StoreKeyKeeps ==
  ASSUME FilesInv, NEW p \in Procs, StoreKey(p) PROVE FilesInv'
<1>1. FilesTypeOK /\ Stage /\ KAlone
  BY DEF FilesInv, KInv, KeystoreReadable
<1>2. /\ kwork[p].at = "open" /\ KBusy(p)
      /\ kwork' = [kwork EXCEPT ![p].at = "away"]
      /\ keystore' \in {kwork[p].text} \cup IF keystore = Empty THEN {} ELSE {Garbled}
      /\ UNCHANGED ktorn
  BY DEF StoreKey, K!WriteAndClose, KBusy
<1>3. kwork[p].text = p
  BY <1>1, <1>2 DEF Stage
<1>4. keystore' = p \/ (keystore' = Garbled /\ kwork[p].met)
  BY <1>1, <1>2, <1>3 DEF KAlone, FilesTypeOK, K!FileTypeOK, K!Work
<1>5. ktorn' \in BOOLEAN
  BY <1>1, <1>2 DEF FilesTypeOK, K!FileTypeOK
<1>6. p \notin {Absent, Empty, Garbled}
  OBVIOUS
<1>7. End(p, "stored") /\ UNCHANGED <<configVars, saved>>
  BY DEF StoreKey
<1>8. /\ keystore' \in Procs \cup {Absent, Empty, Garbled} /\ keystore' # Absent
      /\ keystore' \in K!Unreadable => kwork[p].met
      /\ ktorn => ktorn'
  BY <1>2, <1>4, <1>6 DEF K!Unreadable
<1>9. keystore' = p \/ kwork[p].met
  BY <1>4
<1>. QED
  BY <1>2, <1>5, <1>7, <1>8, <1>9, KeystoreEndKeeps

LEMMA KillKeystoreKeeps ==
  ASSUME FilesInv, NEW p \in Procs, KillKeystore(p) PROVE FilesInv'
<1>1. FilesTypeOK /\ Stage
  BY DEF FilesInv, KInv, KeystoreReadable
<1>2. KBusy(p) /\ kwork' = [kwork EXCEPT ![p].at = "away"]
  BY DEF KillKeystore, K!Abandon, K!Busy, KBusy
<1>3. kwork[p].text = p
  BY <1>1, <1>2 DEF Stage
<1>4. CASE kwork[p].at = "open"
  <2>1. ktorn' = TRUE /\ (UNCHANGED keystore \/ keystore' \in {p, Garbled})
    BY <1>3, <1>4 DEF KillKeystore, K!Abandon
  <2>2. keystore' \in Procs \cup {Absent, Empty, Garbled}
    BY <1>1, <2>1 DEF FilesTypeOK, K!FileTypeOK
  <2>3. keystore' = Absent => keystore = Absent
    BY <2>1
  <2>. QED
    <3>1. ktorn' \in BOOLEAN /\ (ktorn => ktorn') /\ ktorn'
      BY <2>1
    <3>2. End(p, "killed") /\ UNCHANGED <<configVars, saved>>
      BY DEF KillKeystore
    <3>. QED
      BY <1>2, <2>2, <2>3, <3>1, <3>2, KeystoreEndKeeps
<1>5. CASE kwork[p].at # "open"
  <2>1. UNCHANGED <<keystore, ktorn>>
    BY <1>5 DEF KillKeystore, K!Abandon
  <2>2. keystore' \in Procs \cup {Absent, Empty, Garbled} /\ ktorn' \in BOOLEAN
    BY <1>1, <2>1 DEF FilesTypeOK, K!FileTypeOK
  <2>. QED
    BY <1>2, <1>5, <2>1, <2>2, KeystoreEndKeeps DEF KillKeystore
<1>. QED
  BY <1>4, <1>5
-----------------------------------------------------------------------------
(* The configuration.                                                      *)

LEMMA RevisedIsSettings ==
  ASSUME FilesTypeOK, NEW p \in Procs, req[p].cmd \in {"set", "delete"}
  PROVE  /\ req[p].name \in Names
         /\ Revised(p) \in Settings
         /\ Revised(p) = [Loaded EXCEPT ![req[p].name] = Revised(p)[req[p].name]]
<1>1. req[p] \in ConfigRequest
  BY DEF FilesTypeOK, KeystoreRequest, ConfigRequest
<1>2. req[p].name \in Names /\ req[p].value \in Values
  BY <1>1 DEF ConfigRequest
<1>3. Loaded \in Settings
  BY LoadedIsSettings
<1>. QED
  BY <1>2, <1>3 DEF Revised, Settings

LEMMA LoadConfigKeeps ==
  ASSUME FilesInv, NEW p \in Procs, LoadConfig(p) PROVE FilesInv'
<1>. USE DEF FilesInv
<1>1. FilesTypeOK /\ Stage
  BY DEF KInv, KeystoreReadable
<1>2. /\ res[p] = "none" /\ req[p].cmd \in {"set", "delete"}
      /\ UNCHANGED <<keystore, kwork, ktorn, saved, req, resolved>>
  BY DEF LoadConfig, Runs, End, keystoreVars
<1>3. ~KBusy(p) /\ ~CBusy(p)
  BY <1>1, <1>2 DEF Stage
<1>. DEFINE refused == config = Garbled \/ (req[p].cmd = "delete" /\ Loaded[req[p].name] = Unset)
<1>4. CASE refused
  <2>1. PICK r \in {"raised", "not_set"} :
          res' = [res EXCEPT ![p] = r] /\ UNCHANGED <<config, cwork, ctorn>>
    BY <1>4 DEF LoadConfig, End, configVars
  <2>2. FilesTypeOK'
    BY <1>1, <1>2, <2>1 DEF FilesTypeOK, K!FileTypeOK, C!FileTypeOK
  <2>3. Stage'
    BY <1>1, <1>2, <1>3, <2>1 DEF Stage, KBusy, CBusy, FilesTypeOK
  <2>4. KInv'
    BY <1>2, <2>1, <2>2, KeystoreUntouched DEF keystoreVars
  <2>5. CInv'
    BY <1>2, <2>1, ConfigUntouched DEF configVars
  <2>. QED
    BY <2>3, <2>4, <2>5
<1>5. CASE ~refused
  <2>1. C!Prepare(p, Revised(p)) /\ res' = [res EXCEPT ![p] = "busy"]
    BY <1>5 DEF LoadConfig, End
  <2>2. /\ req[p].name \in Names /\ Revised(p) \in Settings
        /\ Revised(p) = [Loaded EXCEPT ![req[p].name] = Revised(p)[req[p].name]]
    BY <1>1, <1>2, RevisedIsSettings
  <2>3. /\ UNCHANGED <<config, ctorn>>
        /\ cwork' \in [Procs -> C!Work]
        /\ cwork'[p].at = "preparing" /\ cwork'[p].text = Revised(p)
        /\ cwork'[p].met <=> cwork[p].met \/ \E q \in Procs : CBusy(q)
    BY <1>1, <2>1, <2>2 DEF C!Prepare, C!Busy, C!Work, CBusy, FilesTypeOK, C!FileTypeOK
  <2>4. ASSUME NEW q \in Procs, q # p
        PROVE  /\ cwork'[q].at = cwork[q].at /\ cwork'[q].text = cwork[q].text
               /\ cwork'[q].met <=> cwork[q].met \/ CBusy(q)
    BY <1>1, <2>1, <2>4 DEF C!Prepare, C!Busy, C!Work, CBusy, FilesTypeOK, C!FileTypeOK
  <2>5. FilesTypeOK'
    BY <1>1, <1>2, <2>1, <2>3 DEF FilesTypeOK, K!FileTypeOK, C!FileTypeOK
  <2>6. Stage'
    BY <1>1, <1>2, <1>3, <2>1, <2>2, <2>3, <2>4 DEF Stage, KBusy, CBusy, FilesTypeOK
  <2>7. KInv'
    BY <1>2, <2>1, <2>5, KeystoreUntouched DEF keystoreVars
  <2>8. CAlone'
    BY <2>3, <2>4 DEF CInv, CAlone, CBusy
  (* Whoever met nobody found no rewrite under way, and so what was saved. *)
  <2>9. ASSUME ~ctorn', \A q \in Procs : ~cwork'[q].met
        PROVE  Loaded = saved /\ \A q \in Procs : ~CBusy(q) /\ ~cwork[q].met
    <3>1. \A q \in Procs : ~CBusy(q) /\ ~cwork[q].met
      BY <2>3, <2>4, <2>9
    <3>. QED
      BY <2>3, <2>9, <3>1 DEF CInv, SavedSettingsStay, CBusy
  <2>10. RevisesSaved'
    <3>1. SUFFICES ASSUME ~ctorn', \A q \in Procs : ~cwork'[q].met, NEW q \in Procs, CBusy(q)'
                   PROVE  cwork'[q].text = [saved EXCEPT ![req[q].name] = cwork'[q].text[req[q].name]]
      BY <1>2 DEF RevisesSaved
    <3>2. q = p
      BY <2>4, <2>9, <3>1 DEF CBusy
    <3>. QED
      BY <2>2, <2>3, <2>9, <3>1, <3>2
  <2>11. SavedSettingsStay'
    BY <1>2, <2>3, <2>9 DEF SavedSettingsStay, Loaded
  <2>. QED
    BY <2>6, <2>7, <2>8, <2>10, <2>11 DEF CInv
<1>. QED
  BY <1>4, <1>5

LEMMA OpenConfigKeeps ==
  ASSUME FilesInv, NEW p \in Procs, OpenConfig(p) PROVE FilesInv'
<1>. USE DEF FilesInv
<1>1. FilesTypeOK /\ Stage
  BY DEF KInv, KeystoreReadable
<1>2. /\ cwork[p].at = "preparing" /\ cwork' = [cwork EXCEPT ![p].at = "open"]
      /\ config' = Empty
      /\ UNCHANGED <<keystore, kwork, ktorn, ctorn, saved, req, res, resolved>>
  BY DEF OpenConfig, C!Truncate, keystoreVars
<1>3. /\ cwork' \in [Procs -> C!Work] /\ cwork'[p].at = "open"
      /\ \A q \in Procs : cwork'[q].met = cwork[q].met /\ cwork'[q].text = cwork[q].text
      /\ \A q \in Procs : q # p => cwork'[q] = cwork[q]
  BY <1>1, <1>2 DEF FilesTypeOK, C!FileTypeOK, C!Work
<1>4. CBusy(p) /\ \A q \in Procs : CBusy(q)' <=> CBusy(q)
  BY <1>2, <1>3 DEF CBusy
<1>5. FilesTypeOK'
  BY <1>1, <1>2, <1>3 DEF FilesTypeOK, K!FileTypeOK, C!FileTypeOK
<1>6. Stage'
  BY <1>1, <1>2, <1>3, <1>4 DEF Stage, KBusy
<1>7. res[p] = "busy"
  BY <1>1, <1>4 DEF Stage
<1>8. KInv'
  BY <1>2, <1>5, <1>7, KeystoreUntouched DEF keystoreVars
<1>9. CAlone'
  BY <1>2, <1>3, <1>4 DEF CInv, CAlone, CBusy
<1>10. RevisesSaved'
  BY <1>2, <1>3, <1>4 DEF CInv, RevisesSaved
<1>11. SavedSettingsStay'
  BY <1>3 DEF SavedSettingsStay
<1>. QED
  BY <1>6, <1>8, <1>9, <1>10, <1>11 DEF CInv

(* The end of a rewrite, by its close or an interrupt.                     *)
LEMMA ConfigEndKeeps ==
  ASSUME FilesInv, NEW p \in Procs, CBusy(p), NEW r \in {"saved", "killed"}, End(p, r),
         cwork' = [cwork EXCEPT ![p].at = "away"],
         config' \in Settings \cup {Absent, Empty, Garbled},
         ctorn' \in BOOLEAN, ctorn => ctorn', saved' \in Settings,
         ~ctorn' /\ (\A q \in Procs : ~cwork[q].met) => Loaded' = saved',
         UNCHANGED keystoreVars
  PROVE  FilesInv'
<1>. USE DEF FilesInv
<1>1. FilesTypeOK /\ Stage
  BY DEF KInv, KeystoreReadable
<1>2. /\ res' = [res EXCEPT ![p] = r]
      /\ UNCHANGED <<keystore, kwork, ktorn, req, resolved>>
  BY DEF End, keystoreVars
<1>3. /\ cwork' \in [Procs -> C!Work] /\ cwork'[p].at = "away"
      /\ \A q \in Procs : cwork'[q].met = cwork[q].met /\ cwork'[q].text = cwork[q].text
      /\ \A q \in Procs : q # p => cwork'[q] = cwork[q]
  BY <1>1 DEF FilesTypeOK, C!FileTypeOK, C!Work
<1>4. /\ res[p] = "busy" /\ ~KBusy(p)
      /\ \A q \in Procs : CBusy(q)' <=> CBusy(q) /\ q # p
      /\ \A q \in Procs : q # p => res'[q] = res[q]
  <2>1. res[p] = "busy" /\ ~KBusy(p)
    BY <1>1 DEF Stage
  <2>2. \A q \in Procs : CBusy(q)' <=> CBusy(q) /\ q # p
    BY <1>3 DEF CBusy
  <2>3. \A q \in Procs : q # p => res'[q] = res[q]
    BY <1>1, <1>2 DEF FilesTypeOK
  <2>. QED
    BY <2>1, <2>2, <2>3
<1>5. FilesTypeOK'
  BY <1>1, <1>2, <1>3 DEF FilesTypeOK, K!FileTypeOK, C!FileTypeOK
<1>6. Stage'
  BY <1>1, <1>2, <1>3, <1>4 DEF Stage, KBusy
<1>7. KInv'
  BY <1>2, <1>4, <1>5, KeystoreUntouched DEF keystoreVars
<1>8. CAlone'
  BY <1>3, <1>4 DEF CInv, CAlone
<1>9. RevisesSaved'
  (* Where nobody met, p was alone, and now nobody rewrites.               *)
  BY <1>3, <1>4 DEF CInv, CAlone, RevisesSaved
<1>10. SavedSettingsStay'
  BY <1>3 DEF SavedSettingsStay
<1>. QED
  BY <1>6, <1>7, <1>8, <1>9, <1>10 DEF CInv

LEMMA SaveConfigKeeps ==
  ASSUME FilesInv, NEW p \in Procs, SaveConfig(p) PROVE FilesInv'
<1>1. FilesTypeOK /\ Stage /\ CAlone /\ RevisesSaved
  BY DEF FilesInv, KInv, CInv, KeystoreReadable
<1>. DEFINE text == cwork[p].text
            name == req[p].name
<1>2. /\ cwork[p].at = "open" /\ CBusy(p)
      /\ cwork' = [cwork EXCEPT ![p].at = "away"]
      /\ config' \in {text} \cup IF config = Empty THEN {} ELSE Mixtures(text) \cup {Garbled}
      /\ saved' = [saved EXCEPT ![name] = text[name]]
      /\ UNCHANGED <<ctorn, keystoreVars>> /\ End(p, "saved")
  BY DEF SaveConfig, C!WriteAndClose, CBusy
<1>3. text \in Settings /\ name \in Names
  BY <1>1, <1>2, RevisedIsSettings DEF Stage
<1>4. Mixtures(text) \subseteq Settings
  BY <1>1, <1>3, LoadedIsSettings DEF Mixtures, Settings
<1>5. config' \in Settings \cup {Absent, Empty, Garbled} /\ ctorn' \in BOOLEAN
  BY <1>1, <1>2, <1>3, <1>4 DEF FilesTypeOK, C!FileTypeOK
<1>6. saved' \in Settings
  BY <1>1, <1>2, <1>3 DEF FilesTypeOK, Settings
<1>7. ASSUME ~ctorn', \A q \in Procs : ~cwork[q].met PROVE Loaded' = saved'
  <2>1. config' = text
    BY <1>1, <1>2, <1>7 DEF CAlone
  <2>2. text = [saved EXCEPT ![name] = text[name]]
    BY <1>1, <1>2, <1>7 DEF RevisesSaved
  <2>. QED
    BY <1>2, <1>3, <2>1, <2>2 DEF Loaded
<1>. HIDE DEF text, name
<1>. QED
  BY <1>2, <1>5, <1>6, <1>7, ConfigEndKeeps

LEMMA KillConfigKeeps ==
  ASSUME FilesInv, NEW p \in Procs, KillConfig(p) PROVE FilesInv'
<1>1. FilesTypeOK /\ Stage /\ CAlone /\ SavedSettingsStay
  BY DEF FilesInv, KInv, CInv, KeystoreReadable
<1>2. /\ CBusy(p) /\ cwork' = [cwork EXCEPT ![p].at = "away"]
      /\ End(p, "killed") /\ UNCHANGED <<keystoreVars, saved>> /\ saved \in Settings
  BY <1>1 DEF KillConfig, C!Abandon, C!Busy, CBusy, FilesTypeOK
<1>3. cwork[p].text \in Settings
  BY <1>1, <1>2 DEF Stage
<1>4. CASE cwork[p].at = "open"
  <2>1. /\ ctorn' = TRUE
        /\ UNCHANGED config
             \/ config' \in {cwork[p].text, Garbled} \cup Parts(cwork[p].text)
    BY <1>4 DEF KillConfig, C!Abandon
  <2>2. Parts(cwork[p].text) \subseteq Settings \cup {Garbled}
    BY <1>3 DEF Parts, Settings
  <2>3. config' \in Settings \cup {Absent, Empty, Garbled}
    BY <1>1, <1>3, <2>1, <2>2 DEF FilesTypeOK, C!FileTypeOK
  <2>4. ctorn' \in BOOLEAN /\ (ctorn => ctorn') /\ ctorn'
    BY <2>1
  <2>. QED
    BY <1>2, <2>3, <2>4, ConfigEndKeeps
<1>5. CASE cwork[p].at # "open"
  <2>1. UNCHANGED <<config, ctorn>>
    BY <1>5 DEF KillConfig, C!Abandon
  <2>2. config' \in Settings \cup {Absent, Empty, Garbled} /\ ctorn' \in BOOLEAN
    BY <1>1, <2>1 DEF FilesTypeOK, C!FileTypeOK
  <2>3. ASSUME ~ctorn', \A q \in Procs : ~cwork[q].met PROVE Loaded' = saved'
    <3>1. \A q \in Procs : cwork[q].at # "open"
      BY <1>1, <1>2, <1>5, <2>3 DEF CAlone, CBusy
    <3>. QED
      BY <1>1, <1>2, <2>1, <2>3, <3>1 DEF SavedSettingsStay, Loaded
  <2>. QED
    BY <1>2, <2>1, <2>2, <2>3, ConfigEndKeeps
<1>. QED
  BY <1>4, <1>5

-----------------------------------------------------------------------------
(* Every step.                                                             *)

LEMMA StepInv == FilesInv /\ [FilesNext]_vars => FilesInv'
<1>. SUFFICES ASSUME FilesInv, [FilesNext]_vars PROVE FilesInv'
  OBVIOUS
<1>1. ASSUME NEW p \in Procs,
             CheckKeystore(p) \/ ImportRaises(p) \/ OpenKeystore(p) \/ StoreKey(p)
               \/ KillKeystore(p)
      PROVE  FilesInv'
  BY <1>1, CheckKeystoreKeeps, ImportRaisesKeeps, OpenKeystoreKeeps, StoreKeyKeeps,
     KillKeystoreKeeps
<1>2. ASSUME NEW p \in Procs,
             LoadConfig(p) \/ OpenConfig(p) \/ SaveConfig(p) \/ KillConfig(p)
      PROVE  FilesInv'
  BY <1>2, LoadConfigKeeps, OpenConfigKeeps, SaveConfigKeeps, KillConfigKeeps
<1>3. ASSUME NEW p \in Procs, Resolve(p) PROVE FilesInv'
  BY <1>3, ResolveKeeps
<1>4. CASE UNCHANGED vars
  <2>1. UNCHANGED <<keystore, kwork, ktorn, config, cwork, ctorn, req, res, resolved, saved>>
    BY <1>4 DEF vars, keystoreVars, configVars
  <2>2. FilesTypeOK'
    BY <2>1 DEF FilesInv, KInv, KeystoreReadable, FilesTypeOK, K!FileTypeOK, C!FileTypeOK
  <2>. QED
    BY <2>1, <2>2 DEF FilesInv, Stage, KInv, CInv, KAlone, CAlone, StoredIsSeen,
       KeystoreReadable, KeyLostOnlyInRace, RevisesSaved, SavedSettingsStay,
       KBusy, CBusy, HoldsKeyOf, Forced, Loaded, K!Unreadable
<1>. QED
  BY <1>1, <1>2, <1>3, <1>4 DEF FilesNext

LEMMA AlwaysInv == FilesSpec => []FilesInv
  BY InitInv, StepInv, PTL DEF FilesSpec

(* A key whose address create or import printed is in the keystore until a *)
(* run asked to overwrite it comes to do so, unless the one that stored it *)
(* met another: there is no later run that loses it, whatever is           *)
(* interrupted where.                                                      *)
THEOREM FilesKeepTheKey == FilesSpec => []KeyLostOnlyInRace
<1>1. FilesInv => KeyLostOnlyInRace
  BY DEF FilesInv, KInv
<1>. QED
  BY <1>1, AlwaysInv, PTL

(* A keystore that nobody is writing parses, unless two runs met or one    *)
(* was interrupted between open and close; types are included.             *)
THEOREM FilesKeystoreReadable == FilesSpec => []KeystoreReadable
<1>1. FilesInv => KeystoreReadable
  BY DEF FilesInv, KInv
<1>. QED
  BY <1>1, AlwaysInv, PTL

(* What config set reported as saved is what the next run loads, as long   *)
(* as no two rewrites met and none was interrupted with the file open.     *)
THEOREM FilesKeepSettings == FilesSpec => []SavedSettingsStay
<1>1. FilesInv => SavedSettingsStay
  BY DEF FilesInv, CInv
<1>. QED
  BY <1>1, AlwaysInv, PTL
=============================================================================
