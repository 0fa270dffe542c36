----------------------------- MODULE LocalFiles -----------------------------
(***************************************************************************)
(* The two files the CLI keeps, each by concurrent and interrupted         *)
(* processes: the keystore, core/wallet.py: create_wallet, import_wallet   *)
(* with crypto.py: encrypt_keypair; and the configuration, core/config.py: *)
(* save_config_value, delete_config_value, and what every run of the CLI   *)
(* does with it before its command, cli.py: main, resolve_value.           *)
(*                                                                         *)
(* A process generates or imports one key pair: it stands for its own key. *)
(* The configuration is a function of the names in use.                    *)
(***************************************************************************)
EXTENDS Naturals, Sequences

CONSTANTS
  Procs,                \* runs of the CLI
  Names, Values, Unset, \* settings
  Numeric, Invalid,     \* those that must be numbers; the values that are none
  Order,                \* the names a run resolves when it starts, in that order
  Asked,                \* what runs may be asked to do
  Absent, Empty, Garbled

Settings == [Names -> Values \cup {Unset}]
(* given: the settings given to this run by flag or environment.           *)
KeystoreRequest ==
  [cmd : {"create", "import"}, force : BOOLEAN, given : SUBSET Names]
ConfigRequest ==
  [cmd : {"set", "delete"}, name : Names, value : Values, given : SUBSET Names]

ASSUME FilesAssumption ==
  /\ {Absent, Empty, Garbled} \cap Procs = {}
  /\ {Absent, Empty, Garbled} \cap Settings = {}
  /\ Absent \notin {Empty, Garbled}
  /\ Unset \notin Values
  /\ Order \in Seq(Names) /\ Numeric \subseteq Names
  /\ Asked \subseteq KeystoreRequest \cup ConfigRequest

VARIABLES
  keystore, kwork, ktorn,  \* the keystore, see InPlaceFile
  config, cwork, ctorn,    \* the configuration, likewise
  req, res,             \* what each process was asked, and how it ended
  resolved,             \* how many of the names in Order it has resolved
  saved                 \* the settings the user has been told are saved (history)

keystoreVars == <<keystore, kwork, ktorn>>
configVars == <<config, cwork, ctorn>>
vars == <<keystoreVars, configVars, req, res, resolved, saved>>

K == INSTANCE InPlaceFile WITH file <- keystore, work <- kwork, torn <- ktorn, Texts <- Procs
C == INSTANCE InPlaceFile WITH file <- config, work <- cwork, torn <- ctorn, Texts <- Settings

FilesTypeOK ==
  /\ K!FileTypeOK /\ C!FileTypeOK
  /\ req \in [Procs -> Asked]
  /\ res \in [Procs -> {"none", "busy", "bad_setting", "wallet_exists", "raised",
                        "not_set", "stored", "saved", "killed"}]
  /\ resolved \in [Procs -> 0 .. Len(Order)]
  /\ saved \in Settings

NothingSet == [n \in Names |-> Unset]

FilesInit ==
  /\ K!FileInit /\ C!FileInit
  /\ req \in [Procs -> Asked]
  /\ resolved = [p \in Procs |-> 0]
  /\ res = [p \in Procs |-> "none"]
  /\ saved = NothingSet

(* Its command runs once the main callback has resolved the settings.      *)
Runs(p, cmds) ==
  /\ res[p] = "none"
  /\ resolved[p] = Len(Order)
  /\ req[p].cmd \in cmds

End(p, result) == res' = [res EXCEPT ![p] = result] /\ UNCHANGED <<req, resolved>>

-----------------------------------------------------------------------------
(* The start of every run.                                                 *)

(* load_config: no file and an empty file are no settings.                 *)
Loaded == IF config \in Settings THEN config ELSE NothingSet

(* The main callback resolves one name after the other, whatever the       *)
(* command: from a flag or the environment, or else by loading the file,   *)
(* which raises if it is no TOML.  What must be a number and is none ends  *)
(* the run.                                                                *)
Resolve(p) ==
  /\ res[p] = "none"
  /\ resolved[p] < Len(Order)
  /\ LET name == Order[resolved[p] + 1]
     IN  IF name \notin req[p].given /\ config = Garbled THEN End(p, "raised")
         ELSE IF name \in Numeric \ req[p].given /\ Loaded[name] \in Invalid
           THEN End(p, "bad_setting")
         ELSE /\ resolved' = [resolved EXCEPT ![p] = @ + 1]
              /\ UNCHANGED <<req, res>>
  /\ UNCHANGED <<keystoreVars, configVars, saved>>

-----------------------------------------------------------------------------
(* The keystore.                                                           *)

(* (Mutant: import does not look.)                                         *)
MayWriteByImport(p) == keystore = Absent \/ req[p].force \/ req[p].cmd = "import"

MayWrite(p) == keystore = Absent \/ req[p].force

(* create and import look whether there is a file, refuse, or go on to     *)
(* derive the key that encrypts it, which scrypt makes slow.               *)
CheckKeystore(p) ==
  /\ Runs(p, {"create", "import"})
  /\ IF MayWrite(p) THEN K!Prepare(p, p) /\ End(p, "busy")
     ELSE End(p, "wallet_exists") /\ UNCHANGED keystoreVars
  /\ UNCHANGED <<configVars, saved>>

(* (Mutant: the keystore is opened before that.)                           *)
ImportRaisesLate(p) ==
  /\ Runs(p, {"import"})
  /\ MayWrite(p)
  /\ End(p, "raised")
  /\ keystore' = Empty
  /\ UNCHANGED <<kwork, ktorn, configVars, saved>>

(* The file to import is read, and the key pair in it checked, only after  *)
(* that.                                                                   *)
ImportRaises(p) ==
  /\ Runs(p, {"import"})
  /\ MayWrite(p)
  /\ End(p, "raised")
  /\ UNCHANGED <<keystoreVars, configVars, saved>>

OpenKeystore(p) ==
  /\ K!Truncate(p)
  /\ UNCHANGED <<configVars, req, res, resolved, saved>>

(* The address is printed once the file is closed.                         *)
StoreKey(p) ==
  /\ K!WriteAndClose(p, {})
  /\ End(p, "stored")
  /\ UNCHANGED <<configVars, saved>>

(* The text is one write: of an interrupted one all is there or nothing.   *)
KillKeystore(p) ==
  /\ K!Abandon(p, {})
  /\ End(p, "killed")
  /\ UNCHANGED <<configVars, saved>>

-----------------------------------------------------------------------------
(* The configuration.                                                      *)

(* (Mutants: the file is written with the new setting alone; delete leaves *)
(* the name with an empty value.)                                          *)
RevisedAlone(p) ==
  [NothingSet EXCEPT ![req[p].name] = IF req[p].cmd = "set" THEN req[p].value ELSE Unset]

RevisedEmpty(p) ==
  [Loaded EXCEPT ![req[p].name] = IF req[p].cmd = "set" THEN req[p].value ELSE Empty]

Revised(p) ==
  [Loaded EXCEPT ![req[p].name] = IF req[p].cmd = "set" THEN req[p].value ELSE Unset]

(* set and delete load all settings; a file that is no TOML raises.        *)
LoadConfig(p) ==
  /\ Runs(p, {"set", "delete"})
  /\ IF config = Garbled THEN End(p, "raised") /\ UNCHANGED configVars
     ELSE IF req[p].cmd = "delete" /\ Loaded[req[p].name] = Unset
       THEN End(p, "not_set") /\ UNCHANGED configVars
     ELSE C!Prepare(p, Revised(p)) /\ End(p, "busy")
  /\ UNCHANGED <<keystoreVars, saved>>

OpenConfig(p) ==
  /\ C!Truncate(p)
  /\ UNCHANGED <<keystoreVars, req, res, resolved, saved>>

(* Settings of a longer file can survive behind those written over it.     *)
Mixtures(settings) ==
  {[n \in Names |-> IF settings[n] = Unset /\ n \in kept THEN Loaded[n] ELSE settings[n]] :
     kept \in SUBSET Names}

SaveConfig(p) ==
  /\ C!WriteAndClose(p, Mixtures(cwork[p].text))
  /\ End(p, "saved")
  /\ saved' = [saved EXCEPT ![req[p].name] = cwork[p].text[req[p].name]]
  /\ UNCHANGED keystoreVars

(* The settings are written one by one: an interrupt can leave the first   *)
(* few, or one cut off in its middle.                                      *)
Parts(settings) ==
  {Garbled} \cup {[n \in Names |-> IF n \in kept THEN settings[n] ELSE Unset] :
                    kept \in SUBSET Names}

KillConfig(p) ==
  /\ C!Abandon(p, Parts(cwork[p].text))
  /\ End(p, "killed")
  /\ UNCHANGED <<keystoreVars, saved>>

FilesNext ==
  \E p \in Procs :
    \/ Resolve(p)
    \/ CheckKeystore(p) \/ ImportRaises(p) \/ OpenKeystore(p) \/ StoreKey(p)
    \/ KillKeystore(p)
    \/ LoadConfig(p) \/ OpenConfig(p) \/ SaveConfig(p) \/ KillConfig(p)

FilesSpec == FilesInit /\ [][FilesNext]_vars
-----------------------------------------------------------------------------
HoldsKeyOf(p) == keystore = p

(* Runs that were asked to overwrite, and came to it.                      *)
Forced == {p \in Procs : /\ req[p].cmd \in {"create", "import"} /\ req[p].force
                         /\ \/ res[p] \in {"stored", "killed"}
                            \/ kwork[p].at = "open"}

(* PROPERTY. A key whose address was printed is in the keystore until a    *)
(* run asked to overwrite it comes to do so, or it was lost to a run that  *)
(* was under way together with the one that stored it: no later run loses  *)
(* it, whatever is interrupted where.                                      *)
KeyLostOnlyInRace ==
  \A p \in Procs :
    res[p] = "stored" => HoldsKeyOf(p) \/ kwork[p].met \/ Forced \ {p} # {}

(* PROPERTY. A keystore that nobody is writing can be read, unless two     *)
(* runs met or one was interrupted with the file open.                     *)
KeystoreReadable ==
  /\ FilesTypeOK
  /\ keystore \in K!Unreadable
       => \/ ktorn \/ \E p \in Procs : kwork[p].met \/ kwork[p].at = "open"

(* PROPERTY. Every setting reported as saved stays until it is set or      *)
(* deleted again, and none appears that was not saved, as long as no two   *)
(* rewrites met and none was interrupted with the file open.               *)
SavedSettingsStay ==
  (~ctorn /\ \A p \in Procs : ~cwork[p].met /\ cwork[p].at # "open") => Loaded = saved

(* REFUTED. config delete deletes a config value, and config set sets one  *)
(* (commands/config.py): so neither is refused because of the value it is  *)
(* there to replace.  A number that is none is saved without a look, and   *)
(* from then on no run starts, the one that would delete it included,      *)
(* unless the setting is given by flag or environment.                     *)
BadSettingCanGo ==
  \A p \in Procs :
    res[p] = "bad_setting" /\ req[p].cmd \in {"set", "delete"}
      => Loaded[req[p].name] \notin Invalid
=============================================================================
