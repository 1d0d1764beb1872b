----------------------------- MODULE DeployProps -----------------------------
(* What holds of secrets and plugins, whatever is changed and restarted. *)
EXTENDS Deploy

Row == [val : 1 .. MaxOps, enc : Keys \cup {NoKey}, ver : {0, 1}, run : 1 .. MaxRuns]

Value == {None, Garbled} \cup 1 .. MaxOps

Box == [env : Value, loaded : SUBSET Plugins, by : Provs \cup {NoBox}]

Provisioning == [at : {"begun", "global", "env", "write"}, put : SUBSET Plugins, env : Value]

Request == [at : {"staged"}, plugin : Plugins]
           \cup [at : {"manifest", "skills", "removed"}, plugin : Plugins, owns : SUBSET Skills]

(* Every variable has its type. *)
TypeOK ==
  /\ key \in Keys \cup {NoKey} /\ run \in 1 .. MaxRuns
  /\ global \in Row \cup {NoRow} /\ local \in Row \cup {NoRow}
  /\ dirs \in SUBSET Plugins /\ skills \in SUBSET Skills
  /\ box \in Box \cup {NoBox}
  /\ asked \in Nat /\ holder \in {"free", "locked", "stopped"}
  /\ prov \in [Provs -> Provisioning \cup {Idle}]
  /\ job \in [Jobs -> Request \cup {Idle}]
  /\ born \in BOOLEAN /\ ops \in 0 .. MaxOps
  /\ marks \in SUBSET {"error", "died", "overlap", "late"}

Rows == {global, local} \ {NoRow}

(* A secret stored while the platform ran without a key stays readable:    *)
(* through a start with a key, with another, and without again (018 and    *)
(* aes.go:129, "turn on encryption -> all historical secrets become        *)
(* unreadable").                                                           *)
PlaintextSurvives == \A r \in Rows : r.enc = NoKey => Read(r) = r.val

(* Until the platform is started again, whatever the secrets API accepted  *)
(* is what provisioning and Values hand out.  (An import's row is another  *)
(* matter: ReadsBack.)                                                     *)
FreshReadsBack ==
  \A r \in Rows : r.run = run /\ r.ver = CurrentVersion => Read(r) = r.val

(* A plugin that was installed or removed is in the end what the container *)
(* runs with, and its skills are there, although restarts overlap and one  *)
(* that finds another in progress is skipped: unless a request answered    *)
(* with an error half way, the process died with work in hand, or an org's *)
(* plugins came after the agent had looked for them.                       *)
PluginsArrive ==
  <>[](\/ {"error", "died", "late"} \cap marks # {}
       \/ box = NoBox
       \/ /\ box.loaded = dirs
          /\ UNION {SkillsOf[p] : p \in dirs} \subseteq skills)

(* So does a workspace's secret (secrets.go:252 "Auto-restart workspace to *)
(* pick up new secret"), though a restart is skipped while another holds   *)
(* the mutex: as long as no two provisionings overlap, of which the one    *)
(* that read first may start last.                                         *)
SecretArrives ==
  <>[](\/ {"died", "overlap"} \cap marks # {}
       \/ box = NoBox
       \/ local # NoRow /\ local.run = run => box.env = Read(local))

(* aes.go:215 "return the bytes as-is.  Correct both on installs that      *)
(* never had a key, AND on installs where the operator has since enabled   *)
(* encryption": what is read of a secret is what was stored, or an error.  *)
ReadsBack == \A r \in Rows : Read(r) \in {r.val, Refused}
=============================================================================
