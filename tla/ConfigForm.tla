----------------------------- MODULE ConfigForm -----------------------------
(***************************************************************************)
(* ui/config_state.rs and config.rs: the settings form as text, the        *)
(* configuration it is turned into, and config.json.  Two validations and  *)
(* two conversions must agree: validated_config() against                  *)
(* AppConfiguration::validate(), and what is shown or written against what *)
(* is read back.                                                           *)
(*                                                                         *)
(* A field of the form is the number its text parses to, or Junk.  The     *)
(* ratio is in hundredths; f32 also parses the texts "NaN" and "inf",      *)
(* which serde_json writes as null.                                        *)
(***************************************************************************)
EXTENDS Integers, FiniteSets

CONSTANTS
    Rates, Seeds, Ratios, Ports,   \* numbers typed into the form
    Client,                        \* files in clients/
    Host,                          \* a proxy host
    MaxEdits                       \* fields typed between two openings (bound)

VARIABLES
    form,       \* ConfigEditState
    listed,     \* available_clients
    issues,     \* config_validation_errors
    file,       \* config.json
    edits       \* fields typed since the form was opened

formVars == <<form, listed, issues, file, edits>>

Junk     == -9999
NaN      == -8888
Infinity == 8888
Disabled == -100    \* UPLOAD_RATIO_TARGET_DISABLED
NoPort   == -1      \* proxy_port: None
MaxPort  == 65535   \* u16::MAX
Empty    == ""

\* Typed numbers are told from the marks above.
ASSUME FormAssumption ==
    /\ Ratios \subseteq Int \ {Junk, NaN, Infinity}
    /\ MaxEdits \in Nat

\* Deliberate mistake: whole numbers only.
SlipRounded(ratio) == IF ratio \in {NaN, Infinity} THEN ratio ELSE 100 * (ratio \div 100)

\* format!("{:.1}"): the nearest tenth (exact ties are not tried).
Rounded(ratio) ==
    IF ratio \in {NaN, Infinity} THEN ratio
    ELSE IF ratio >= 0 THEN 10 * ((ratio + 5) \div 10) ELSE -(10 * ((5 - ratio) \div 10))

\* AppConfiguration::validate(): the complaint it stops at is the first of these.
\* A NaN is not below zero.
Complaints(c) ==
    LET When(condition, issue) == IF condition THEN {issue} ELSE {} IN
    When(c.maxUp < c.minUp, "UploadRateRange")
    \cup When(c.maxDown < c.minDown, "DownloadRateRange")
    \cup When(c.seed < 1, "SimultaneousSeedTooLow")
    \cup When(c.client = Empty, "ClientRequired")
    \cup When(c.ratio < 0 /\ c.ratio \notin {NaN, Disabled}, "UploadRatioTargetInvalid")

\* config::load(): a null is no f32, and validate() has the last word.
Loads(c) == Complaints(c) = {} /\ c.ratio \notin {NaN, Infinity}

\* from_snapshot() with a configuration.
FromConfig(c) == [c EXCEPT !.ratio = Rounded(@)]

ClientIssues(f, clients) ==
    IF f.client = Empty THEN {"ClientRequired"}
    ELSE IF f.client \notin clients THEN {"ClientUnavailable"} ELSE {}

\* validate_proxy_settings(): both fields or neither, and a u16 above 0.
ProxyIssues(f) ==
    (IF (f.host = Empty) # (f.port = NoPort) THEN {"ProxyPairRequired"} ELSE {})
    \cup (IF f.port = NoPort \/ f.port \in 1..MaxPort THEN {} ELSE {"InvalidPort"})

\* parse_numeric_config()
NumberIssues(f) ==
    IF Junk \in {f.minUp, f.maxUp, f.minDown, f.maxDown, f.seed, f.ratio}
    THEN {"InvalidNumber"} ELSE {}

\* validated_config(): the ranges are looked at only if every number parses.
Issues(f, clients) ==
    ClientIssues(f, clients) \cup ProxyIssues(f) \cup NumberIssues(f)
    \cup (IF NumberIssues(f) = {} THEN Complaints(f) ELSE {})

FormTypeOK ==
    /\ form.minUp \in Rates \cup {0, Junk} /\ form.client \in Client \cup {Empty, "other"}
    /\ listed \in {{}, Client}
    /\ DOMAIN file = DOMAIN form
    /\ edits \in 0..MaxEdits

\* Hand-written files set the ratio to any precision.
FormInit ==
    /\ file \in [minUp : {0}, maxUp : {1}, minDown : {0}, maxDown : {0}, seed : {1},
                 client : Client, ratio : Ratios, host : {Empty}, port : {NoPort}]
    /\ Loads(file)
    /\ form = FromConfig(file)
    /\ listed = {} /\ issues = {} /\ edits = 0

Type(field, value) ==
    /\ edits < MaxEdits /\ edits' = edits + 1
    /\ form' = [form EXCEPT ![field] = value]
    /\ issues' = {}
    /\ UNCHANGED <<listed, file>>

ListClients ==
    /\ listed' = Client
    /\ UNCHANGED <<form, issues, file, edits>>

\* apply_edited_config(), and the command handler's save().
ApplyEdited ==
    /\ issues' = Issues(form, listed)
    /\ file' = IF issues' = {} THEN form ELSE file
    /\ UNCHANGED <<form, listed, edits>>

\* The application is started again: load_config_sync(), from_snapshot().
Reopen ==
    /\ Loads(file)
    /\ form' = FromConfig(file)
    /\ listed' = {} /\ issues' = {} /\ edits' = 0
    /\ UNCHANGED file

FormNext ==
    \/ \E x \in {"minUp", "maxUp", "minDown", "maxDown"}, n \in Rates \cup {Junk} : Type(x, n)
    \/ \E n \in Seeds \cup {Junk} : Type("seed", n)
    \/ \E n \in Ratios \cup {Junk, NaN, Infinity} : Type("ratio", n)
    \/ \E c \in Client \cup {Empty, "other"} : Type("client", c)
    \/ \E h \in {Host, Empty} : Type("host", h)
    \/ \E p \in Ports \cup {NoPort, Junk} : Type("port", p)
    \/ ListClients
    \/ ApplyEdited
    \/ Reopen

FormSpec == FormInit /\ [][FormNext]_formVars
-----------------------------------------------------------------------------
\* Settings survive the round trip through the file and the form: what the form
\* accepted can be loaded again, the form accepts it again untouched, and if
\* its ratio has one decimal it is then the same configuration.  A ratio of
\* "NaN" or "inf" is the one exception: every validation lets it pass, null is
\* written for it, and no engine starts from the file any more.
SettingsRoundTrip ==
    file.ratio \notin {NaN, Infinity} =>
        /\ Loads(file)
        /\ Issues(FromConfig(file), Client) = {}
        /\ file.ratio % 10 = 0 => FromConfig(file) = file
=============================================================================
