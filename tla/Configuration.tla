----------------------------- MODULE Configuration -----------------------------
(***************************************************************************)
(* config: what the service makes of its environment at start.  A value is   *)
(* a sequence of characters; a variable that is not set is the empty one.    *)
(***************************************************************************)
EXTENDS Naturals, FiniteSetsExt, SequencesExt

CONSTANTS
  Blank,          \* characters strip() takes off an end
  Hidden,         \* characters that do not print: some blank, some not
  Truthy,         \* what turns anonymous writes on, in any case
  RefusedOrigins, \* REFUSED_ORIGINS, in any case
  PortOf,         \* the number int() makes of a text, where it makes one
  DefaultPort, MaxPort,
  MaxValue,       \* MAX_VALUE_LENGTH
  MinToken,       \* MIN_TOKEN_LENGTH
  WorkingData     \* the directory below the working directory

ASSUME ConfigurationAssumption ==
  /\ DefaultPort \in 1 .. MaxPort /\ MaxPort \in Nat
  /\ MaxValue \in Nat /\ MinToken \in 1 .. MaxValue

Quotes == {"\"", "'"}
Variables == {"ENLIGHTENMENT_TEAM_TOKEN", "ALLOWED_ORIGIN", "ENLIGHTENMENT_ALLOW_ANONYMOUS",
              "PORT", "HOST", "DATA_DIR", "STORAGE_MOUNT_PATH", "BUILD_ID"}

strip(text) ==
  LET inner == {i \in DOMAIN text : text[i] \notin Blank}
  IN  IF inner = {} THEN << >> ELSE SubSeq(text, Min(inner), Max(inner))

\* One pair of quotes is taken off.
unquoted(text) ==
  IF Len(text) >= 2 /\ Head(text) \in Quotes /\ Last(text) = Head(text)
    THEN SubSeq(text, 2, Len(text) - 1) ELSE text

\* clean(), of a value that is not too long: the quotes are looked for before what does
\* not print is taken out.
clean(raw) == strip(SelectSeq(unquoted(strip(raw)), LAMBDA c : c \notin Hidden))

resolve_data_dir(source) ==
  IF clean(source["DATA_DIR"]) # << >> THEN clean(source["DATA_DIR"])
  ELSE IF clean(source["STORAGE_MOUNT_PATH"]) # << >> THEN clean(source["STORAGE_MOUNT_PATH"])
  ELSE WorkingData

_resolve_host(raw, auth_required) ==
  IF raw # << >> THEN raw ELSE IF auth_required THEN <<"0.0.0.0">> ELSE <<"127.0.0.1">>

\* What load_config() returns of an environment it does not refuse; the build's name is
\* left out.
load_config(source) ==
  LET token == clean(source["ENLIGHTENMENT_TEAM_TOKEN"])
      port == clean(source["PORT"])
  IN  [team_token |-> token,
       allowed_origin |-> clean(source["ALLOWED_ORIGIN"]),
       allow_anonymous_writes |-> clean(source["ENLIGHTENMENT_ALLOW_ANONYMOUS"]) \in Truthy,
       port |-> IF port = << >> THEN DefaultPort ELSE PortOf[port],
       host |-> _resolve_host(clean(source["HOST"]), token # << >>),
       data_dir |-> resolve_data_dir(source)]

\* A value over the cap is refused, never cut; the injected directory is not looked at
\* where one is named.
TooLong(source) ==
  \E v \in Variables \ (IF clean(source["DATA_DIR"]) # << >> THEN {"STORAGE_MOUNT_PATH"} ELSE {}) :
    Len(source[v]) > MaxValue

\* _validate_access()
Unjustified(token, origin, anonymous) ==
  \/ origin \in RefusedOrigins
  \/ token # << >> /\ (Len(token) < MinToken \/ origin = << >> \/ anonymous)

\* _resolve_port(), and _validate_data_dir(): an absolute path, and not the root.
BadPort(raw) == raw # << >> /\ (raw \notin DOMAIN PortOf \/ PortOf[raw] \notin 1 .. MaxPort)
BadDataDir(path) ==
  \/ Head(path) # "/"
  \/ \A i \in DOMAIN path : path[i] = "/" \/ (path[i] = "." /\ path[i - 1] = "/")

\* Why the service does not start.
Refused(source) ==
  \/ TooLong(source)
  \/ Unjustified(clean(source["ENLIGHTENMENT_TEAM_TOKEN"]), clean(source["ALLOWED_ORIGIN"]),
                 clean(source["ENLIGHTENMENT_ALLOW_ANONYMOUS"]) \in Truthy)
  \/ BadPort(clean(source["PORT"]))
  \/ BadDataDir(resolve_data_dir(source))

auth_required(config) == config.team_token # << >>

\* Mutant: with no token, writes are open.
writes_open_Unset(config) == ~ auth_required(config)

writes_open(config) == ~ auth_required(config) /\ config.allow_anonymous_writes

\* What was written into a variable, whatever was pasted around it.
Written(raw) == SelectSeq(raw, LAMBDA c : c \notin Blank \cup Hidden \cup Quotes)
=============================================================================
