----------------------------- MODULE AppConfig -----------------------------
(***************************************************************************)
(* AppConfig (semfs-cli/src/config.rs) and `semfs config set`              *)
(* (semfs-cli/src/commands/config_cmd.rs): config.toml is read whole,      *)
(* changed at one key and written whole by std::fs::write, which truncates *)
(* the file before it writes.                                              *)
(***************************************************************************)
EXTENDS Naturals

CONSTANTS Key,       \* the settings that matter to the caller
          Value,     \* key -> the values that parse
          Default    \* key -> its default

VARIABLE config      \* the settings in the file, or NoConfig

NoConfig == << >>    \* no file, an empty one, or one that does not parse

Settings == {s \in [Key -> UNION {Value[k] : k \in Key}] : \A k \in Key : s[k] \in Value[k]}

ASSUME ConfigAssumption == Default \in Settings /\ NoConfig \notin Settings

ConfigTypeOK == config \in Settings \cup {NoConfig}

ConfigInit == config = NoConfig

\* load() warns about a file it cannot read or parse and goes on with defaults.
Load == IF config = NoConfig THEN Default ELSE config

\* A value that does not parse, and a key that does not exist, end the command
\* before it saves.
KeepsOnlyKey(s, k, v) == [x \in {k} |-> v]
StartsAfresh(s, k, v) == [Default EXCEPT ![k] = v]
SetKey(s, k, v) == [s EXCEPT ![k] = v]

Truncate == config' = NoConfig

\* Two writers at once may leave a mixture.
WriteConfig(s, alone) == config' \in {s} \cup IF alone THEN {} ELSE {NoConfig}
=============================================================================
