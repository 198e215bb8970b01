------------------------------- MODULE Naming -------------------------------
(***************************************************************************)
(* How releases are named and described, and how clients read it: the two  *)
(* sides are in two languages and share no code.  The server renders keys  *)
(* to target paths, delegates a pattern of them and signs metadata beside  *)
(* them (dist_core.naming); the client parses paths (dist-core, lib.rs),   *)
(* reads the metadata (verifier.rs) and decides for itself whether a       *)
(* rollout reaches it (rollout.rs, naming.in_rollout).                     *)
(*                                                                         *)
(* A string is a sequence of characters, and a path the sequence of the    *)
(* segments that a string has between its slashes.  SHA-256 is any         *)
(* sequence of bytes.                                                      *)
(***************************************************************************)
EXTENDS Integers, Sequences

CONSTANTS
    Chars,          \* characters, other than the slash
    Slash,
    Alnum,          \* letters and digits
    Dot, Underscore, Hyphen, Newline, Backslash, Colon, Nul,
    Channels,       \* "stable", "beta" and "canary"
    CurrentWord     \* the letters of "current"

CharactersDiffer ==
    /\ Alnum \cup {Dot, Underscore, Hyphen, Newline, Backslash, Colon, Nul} \subseteq Chars
    /\ \A c \in {Dot, Underscore, Hyphen, Newline, Backslash, Colon, Nul} : c \notin Alnum
    /\ \A c \in {Dot, Underscore, Hyphen, Newline} : c \notin {Backslash, Colon, Nul}
    /\ Dot # Underscore /\ Dot # Hyphen /\ Dot # Newline
    /\ Hyphen # Underscore /\ Hyphen # Newline /\ Underscore # Newline
    /\ Slash \notin Chars

Name == Seq(Chars)
String == Seq(Chars \cup {Slash})

(* _SEGMENT.  Its $ also matches before a newline that ends the string. *)
Segment ==
    {s \in Name : /\ s # <<>>
                  /\ s[1] \in Alnum
                  /\ \A i \in DOMAIN s :
                        \/ s[i] \in Alnum \cup {Dot, Underscore, Hyphen}
                        \/ i = Len(s) /\ s[i] = Newline}

-----------------------------------------------------------------------------
(* Paths, as the server renders them *)

ChannelKey == [app_id: Segment, channel: Channels, platform: Segment, arch: Segment]
TargetKey == [app_id: Segment, channel: Channels, platform: Segment, arch: Segment,
              version: Segment, filename: Segment]

Before(segment, rest) == segment \o (<<Slash>> \o rest)
Joined(path) ==
    Before(path[1], Before(path[2], Before(path[3], Before(path[4], path[5]))))

Machine(key) == key.platform \o <<Hyphen>> \o key.arch
Prefix(channel) ==
    Before(channel.app_id, Before(channel.channel, Before(Machine(channel), <<>>)))
Path(key) == <<key.app_id, key.channel, Machine(key), key.version, key.filename>>

PointerVersion == <<Underscore>> \o CurrentWord
PointerPath(channel, file) ==
    <<channel.app_id, channel.channel, Machine(channel), PointerVersion, file>>

(* The server's covers and the client's startswith, which a pointer's string, whatever
   it is, has to pass. *)
StartsWith(string, prefix) ==
    /\ Len(prefix) <= Len(string)
    /\ \A i \in DOMAIN prefix : string[i] = prefix[i]
Covers(channel, string) == StartsWith(string, Prefix(channel))

(* The pattern that a ceremony delegates to the application's role, and the
   matching of the tuf crate, segment by segment. *)
Wildcard == <<>>
AppPathPattern(app) == <<app, Wildcard, Wildcard, Wildcard, Wildcard>>
Matches(pattern, path) ==
    /\ Len(path) = Len(pattern)
    /\ \A i \in DOMAIN pattern : pattern[i] \in {Wildcard, path[i]}

-----------------------------------------------------------------------------
(* Paths, as the client accepts them *)

UnsafeSegment(s) ==
    \/ s \in {<<>>, <<Dot>>, <<Dot, Dot>>}
    \/ \E i \in DOMAIN s : s[i] \in {Backslash, Colon, Nul}

(* Of the segments into which the string is split. *)
Parses(path) == Len(path) = 5 /\ \A i \in DOMAIN path : ~UnsafeSegment(path[i])

-----------------------------------------------------------------------------
(* The metadata signed beside a release.  Absent is Python's None, and an entry
   that the mapping does not have. *)

CONSTANTS Texts, Absent

Optional == {"notes_url", "min_os", "min_from_version"}
ReleaseInfo == [version: Segment, mandatory: BOOLEAN, rollout_pct: 0..100,
                notes_url: Texts \cup {Absent}, min_os: Texts \cup {Absent},
                min_from_version: Texts \cup {Absent}]

ToCustom(info) ==
    [key \in {"version", "mandatory", "rollout_pct"}
               \cup {k \in Optional : info[k] # Absent} |-> info[key]]

Entry(custom, key, default) == IF key \in DOMAIN custom THEN custom[key] ELSE default

(* release_info in the client *)
ReadCustom(custom) ==
    [version |-> custom["version"],
     mandatory |-> Entry(custom, "mandatory", FALSE),
     rollout_pct |-> Entry(custom, "rollout_pct", 100),
     notes_url |-> Entry(custom, "notes_url", Absent),
     min_os |-> Entry(custom, "min_os", Absent),
     min_from_version |-> Entry(custom, "min_from_version", Absent)]

-----------------------------------------------------------------------------
(* Rollout *)

Digest == [1..32 -> 0..255]

(* int.from_bytes(digest[:4], "big"), which has no width, and u32::from_be_bytes,
   whose bits wrap around at U32. *)
CONSTANT U32
FromBytes(d) == ((d[1] * 256 + d[2]) * 256 + d[3]) * 256 + d[4]
FromBeBytes(d) == FromBytes(d) % U32

InRollout(digest, pct) == pct = 100 \/ (pct # 0 /\ FromBytes(digest) % 100 < pct)
InRolloutClient(digest, pct) == pct = 100 \/ (pct # 0 /\ FromBeBytes(digest) % 100 < pct)

-----------------------------------------------------------------------------
(* is_newer: Python's order on the lists of the numbers of two versions *)

Numbers == Seq(Nat)
IsNewer(candidate, installed) ==
    \E i \in DOMAIN candidate :
        /\ \A j \in 1..(i - 1) : j \in DOMAIN installed /\ candidate[j] = installed[j]
        /\ i \in DOMAIN installed => candidate[i] > installed[i]
=============================================================================
