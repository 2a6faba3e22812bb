------------------------------- MODULE Identifiers -------------------------------
(***************************************************************************)
(* The identifiers the runtime derives, by which everything else is        *)
(* compared: the session of a chat, the event of a platform's delivery     *)
(* (duplicates are recognised by it), the delivery of an agent's output    *)
(* (its idempotency key); and the policies that decide who may use the     *)
(* bridge, in which chats and directories.                                 *)
(* A text is the sequence of its bytes.                                    *)
(***************************************************************************)
EXTENDS Integers, Sequences

Byte == 0..255

Hyphen == 45
Dot == 46
Colon == 58
Underscore == 95

IdByte == (48..57) \cup (65..90) \cup (97..122) \cup {Hyphen, Dot, Colon, Underscore}

(* is_valid_id: what SessionId::new and, reading a file, Deserialize       *)
(* accept; RunId and OutboundDeliveryId are the same.                      *)
ValidId == Seq(IdByte) \ {<<>>}

(* Bounds: a text is shorter than 256 MiB, a run's id shorter than 10^7    *)
(* bytes, an agent's output shorter than 10^7 messages.                    *)
Powers16 == <<1, 16, 256, 4096, 65536, 1048576, 16777216, 268435456>>
Powers10 == <<1, 10, 100, 1000, 10000, 100000, 1000000, 10000000>>

(* The names the constructors accept are not blank.  White space that is   *)
(* not ASCII is taken for text here.                                       *)
Blank == (9..13) \cup {32}

Text == {v \in Seq(Byte) : Len(v) < Powers16[8] /\ \E i \in 1..Len(v) : v[i] \notin Blank}

HexDigit == (48..57) \cup (97..102)

HexChar == [d \in 0..15 |-> IF d < 10 THEN 48 + d ELSE 87 + d]

(* How many digits n has, without leading zeros.                           *)
Width(n, powers) ==
  CHOOSE k \in 1..7 : n < powers[k + 1] /\ (k > 1 => powers[k] <= n)

Numeral(n, powers) ==
  [i \in 1..Width(n, powers) |->
     HexChar[(n \div powers[Width(n, powers) - i + 1]) % powers[2]]]

(* What format! makes of a number: {:x} and {}.                            *)
Hex(n) == Numeral(n, Powers16)

Decimal(n) == Numeral(n, Powers10)

(* Two digits per byte.                                                    *)
HexBytes(v) ==
  [i \in 1..(2 * Len(v)) |->
     IF i % 2 = 1 THEN HexChar[v[(i + 1) \div 2] \div 16] ELSE HexChar[v[i \div 2] % 16]]

(* What format! makes of two parts with a separator between them.          *)
Joined(a, c, x) == a \o (<<c>> \o x)

(* encode_canonical_component                                              *)
EncodeComponent(v) == Joined(Hex(Len(v)), Underscore, HexBytes(v))

-----------------------------------------------------------------------------
(* SessionScope: a chat of a platform.                                     *)
Scope == [platform : Text, scope : Text]

SessionPrefix == <<115, 101, 115, 115, 105, 111, 110, 95, 118, 49, 95>>  \* session_v1_

(* SessionId::for_scope                                                    *)
ForScope(s) ==
  SessionPrefix \o Joined(EncodeComponent(s.platform), Underscore, EncodeComponent(s.scope))

(* A platform numbers its deliveries per chat.                             *)
PlatformDelivery == [platform : Text, scope : Text, delivery : Text]

EventPrefix ==                                                 \* platform_delivery_v1_
  <<112, 108, 97, 116, 102, 111, 114, 109, 95,
    100, 101, 108, 105, 118, 101, 114, 121, 95, 118, 49, 95>>

(* EventId::for_platform_delivery                                          *)
ForPlatformDelivery(d) ==
  EventPrefix \o Joined(EncodeComponent(d.platform), Underscore,
                        Joined(EncodeComponent(d.scope), Underscore,
                               EncodeComponent(d.delivery)))

RunId == {r \in ValidId : Len(r) < Powers10[8]}

OutputIndex == {n \in Nat : n < Powers10[8]}

OutboundDeliveryId == ValidId

OutputPrefix ==                                                \* agent-run-output:
  <<97, 103, 101, 110, 116, 45, 114, 117, 110, 45, 111, 117, 116, 112, 117, 116, 58>>

(* output_delivery_id of the index-th output of a run.                     *)
OutputDeliveryId(run, index) ==
  Joined(OutputPrefix \o Joined(Decimal(Len(run)), Colon, run), Colon, Decimal(index))

(* OutboundDeliveryAttempt::from_record: the chats an attempt for a        *)
(* delivery of this session may name.                                      *)
AttemptScopes(session, scopes) == {s \in scopes : ForScope(s) = session}

-----------------------------------------------------------------------------
(* AccessPolicy: who may use the bridge, in which chats, and who may       *)
(* administer it.  The chats are kept under their session ids.             *)
Principal == [platform : Text, subject : Text]

Policy(principals, scopes, administrators) ==
  [principals |-> principals, sessions |-> {ForScope(s) : s \in scopes},
   administrators |-> administrators]

(* AccessPolicy::new refuses any other.                                    *)
IsPolicy(policy) == policy.administrators \subseteq policy.principals

Actions == {"InvokeAgent", "AdministerBridge"}

(* AccessPolicy::evaluate                                                  *)
Evaluate(policy, principal, scope, action) ==
  IF principal \notin policy.principals THEN "PrincipalNotAllowed"
  ELSE IF ForScope(scope) \notin policy.sessions THEN "ScopeNotAllowed"
  ELSE IF action = "AdministerBridge" /\ principal \notin policy.administrators
       THEN "AdministratorRequired"
  ELSE "Allowed"

-----------------------------------------------------------------------------
(* WorkspacePolicy: the directories in which an agent may be run.  A path  *)
(* is its spelling and what Path says of it: whether it is absolute, its   *)
(* kind of prefix, and the kinds of its components after that.             *)
PathPrefix == {"none", "disk", "unc", "verbatimDisk", "verbatimUnc", "verbatim", "device"}

Path == [spelling : Seq(Byte), absolute : BOOLEAN, prefix : PathPrefix,
         components : Seq({"root", "current", "parent", "normal"})]

(* WorkspaceRoot::new accepts the path.                                    *)
IsWorkspaceRoot(path) ==
  /\ path.absolute
  /\ path.prefix \notin {"verbatim", "device"}
  /\ \A i \in DOMAIN path.components : path.components[i] # "parent"
  /\ \E i \in DOMAIN path.components : path.components[i] = "normal"

WorkspaceRoot == {path \in Path : IsWorkspaceRoot(path)}

(* WorkspacePolicy::evaluate compares spellings, not components.           *)
EvaluateRoot(allowed, requested) ==
  IF ~IsWorkspaceRoot(requested) THEN "InvalidRoot"
  ELSE IF requested.spelling \in {root.spelling : root \in allowed}
       THEN "Allowed" ELSE "RootNotAllowed"
=============================================================================
