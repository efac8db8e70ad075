------------------------------ MODULE CanaryTags ------------------------------
(***************************************************************************)
(* How services/opencanary/domain.py turns an event, OpenCanary's own or the  *)
(* gateway's, into ATT&CK tags.  An event is the record of Observers: login   *)
(* says that its log type is one of OpenCanary's login types.                 *)
(***************************************************************************)
EXTENDS Sigma

LateralLoginServices == {"ftp", "ssh", "telnet"}
RedisDataAccessCommands == {"GET", "HGET", "HGETALL", "LRANGE", "MGET", "SMEMBERS"}
RedisRepositoryDiscoveryCommands == {"KEYS", "SCAN"}
RedisCredentialCommands == {"AUTH", "CONFIG"}
SmtpCredentialCommands == {"AUTH"}
SmtpDiscoveryCommands == {"EHLO", "HELO"}
SmtpAccountDiscoveryCommands == {"EXPN", "RCPT", "VRFY"}
FtpExfilCommands == {"APPE", "PUT", "STOR", "STOU", "UPLOAD"}
FtpCollectionCommands == {"GET", "MGET", "RETR"}
FtpDiscoveryCommands == {"CWD", "FEAT", "LIST", "MLSD", "NLST", "PWD", "SYST"}

Discovery == <<Tactic("discovery"), Technique(<<"T1046", "">>)>>
CredentialAccess == <<Tactic("credential_access"), Technique(<<"T1110", "">>)>>
LateralMovement == <<Tactic("lateral_movement"), Technique(<<"T1021", "">>)>>

-----------------------------------------------------------------------------
(* An OpenCanary container's own log entry is [service, port, asset, keys,    *)
(* login]: service is "" if it names none, keys are the names of the fields   *)
(* of its logdata that are not empty, in lower case.                          *)

PortServiceHints(port) ==
  CASE port = 21 -> "ftp" [] port = 22 -> "ssh" [] port = 23 -> "telnet" [] port = 25 -> "smtp"
    [] port = 80 -> "http" [] port = 443 -> "https"
    [] port = 3306 -> "mysql" [] port = 6379 -> "redis" [] port = 9418 -> "git"
    [] OTHER -> "unknown"

CanaryServiceName(log) == IF log.service = "" THEN PortServiceHints(log.port) ELSE log.service

UsernameKeys == {"username", "user", "login"}
UsernameFromLogdata(keys) == keys \cap UsernameKeys # {}

\* A name that looks like a secret's: _SENSITIVE_KEYS are parts of names.
SensitiveKeys == {"password", "passwd", "authorization", "cookie", "token", "api_key"}
PasswordInLogdata(keys) == keys \cap SensitiveKeys # {}

\* What ingest makes of the entry; nothing but a password's presence is used.
CanaryEvent(log) ==
  [service |-> CanaryServiceName(log), asset |-> log.asset, commands |-> <<>>, command |-> "",
   username |-> UsernameFromLogdata(log.keys), password |-> PasswordInLogdata(log.keys),
   login |-> log.login]

-----------------------------------------------------------------------------
\* All the verbs of an event, its single command last.
CommandsFromLogdata(event) ==
  DedupePreserve(event.commands \o (IF event.command = "" THEN <<>> ELSE <<event.command>>))

HasAnyCommand(event, commands) ==
  ToSet(CommandsFromLogdata(event)) \cap commands # {}

IsLoginProbe(event) ==
  \/ event.password \/ event.username \/ event.login
  \/ event.service = "smtp" /\ HasAnyCommand(event, SmtpCredentialCommands)

RedisTags(event) ==
  Discovery \o
  (CASE event.command \in RedisCredentialCommands ->
          <<Tactic("credential_access"), Technique(<<"T1552", "001">>)>>
     [] event.command \in RedisRepositoryDiscoveryCommands ->
          <<Tactic("collection"), Technique(<<"T1213", "">>)>>
     [] event.command \in RedisDataAccessCommands ->
          <<Tactic("collection"), Technique(<<"T1005", "">>)>>
     [] OTHER -> <<>>)

SmtpTags(event) ==
  LET auth == IF HasAnyCommand(event, SmtpCredentialCommands) THEN CredentialAccess ELSE <<>>
  IN  auth \o
      (CASE HasAnyCommand(event, SmtpAccountDiscoveryCommands) ->
              <<Tactic("discovery"), Technique(<<"T1087", "003">>)>>
         [] /\ ~HasAnyCommand(event, SmtpAccountDiscoveryCommands) /\ auth = <<>>
            /\ \/ CommandsFromLogdata(event) = <<>>
               \/ HasAnyCommand(event, SmtpDiscoveryCommands) -> Discovery
         [] OTHER -> <<>>)

\* Mutant: a login is a user name with its password.
FtpCredentialsComplete(event) == event.password /\ event.username

FtpCredentials(event) == event.password \/ event.username

FtpTags(event) ==
  LET login == IF FtpCredentials(event) THEN CredentialAccess \o LateralMovement ELSE <<>>
  IN  login \o
      (IF HasAnyCommand(event, FtpExfilCommands)
         THEN <<Tactic("exfiltration"), Technique(<<"T1567", "002">>)>>
       ELSE IF HasAnyCommand(event, FtpCollectionCommands)
         THEN <<Tactic("collection"), Technique(<<"T1039", "">>)>>
       ELSE IF login = <<>> \/ HasAnyCommand(event, FtpDiscoveryCommands) THEN Discovery
       ELSE <<>>)

\* _profile_tags, without the descriptive tags that follow ATT&CK's.
CanaryProfileTags(event) ==
  DedupePreserve(
    CASE event.service = "ftp" -> FtpTags(event)
      [] event.service = "smtp" -> SmtpTags(event)
      [] event.service \notin {"ftp", "smtp"} /\ IsLoginProbe(event) ->
           CredentialAccess
           \o (IF event.service \in LateralLoginServices THEN LateralMovement ELSE <<>>)
           \o (IF event.service = "ssh" THEN <<Technique(<<"T1021", "004">>)>> ELSE <<>>)
      [] event.service = "git" /\ ~IsLoginProbe(event) ->
           Discovery \o <<Tactic("collection"), Technique(<<"T1213", "">>)>>
      [] event.service = "redis" /\ ~IsLoginProbe(event) -> RedisTags(event)
      [] OTHER -> Discovery)

CanaryPriority(event) == IF IsLoginProbe(event) THEN "medium" ELSE "low"

\* What the profiler keeps of the event's fields for its fingerprint.
CanaryFields(event) ==
  [source |-> "opencanary", asset |-> event.asset, service |-> event.service,
   command |-> event.command, commands |-> CommandsFromLogdata(event),
   username |-> event.username, password |-> event.password]
==============================================================================
