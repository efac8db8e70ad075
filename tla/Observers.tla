------------------------------ MODULE Observers ------------------------------
(***************************************************************************)
(* What the asset gateway reports of what a client sends                      *)
(* (services/asset_gateway/app.py, _protocol_observer and what it calls).     *)
(*                                                                            *)
(* One read of the socket is a sequence of messages, lines or packets: it may *)
(* hold several of them, and every read is reported on its own.  A message is *)
(* [verb, packet]: its first word ("" for a blank line), and for MySQL the    *)
(* command byte of its header ("text" when it is no such packet).             *)
(***************************************************************************)
EXTENDS Sigma

FtpCommands == {"APPE", "CWD", "FEAT", "LIST", "MLSD", "NLST", "PASS", "PWD", "QUIT",
                "RETR", "STOR", "STOU", "SYST", "USER"}
SmtpCommands == {"AUTH", "DATA", "EHLO", "EXPN", "HELO", "MAIL", "NOOP", "QUIT",
                 "RCPT", "RSET", "VRFY"}
SqlCommands == {"ALTER", "CREATE", "DELETE", "DESC", "DESCRIBE", "DROP", "EXPLAIN",
                "INSERT", "SELECT", "SHOW", "UPDATE", "USE"}
HttpMethods == {"GET", "POST", "PUT", "PATCH", "DELETE", "OPTIONS", "HEAD"}
GitActions == <<"GIT_UPLOAD_PACK", "GIT_RECEIVE_PACK", "GIT_UPLOAD_ARCHIVE",
                "GIT_LS_REFS", "GIT_FETCH">>

Verbs(read) == [i \in DOMAIN read |-> read[i].verb]
Spoken(read, verbs) == Picked(Verbs(read), {i \in DOMAIN read : read[i].verb \in verbs})
Words(read) == Picked(Verbs(read), {i \in DOMAIN read : read[i].verb # ""})

ParseLines(read, valid) == DedupePreserve(Spoken(read, valid))
ParseFtpCommands(read) == ParseLines(read, FtpCommands)
ParseSmtpCommands(read) == ParseLines(read, SmtpCommands)
ParseTextCommands(read) == DedupePreserve(Words(read))

\* Only the first command of a read.
ParseRedisCommands(read) == IF Words(read) = <<>> THEN <<>> ELSE <<Words(read)[1]>>

ParseGitCommands(read) ==
  LET seen == Picked(GitActions, {n \in DOMAIN GitActions :
                                    \E i \in DOMAIN read : read[i].verb = GitActions[n]})
  IN  IF seen = <<>> /\ read # <<>> THEN <<"GIT_CONNECT">> ELSE seen

\* A packet's header keeps its verb from the start of a line, so that of the
\* packets of one read only the first is understood.
SqlVerbs(read) ==
  DedupePreserve(Picked(Verbs(read), {i \in DOMAIN read : /\ read[i].packet = "text"
                                                          /\ read[i].verb \in SqlCommands}))

MysqlPacket(message) ==
  CASE message.packet = "text" -> <<>>
    [] message.packet = "query" ->
         IF message.verb \in SqlCommands THEN <<message.verb>> ELSE <<"MYSQL_QUERY">>
    [] OTHER -> <<"MYSQL_" \o message.packet>>

ParseMysqlCommands(read) ==
  LET first == IF read = <<>> THEN <<>> ELSE MysqlPacket(read[1])
      verbs == SqlVerbs(read)
  IN  IF read = <<>> \/ first # <<>> THEN first
      ELSE IF verbs # <<>> THEN verbs ELSE <<"MYSQL_LOGIN">>

ParseLoginProtocolCommands(read, fallback) ==
  LET words == ParseTextCommands(read)
  IN  IF read = <<>> THEN <<>>
      ELSE IF read[1].verb = "SSH-" THEN <<"SSH_CLIENT_HELLO">>
      ELSE IF words = <<>> THEN <<fallback>> ELSE words

\* _protocol_observer: the asset decides, or else the public port it is on.
ObservedService(asset, port) ==
  IF asset = "mail-relay" \/ port = 2525 THEN "smtp"
  ELSE IF asset = "ftp-archive" \/ port = 12121 THEN "ftp"
  ELSE IF asset = "redis-cache" \/ port = 16379 THEN "redis"
  ELSE IF asset = "git-internal" \/ port = 19418 THEN "git"
  ELSE IF asset = "ops-db" \/ port = 13306 THEN "mysql"
  ELSE IF asset = "ssh-canary" \/ port = 12222 THEN "ssh"
  ELSE IF asset = "legacy-telnet" \/ port = 12323 THEN "telnet"
  ELSE IF asset = "dionaea-capture" THEN "dionaea"
  ELSE IF asset = "honeytrap-generic" THEN "honeytrap"
  ELSE "none"

HighInteractionService(port) ==
  CASE port = 18085 -> "http" [] port = 1445 -> "smb" [] port = 11433 -> "mssql"
    [] port = 12122 -> "ftp" [] OTHER -> "tcp"

ParsedCommands(service, read) ==
  CASE service = "smtp" -> ParseSmtpCommands(read)
    [] service = "ftp" -> ParseFtpCommands(read)
    [] service = "redis" -> ParseRedisCommands(read)
    [] service = "git" -> ParseGitCommands(read)
    [] service = "mysql" -> ParseMysqlCommands(read)
    [] service = "ssh" -> ParseLoginProtocolCommands(read, "SSH_CLIENT_DATA")
    [] service = "telnet" -> ParseLoginProtocolCommands(read, "TELNET_INPUT")
    [] OTHER -> <<>>

\* Credential fields of the event: what was sent is never kept, that it was is.
UsernameSeen(service, commands) ==
  \/ service = "ftp" /\ Contains(commands, "USER")
  \/ service = "mysql" /\ commands = <<"MYSQL_LOGIN">>
  \/ service \in {"ssh", "telnet"}

PasswordSeen(service, commands) ==
  \/ service = "ftp" /\ Contains(commands, "PASS")
  \/ service = "smtp" /\ Contains(commands, "AUTH")
  \/ service = "mysql" /\ commands = <<"MYSQL_LOGIN">>
  \/ service \in {"ssh", "telnet"}

\* The events of one read, in the shape of OpenCanary's: at most one.
ProtocolEvents(asset, port, read) ==
  LET service == ObservedService(asset, port)
      commands == ParsedCommands(service, read)
  IN  IF \/ read = <<>> \/ service \in {"dionaea", "honeytrap", "none"}
         \/ service \in {"smtp", "ftp", "git"} /\ commands = <<>>
        THEN {}
        ELSE {[service |-> service, asset |-> asset, commands |-> commands,
               command |-> IF service \in {"smtp", "ftp"} \/ commands = <<>>
                             THEN "" ELSE commands[1],
               username |-> UsernameSeen(service, commands),
               password |-> PasswordSeen(service, commands),
               login |-> FALSE]}

\* Metadata of what reaches a capture backend.
ProbeEvents(asset, port, read) ==
  LET source == ObservedService(asset, port)
  IN  IF read = <<>> \/ source \notin {"dionaea", "honeytrap"} THEN {}
      ELSE {[source |-> source, service |-> HighInteractionService(port), asset |-> asset,
             kind |-> {"tcp", "probe"}, text |-> ToSet(Verbs(read)) \ {""}]}

\* Ports HTTP is looked for on, and the requests found in the first read.
HttpPorts == {18080, 18081, 18082, 18443, 18085}
ParsedHttpRequests(port, read) ==
  {m \in {read[i] : i \in {1} \cap DOMAIN read} : port \in HttpPorts /\ m.verb \in HttpMethods}
==============================================================================
