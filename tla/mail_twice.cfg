\* One sender and two polls of the daemon that run beside each other; nothing fails.
CONSTANTS
  Senders = {u1}
  Polls = {c1, c2}
  MaxMails = 1
  Oversize = {}
  MaxShown = 1
  MaxPaths = 2
  MailFaults = 0
SPECIFICATION MailSpec
INVARIANT DeliveredOnce
CHECK_DEADLOCK FALSE
