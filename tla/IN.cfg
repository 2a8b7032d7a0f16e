SPECIFICATION FairSpec
CONSTANTS
  a1 = a1
  a2 = a2
  u1 = u1
  q1 = q1
  web = web
  db = db
  cpu = cpu
  mem = mem
  Agents <- MCAgents
  Users <- MCUsers
  Applies <- MCApplies
  Target <- MCTarget
  Names <- MCNames
  Addresses <- NoAddresses
  Keys <- MCKeys
  MaxEdits = 1
INVARIANTS TypeOK AnswerTruth
PROPERTIES TemplateApplied PushesGetThrough
