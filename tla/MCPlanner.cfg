SPECIFICATION PlannerSpec
CONSTANTS
  c1 = c1
  c2 = c2
  c3 = c3
  a1 = a1
  a2 = a2
  a3 = a3
  Commands = {c1, c2, c3}
  Assignments = {a1, a2, a3}
  Workers = {1, 2}
  Payloads <- FewPayloads
  Observations <- FewObservations
  MaxDecisions = 2
  MaxBarrier = 2
SYMMETRY Symmetry
INVARIANTS PlannerInvariant AnswersAgree DecisionsBest
