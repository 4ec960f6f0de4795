SPECIFICATION Spec
CONSTANTS
  d1 = d1
  d2 = d2
  NoDesign = NoDesign
  Designs <- MCDesigns
  StructuredDesigns <- MCStructured
  Answers <- MCAnswers
  Sources = {"wiki", "page", "jira"}
  Inspectable = {"wiki", "page"}
  Artifacts = {"deck"}
  NoArtifact = "none"
  MaxQuestions = 2
INVARIANTS
  QuestionsAnswered
  DesignGrounded
  RequiredReference
PROPERTY ReachesCommit
