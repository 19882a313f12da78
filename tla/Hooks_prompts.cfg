CONSTANTS
  Windows = {w1, w2}
  NoWindow = NoWindow
  Environments <- MCEnvironments
SPECIFICATION FairSpec
INVARIANTS DeliveryIsSound RoutedHome PromptIsVisible
PROPERTIES ChoiceAnswersItsPrompt PromptIsAnswered
CHECK_DEADLOCK FALSE
